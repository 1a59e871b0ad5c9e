-------------------------- MODULE MCMessageJourney --------------------------
(***************************************************************************)
(* Instances of MessageJourney for TLC.                                    *)
(***************************************************************************)
EXTENDS MessageJourney

CONSTANT Wide      \* whether the inputs are those of the wide instance

MCTexts   == {"", "a"}
MCLengths == {-1, 0, 640}

\* The enum values in use, and values beyond 16 bits on either side, among them
\* one whose low 16 bits are zero.
MCRoles   == {0, 1, 3, 40000, 65536, 65537, -1, -65535}
MCDetails == {0, 3, 40000, 65536, -1}

TextOnly    == {b \in WireBody : b.variant # "tool_output"}
TextOutputs == {Unset} \cup WireText

\* Every shape of body with one role, and every role with simple bodies.
WideInputs ==
  [role : {3}, body : WireBody] \cup [role : MCRoles, body : TextOnly]

\* Bodies that differ in their metadata and in the texts around them.
NarrowInputs ==
  [role : {3}, body : TextOnly \cup
     [variant : {"tool_output"}, tool_name : {"a"}, tool_call_id : Texts,
      metadata : Metadata, output : TextOutputs]]

MCInputs == IF Wide THEN WideInputs ELSE NarrowInputs

=============================================================================
