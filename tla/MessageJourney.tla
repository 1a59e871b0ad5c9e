--------------------------- MODULE MessageJourney ---------------------------
(***************************************************************************)
(* What becomes of the contents of messages: a client appends them, the    *)
(* service stores them, copies them into snapshots and answers them again, *)
(* each time through the conversions of MessageCodec.  Which messages a    *)
(* conversation lists, and in which order, is in ConversationStore.        *)
(***************************************************************************)
EXTENDS MessageCodec, Sequences

CONSTANTS
  MessageIds,
  Inputs,       \* the messages clients append
  MaxCopies     \* bound: rows of snapshot_items

ASSUME JourneyAssumption == Inputs \subseteq WireInput /\ Null \notin Inputs

VARIABLES
  sent,            \* the input of the append that was to create a message
  outcome,         \* what the append answered: "stored", "refused" (InvalidArgument),
                   \* or the error it failed with (Internal)
  rows,            \* the row in messages: role and columns of the body
  snapshot_items   \* the copies, with body_sha256: SHA-256 is taken to tell
                   \* all JSON texts apart, so the hash is the text

vars == <<sent, outcome, rows, snapshot_items>>

Init ==
  /\ sent = [m \in MessageIds |-> Null]
  /\ outcome = [m \in MessageIds |-> "none"]
  /\ rows = [m \in MessageIds |-> Null]
  /\ snapshot_items = <<>>

\* The values of type [role, columns] as INSERT INTO messages writes them.
RowOf(input) ==
  [role |-> Int16(input.role), cols |-> EncodeMessageBody(FromProtoBody(input.body))]

\* Mutant: the answer is made from the input, without decoding the row.
AppendUnread(input) ==
  IF ~WireInputAccepted(input) THEN "refused"
  ELSE IF ~Validate(FromProtoBody(input.body)) THEN "message body invalid"
  ELSE "stored"

\* fromProtoAppendMessage refuses the input, encodeMessageBody fails, or the
\* row, once inserted, is decoded for the answer, whose failure rolls it back.
AppendOutcome(input) ==
  IF ~WireInputAccepted(input) THEN "refused"
  ELSE IF ~Validate(FromProtoBody(input.body)) THEN "message body invalid"
  ELSE LET error == DecodeError(RowOf(input).cols)
       IN  IF error = "none" THEN "stored" ELSE error

AppendMessage(m) ==
  /\ sent[m] = Null
  /\ \E input \in Inputs :
       /\ sent' = [sent EXCEPT ![m] = input]
       /\ outcome' = [outcome EXCEPT ![m] = AppendOutcome(input)]
       /\ rows' = [rows EXCEPT ![m] =
                     IF AppendOutcome(input) = "stored" THEN RowOf(input) ELSE Null]
  /\ UNCHANGED snapshot_items

\* Mutant: a copy is encoded without its metadata.
CopyWithoutMetadata(row) ==
  [row EXCEPT !.cols = EncodeMessageBody(DecodeMessageBody(
                         [row.cols EXCEPT !.tool_metadata = Null]))]

\* The columns of a copy: the row decoded and encoded again.
CopyOf(row) == [row EXCEPT !.cols = EncodeMessageBody(DecodeMessageBody(row.cols))]

\* One item of CreateSnapshot: toDomain, MarshalDeterministicJSON (over the map
\* in whatever order), encodeMessageBody, INSERT INTO snapshot_items.
CopyMessage(m) ==
  /\ rows[m] # Null
  /\ DecodeError(rows[m].cols) = "none"
  /\ Len(snapshot_items) < MaxCopies
  /\ LET body == DecodeMessageBody(rows[m].cols) IN
       /\ Validate(body)
       /\ \E keys \in MapOrders(MetadataOf(body)) :
            snapshot_items' =
              Append(snapshot_items,
                     [message_id |-> m, row |-> CopyOf(rows[m]),
                      body_sha256 |-> MarshalDeterministicJSON(body, keys)])
  /\ UNCHANGED <<sent, outcome, rows>>

Next == \E m \in MessageIds : AppendMessage(m) \/ CopyMessage(m)

Spec == Init /\ [][Next]_vars

-----------------------------------------------------------------------------
(***************************************************************************)
(* Answers: a row read by a listing and converted for the client.          *)
(***************************************************************************)
Answer(row) == [role |-> row.role, body |-> ToProtoBody(DecodeMessageBody(row.cols))]

\* Mutant: the filter is brought into range instead of narrowed.
FilterRolesSaturated(roles) == {Saturated(role) : role \in roles}

\* A filter by roles: narrowed by the handler and again by rolesToInt16.
FilterRoles(roles) == {Int16(Int16(role)) : role \in roles}

LetThrough(row, roles) == row.role \in FilterRoles(roles)

Stored == {m \in MessageIds : rows[m] # Null}
Copies == {snapshot_items[i] : i \in DOMAIN snapshot_items}

\* Whether every enum of an input survives the narrowing to 16 bits.
Fits(n)         == Int16(n) = n
InputFits(input) ==
  /\ Fits(input.role)
  /\ input.body.variant = "tool_output" =>
       (input.body.output.variant = "image" => Fits(input.body.output.detail))

-----------------------------------------------------------------------------
(***************************************************************************)
(* Properties.                                                             *)
(***************************************************************************)

\* Every row that was committed, and every copy of it in a snapshot, can be
\* decoded: one that cannot would make every listing it falls into fail, for
\* good.  encodeMessageBody does not see to that, it stores what Validate lets
\* through; that append decodes the row before it commits does.
StoredIsReadable ==
  /\ \A m \in Stored : DecodeError(rows[m].cols) = "none"
  /\ \A s \in Copies : DecodeError(s.row.cols) = "none"

\* What a listing answers is what the client appended, whatever was empty, zero
\* or absent in it, for enum values that fit 16 bits.
ReadIsSent ==
  \A m \in Stored : InputFits(sent[m]) => Answer(rows[m]) = sent[m]

\* A snapshot holds the very columns of the message it was taken of, although
\* they are decoded and encoded again, so that both read the same ever after.
CopyIsFaithful ==
  \A s \in Copies : s.row = rows[s.message_id]

\* Two copies have the same body_sha256 exactly if they hold the same body:
\* whatever order Go ranges over metadata in, and whatever is empty or left out.
HashTellsBodies ==
  \A s, t \in Copies : (s.body_sha256 = t.body_sha256) <=> (s.row.cols = t.row.cols)

\* A listing filtered by roles, given as a client gives them, answers a message
\* that was appended with one of them, and every message it answers has a role
\* that one of them is narrowed to: the two ways a role takes into the database
\* end in the same value.
FilterFindsOwnRole ==
  \A m \in Stored, r1, r2 \in Roles :
    LET roles == {r1, r2} IN
      /\ sent[m].role \in roles => LetThrough(rows[m], roles)
      /\ LetThrough(rows[m], roles) =>
           \E role \in roles : Answer(rows[m]).role = Int16(role)

\* converter.go:17 "role must be specified": no message is stored with the role
\* that means unspecified.
StoredRoleIsSpecified == \A m \in Stored : rows[m].role # ROLE_UNSPECIFIED

\* convert.go:122, types.go:73 "message body missing variant": said only of an
\* input whose body has no variant.
MissingVariantIsMissing ==
  \A m \in MessageIds :
    outcome[m] = "message body missing variant" => sent[m].body \in {Absent, Unset}

=============================================================================
