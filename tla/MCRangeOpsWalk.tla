--------------------------- MODULE MCRangeOpsWalk ---------------------------
(***************************************************************************)
(* Instances of RangeOpsWalk for TLC.                                      *)
(***************************************************************************)
EXTENDS RangeOpsWalk

CONSTANTS MaxInserts, MaxSpare

MCInsertLists == UNION {[1..k -> MessageIds] : k \in 0..MaxInserts}
MCSpares      == 0..MaxSpare

=============================================================================
