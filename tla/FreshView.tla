------------------------------ MODULE FreshView ------------------------------
(***************************************************************************)
(* What a live view promises of the source it copies: the source moves     *)
(* from version to version; the view shows some version of it, never one   *)
(* the source has not reached, and never goes back to an older one.  How   *)
(* the copies are asked for, answered, lost or overtaken does not matter.  *)
(***************************************************************************)
EXTENDS Naturals

CONSTANT Versions      \* the versions of the source, 1..Versions

VARIABLES source, view

SourceMoves == source < Versions /\ source' = source + 1 /\ UNCHANGED view

ViewMoves == view' \in (view + 1)..source /\ UNCHANGED source

Init == source \in 1..Versions /\ view \in 0..source

Next == SourceMoves \/ ViewMoves

Spec == Init /\ [][Next]_<<source, view>>
=============================================================================
