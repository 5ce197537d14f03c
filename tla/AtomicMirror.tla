---------------------------- MODULE AtomicMirror ----------------------------
(***************************************************************************)
(* What one task promises its readers (DESIGN 4.3): the mirror is, at      *)
(* every moment, one whole tree that the source had when some snapshot was *)
(* taken; it moves in one step, only to the latest snapshot, and, once the *)
(* source rests, ends up equal to it.                                      *)
(***************************************************************************)
CONSTANTS Trees, NoTree      \* NoTree: the mirror before the first sync

VARIABLES source, taken, mirror

vars == <<source, taken, mirror>>

Init == source \in Trees /\ taken = NoTree /\ mirror = NoTree

Change  == source' \in Trees /\ UNCHANGED <<taken, mirror>>
Take    == taken' = source /\ UNCHANGED <<source, mirror>>
Publish == mirror' = taken /\ UNCHANGED <<source, taken>>

Next == Change \/ Take \/ Publish

Spec == Init /\ [][Next]_vars

Fairness == WF_vars(Take) /\ WF_vars(Publish)
=============================================================================
