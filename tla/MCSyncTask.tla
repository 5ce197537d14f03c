----------------------------- MODULE MCSyncTask -----------------------------
(***************************************************************************)
(* SyncTask for TLC: two paths and two contents.  An entry of size 0 is    *)
(* not checked against the file, one of size 1 is, so a stale file can     *)
(* both slip through and be caught.                                        *)
(***************************************************************************)
EXTENDS SyncTask, TLC

CONSTANTS a, b     \* contents

MCSizeOf == (a :> 0) @@ (b :> 1)

MCSameSize == (a :> 1) @@ (b :> 1)

PathSymmetry == Permutations(Path)
=============================================================================
