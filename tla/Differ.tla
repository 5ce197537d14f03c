------------------------------- MODULE Differ -------------------------------
(***************************************************************************)
(* internal/engine/differ.go: the differ, and the assembly rule that       *)
(* applier.go derives from its result.                                     *)
(*                                                                         *)
(* A manifest is a function from every path to the fingerprint of its      *)
(* content, None where the path has no entry.  A fingerprint identifies a  *)
(* content (both shipped plugins use a hash of the bytes), so one set      *)
(* Content stands for both, and a tree of files is the same kind of        *)
(* function as the manifest that describes it.                             *)
(***************************************************************************)
CONSTANTS Path, Content, None

ASSUME NoneIsNoContent == None \notin Content

Tree == [Path -> Content \cup {None}]

Empty == [p \in Path |-> None]

PathsOf(t) == {p \in Path : t[p] # None}

(***************************************************************************)
(* ChangeSet: the three lists Diff returns, as sets of paths.              *)
(***************************************************************************)
Added(before, after)    == PathsOf(after) \ PathsOf(before)
Removed(before, after)  == PathsOf(before) \ PathsOf(after)
Modified(before, after) ==
  {p \in PathsOf(before) \cap PathsOf(after) : before[p] # after[p]}

HasChanges_NoRemoved(before, after) ==      \* broken: blind to removed files
  Added(before, after) \cup Modified(before, after) # {}

HasChanges(before, after) ==
  Added(before, after) \cup Modified(before, after) \cup Removed(before, after) # {}

(***************************************************************************)
(* The files runSync fetches; Apply takes these from staging and every     *)
(* other entry of the new manifest from the previous version.              *)
(***************************************************************************)
ToFetch(before, after) == Added(before, after) \cup Modified(before, after)
=============================================================================
