------------------------------ MODULE Retention ------------------------------
(***************************************************************************)
(* internal/engine/retention.go: which versions Cleanup deletes.           *)
(*                                                                         *)
(* Versions are naturals in the order ListVersions sorts their names.      *)
(* keepDays appears as a cut: the versions it calls too old are those      *)
(* below some name, because it reads a version's time from its name.       *)
(***************************************************************************)
EXTENDS Naturals, FiniteSets

CONSTANT KeepLast    \* retention.keepLast; 0 = no limit on the number

ASSUME KeepLastIsNat == KeepLast \in Nat

Rank_FromZero(v, names)  == Cardinality({w \in names : w > v})      \* broken
Rank_FromOldest(v, names) == Cardinality({w \in names : w <= v})    \* broken

Rank(v, names) == Cardinality({w \in names : w >= v})   \* 1 = newest

Expired(cut, names) == {v \in names : v < cut}

Excess(names) == {v \in names : KeepLast > 0 /\ Rank(v, names) > KeepLast}

(***************************************************************************)
(* The current version has a rank but is never deleted.                    *)
(***************************************************************************)
Doomed(names, currentBase, cut) ==
  (Expired(cut, names) \cup Excess(names)) \ {currentBase}
=============================================================================
