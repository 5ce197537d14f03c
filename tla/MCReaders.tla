----------------------------- MODULE MCReaders -----------------------------
(***************************************************************************)
(* Readers and the log ring for TLC.  The two share nothing, so a          *)
(* behaviour is one of the readers with a ring that stays empty, or one of *)
(* the ring before anything is published or asked for.                     *)
(***************************************************************************)
EXTENDS Readers, LogRing, TLC

CONSTANTS f, g, d

(* f at the top and g in the directory d. *)
MCAbove == f :> {} @@ g :> {d} @@ d :> {}

(* Bound: while the last request is under way no version comes or goes. *)
Crowded == arrivals = MaxArrivals /\ \E h \in Request : rd[h].pc # "off"
Calm    == \A v \in Version : stage[v] \in {"absent", "whole", "gone"}

MCInit == Init /\ RingInit

MCNext ==
  \/ log = <<>> /\ Next /\ (Crowded' => Calm') /\ UNCHANGED ringVars
  \/ Init /\ RingNext /\ UNCHANGED vars

MCSpec == MCInit /\ [][MCNext]_<<vars, ringVars>> /\ Fairness
=============================================================================
