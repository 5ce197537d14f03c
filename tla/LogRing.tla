------------------------------ MODULE LogRing ------------------------------
(***************************************************************************)
(* The log ring (internal/logring): Add and Tail, each under the ring's    *)
(* mutex, and the handler that feeds it and log.tail that reads it.  An    *)
(* entry is the task it is about: what hasTask compares.                   *)
(***************************************************************************)
EXTENDS Naturals, Sequences

CONSTANTS
  Subject,       \* what an entry may be about
  Capacity,      \* of the ring
  MaxLog         \* bound: the length of a log

ASSUME CapacityAssumption == Capacity \in Nat \ {0}

VARIABLES
  ring,
  log            \* all that was ever added

ringVars == <<ring, log>>

Blank == ""     \* Go's zero string: a slot never written, no task asked for

NewRing == [buf |-> [i \in 0 .. Capacity - 1 |-> Blank], head |-> 0, count |-> 0]

Add_KeepsHead(r, e) ==         \* broken: a full ring does not move its head
  [r EXCEPT !.buf[(r.head + r.count) % Capacity] = e,
            !.count = IF @ = Capacity THEN @ ELSE @ + 1]

(***************************************************************************)
(* A full ring overwrites its oldest entry.                                *)
(***************************************************************************)
Add(r, e) ==
  IF r.count = Capacity
    THEN [r EXCEPT !.buf[r.head] = e, !.head = (@ + 1) % Capacity]
    ELSE [r EXCEPT !.buf[(r.head + r.count) % Capacity] = e, !.count = @ + 1]

Taken(r, n) == IF n = 0 \/ n > r.count THEN r.count ELSE n

(***************************************************************************)
(* The last n entries, oldest first, and of those the ones about the task. *)
(***************************************************************************)
Tail_(r, n, task) ==
  LET k == Taken(r, n)
      last == [i \in 1 .. k |-> r.buf[(r.head + r.count - k + i - 1) % Capacity]]
  IN SelectSeq(last, LAMBDA e : task = Blank \/ e = task)

RingInit == ring = NewRing /\ log = <<>>

Handle(e) ==
  /\ Len(log) < MaxLog
  /\ ring' = Add(ring, e) /\ log' = Append(log, e)

RingNext == \E e \in Subject : Handle(e)

RingSpec == RingInit /\ [][RingNext]_ringVars
-----------------------------------------------------------------------------
LastOf(s, n) == SubSeq(s, Len(s) - n + 1, Len(s))

(***************************************************************************)
(* TailIsRecent: whatever was logged, Tail(n, task) is what the last n     *)
(* entries (all that the ring holds, if n is 0 or more than that) say of   *)
(* the task, oldest first: before, at and after the ring wraps.  It is not *)
(* the last n entries about the task.                                      *)
(***************************************************************************)
TailIsRecent ==
  \A n \in 0 .. Capacity + 1 : \A task \in Subject \cup {Blank} :
    LET held == IF Len(log) < Capacity THEN Len(log) ELSE Capacity
        want == IF n = 0 \/ n > held THEN held ELSE n
    IN Tail_(ring, n, task)
         = SelectSeq(LastOf(log, want), LAMBDA e : task = Blank \/ e = task)
=============================================================================
