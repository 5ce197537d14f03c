--------------------------- MODULE LogRingProofs ---------------------------
(***************************************************************************)
(* A theorem about LogRing, for any capacity and any log.                  *)
(***************************************************************************)
EXTENDS LogRing, TLAPS

USE CapacityAssumption

Slot == 0 .. Capacity - 1

(***************************************************************************)
(* Positions in the ring lie less than two rounds from its start.          *)
(***************************************************************************)
Wrap(x) == IF x < Capacity THEN x ELSE x - Capacity

LEMMA Wraps == \A x \in 0 .. 2 * Capacity - 1 : x % Capacity = Wrap(x) /\ Wrap(x) \in Slot
<1> SUFFICES ASSUME NEW x \in 0 .. 2 * Capacity - 1
             PROVE  x % Capacity = Wrap(x) /\ Wrap(x) \in Slot
  OBVIOUS
<1>1. CASE x < Capacity
  BY <1>1 DEF Wrap, Slot
<1>2. CASE x >= Capacity
  BY <1>2 DEF Wrap, Slot
<1> QED BY <1>1, <1>2

Held == IF Len(log) < Capacity THEN Len(log) ELSE Capacity

RingT == [buf : [Slot -> Subject \cup {Blank}], head : Slot, count : 0 .. Capacity]

(***************************************************************************)
(* The ring holds the last entries of the log, from its head on.           *)
(***************************************************************************)
Recent(buf, head, count, l) ==
  \A i \in 0 .. count - 1 : buf[Wrap(head + i)] = l[Len(l) - count + 1 + i]

RingInv ==
  /\ log \in Seq(Subject)
  /\ ring \in RingT
  /\ ring.count = Held
  /\ ring.count < Capacity => ring.head = 0
  /\ Recent(ring.buf, ring.head, ring.count, log)

LEMMA RingStarts == RingInit => RingInv
<1> SUFFICES ASSUME RingInit PROVE RingInv
  OBVIOUS
<1>1. /\ ring = [buf |-> [i \in Slot |-> Blank], head |-> 0, count |-> 0]
      /\ ring.buf = [i \in Slot |-> Blank] /\ ring.head = 0 /\ ring.count = 0
  BY DEF RingInit, NewRing, Slot
<1>2. log = <<>> /\ Len(log) = 0 /\ log \in Seq(Subject)
  BY DEF RingInit
<1>3. ring \in RingT
  BY <1>1 DEF Slot, RingT
<1>4. Recent(ring.buf, ring.head, ring.count, log)
  BY <1>1 DEF Recent
<1> QED BY <1>1, <1>2, <1>3, <1>4 DEF RingInv, Held

LEMMA Appended ==
  ASSUME NEW s \in Seq(Subject), NEW e \in Subject
  PROVE  /\ Append(s, e) \in Seq(Subject) /\ Len(Append(s, e)) = Len(s) + 1
         /\ Append(s, e)[Len(s) + 1] = e
         /\ \A j \in 1 .. Len(s) : Append(s, e)[j] = s[j]
OBVIOUS

(***************************************************************************)
(* A full ring overwrites its oldest entry, which the head leaves behind.  *)
(***************************************************************************)
LEMMA FullRing ==
  ASSUME NEW l \in Seq(Subject), NEW e \in Subject, NEW buf \in [Slot -> Subject \cup {Blank}],
         NEW head \in Slot, Len(l) >= Capacity, Recent(buf, head, Capacity, l)
  PROVE  Recent([buf EXCEPT ![head] = e], Wrap(head + 1), Capacity, Append(l, e))
<1> DEFINE m == Append(l, e)
<1>a. Len(m) = Len(l) + 1 /\ m[Len(l) + 1] = e /\ \A j \in 1 .. Len(l) : m[j] = l[j]
  BY Appended
<1> HIDE DEF m
<1> SUFFICES ASSUME NEW i \in 0 .. Capacity - 1
             PROVE  [buf EXCEPT ![head] = e][Wrap(Wrap(head + 1) + i)]
                      = m[Len(l) + 1 - Capacity + 1 + i]
  <2>1. Recent([buf EXCEPT ![head] = e], Wrap(head + 1), Capacity, m)
    BY <1>a DEF Recent
  <2> QED BY <2>1 DEF m
<1>1. CASE i = Capacity - 1
  <2>1. Wrap(Wrap(head + 1) + i) = head
    BY <1>1 DEF Wrap, Slot
  <2>2. Len(l) + 1 - Capacity + 1 + i = Len(l) + 1
    BY <1>1
  <2> QED BY <1>a, <2>1, <2>2
<1>2. CASE i < Capacity - 1
  <2>1. Wrap(Wrap(head + 1) + i) = Wrap(head + (i + 1)) /\ Wrap(head + (i + 1)) # head
    BY <1>2 DEF Wrap, Slot
  <2>2. buf[Wrap(head + (i + 1))] = l[Len(l) - Capacity + 1 + (i + 1)]
    BY <1>2 DEF Recent
  <2>3. /\ Len(l) - Capacity + 1 + (i + 1) = Len(l) + 1 - Capacity + 1 + i
        /\ Len(l) + 1 - Capacity + 1 + i \in 1 .. Len(l)
    BY <1>2
  <2>4. Wrap(head + (i + 1)) \in Slot
    BY <1>2 DEF Wrap, Slot
  <2> QED BY <1>a, <2>1, <2>2, <2>3, <2>4
<1> QED BY <1>1, <1>2

(***************************************************************************)
(* A ring that is not full begins at 0 and puts the entry behind the last. *)
(***************************************************************************)
LEMMA GrowingRing ==
  ASSUME NEW l \in Seq(Subject), NEW e \in Subject, NEW buf \in [Slot -> Subject \cup {Blank}],
         Len(l) < Capacity, Recent(buf, 0, Len(l), l)
  PROVE  Recent([buf EXCEPT ![Len(l)] = e], 0, Len(l) + 1, Append(l, e))
<1> DEFINE m == Append(l, e)
<1>a. Len(m) = Len(l) + 1 /\ m[Len(l) + 1] = e /\ \A j \in 1 .. Len(l) : m[j] = l[j]
  BY Appended
<1> HIDE DEF m
<1> SUFFICES ASSUME NEW i \in 0 .. Len(l)
             PROVE  [buf EXCEPT ![Len(l)] = e][i] = m[1 + i]
  <2>1. Recent([buf EXCEPT ![Len(l)] = e], 0, Len(l) + 1, m)
    BY <1>a DEF Recent, Wrap
  <2> QED BY <2>1 DEF m
<1>1. CASE i = Len(l)
  BY <1>1, <1>a DEF Slot
<1>2. CASE i < Len(l)
  <2>1. buf[i] = l[1 + i]
    BY <1>2 DEF Recent, Wrap
  <2> QED BY <1>2, <1>a, <2>1 DEF Slot
<1> QED BY <1>1, <1>2

LEMMA RingKeeps == RingInv /\ [RingNext]_ringVars => RingInv'
<1> SUFFICES ASSUME RingInv, [RingNext]_ringVars PROVE RingInv'
  OBVIOUS
<1>1. CASE UNCHANGED ringVars
  BY <1>1 DEF RingInv, Held, ringVars
<1>2. ASSUME NEW e \in Subject, Handle(e)
      PROVE  RingInv'
  <2>1. /\ log \in Seq(Subject) /\ Len(log) \in Nat
        /\ ring.buf \in [Slot -> Subject \cup {Blank}] /\ ring.head \in Slot
        /\ ring.count \in 0 .. Capacity
    BY DEF RingInv, RingT
  <2>2. ring.count = Held /\ (ring.count < Capacity => ring.head = 0)
    BY DEF RingInv
  <2>3. Recent(ring.buf, ring.head, ring.count, log)
    BY DEF RingInv
  <2>4. log' = Append(log, e) /\ ring' = Add(ring, e)
    BY <1>2 DEF Handle
  <2>5. log' \in Seq(Subject) /\ Len(log') = Len(log) + 1
    BY <2>1, <2>4, Appended
  <2>6. CASE ring.count = Capacity
    <3>1. ring' = [ring EXCEPT !.buf = [ring.buf EXCEPT ![ring.head] = e],
                               !.head = (ring.head + 1) % Capacity]
      BY <2>4, <2>6 DEF Add, RingInv, RingT
    <3>2. ring.head + 1 \in 0 .. 2 * Capacity - 1
      BY <2>1 DEF Slot
    <3>3. (ring.head + 1) % Capacity = Wrap(ring.head + 1) /\ Wrap(ring.head + 1) \in Slot
      BY <3>2, Wraps
    <3>4. /\ ring'.buf = [ring.buf EXCEPT ![ring.head] = e]
          /\ ring'.head = Wrap(ring.head + 1) /\ ring'.count = Capacity
      BY <2>6, <3>1, <3>3 DEF RingInv, RingT
    <3>5. [ring.buf EXCEPT ![ring.head] = e] \in [Slot -> Subject \cup {Blank}]
      BY <2>1
    <3>6. ring' \in RingT
      BY <3>1, <3>3, <3>5 DEF RingInv, RingT
    <3>7. Len(log) >= Capacity
      BY <2>1, <2>2, <2>6 DEF Held
    <3>8. Recent(ring'.buf, ring'.head, ring'.count, log')
      BY <2>1, <2>3, <2>4, <2>6, <3>4, <3>7, FullRing
    <3>9. Held' = Capacity
      BY <2>1, <2>5, <3>7 DEF Held
    <3> QED BY <2>5, <3>4, <3>6, <3>8, <3>9 DEF RingInv
  <2>7. CASE ring.count < Capacity
    <3>1. ring.head = 0 /\ ring.count = Len(log) /\ Len(log) < Capacity
      BY <2>1, <2>2, <2>7 DEF Held
    <3>2. ring.head + ring.count \in 0 .. 2 * Capacity - 1
            /\ Wrap(ring.head + ring.count) = Len(log)
      BY <2>1, <3>1 DEF Wrap
    <3>3. (ring.head + ring.count) % Capacity = Len(log)
      BY <3>2, Wraps
    <3>4. ring' = [ring EXCEPT !.buf = [ring.buf EXCEPT ![Len(log)] = e],
                               !.count = ring.count + 1]
      <4>1. ring.count # Capacity
        BY <2>1, <2>7
      <4>2. Add(ring, e) = [ring EXCEPT !.buf[(ring.head + ring.count) % Capacity] = e,
                                        !.count = @ + 1]
        BY <4>1 DEF Add
      <4> QED BY <2>4, <3>3, <4>2
    <3>5. /\ ring'.buf = [ring.buf EXCEPT ![Len(log)] = e]
          /\ ring'.head = 0 /\ ring'.count = Len(log) + 1
      BY <3>1, <3>4 DEF RingInv, RingT
    <3>6. [ring.buf EXCEPT ![Len(log)] = e] \in [Slot -> Subject \cup {Blank}]
      BY <2>1
    <3>7. ring.count + 1 \in 0 .. Capacity
      BY <2>1, <2>7
    <3>8. ring' \in RingT
      BY <3>4, <3>6, <3>7 DEF RingInv, RingT
    <3>9. Recent(ring'.buf, ring'.head, ring'.count, log')
      BY <2>1, <2>3, <2>4, <3>1, <3>5, GrowingRing
    <3>10. Held' = Len(log) + 1
      BY <2>1, <2>5, <3>1 DEF Held
    <3> QED BY <2>5, <3>5, <3>8, <3>9, <3>10 DEF RingInv
  <2> QED BY <2>1, <2>6, <2>7
<1> QED BY <1>1, <1>2 DEF RingNext

(***************************************************************************)
(* Tail reads the ring from behind: what it takes is the end of the log.   *)
(***************************************************************************)
Wanted(n) == IF n = 0 \/ n > Held THEN Held ELSE n

LEMMA TailReadsLog ==
  ASSUME RingInv, NEW n \in Nat
  PROVE  /\ Taken(ring, n) = Wanted(n)
         /\ [i \in 1 .. Wanted(n) |->
               ring.buf[(ring.head + ring.count - Wanted(n) + i - 1) % Capacity]]
              = LastOf(log, Wanted(n))
<1> DEFINE k == Wanted(n)
<1>1. /\ Held \in 0 .. Capacity /\ k \in 0 .. Held /\ Held <= Len(log)
      /\ log \in Seq(Subject) /\ Len(log) \in Nat /\ ring.count = Held
  BY DEF RingInv, Held, Wanted
<1>2. Taken(ring, n) = k
  BY <1>1 DEF Taken, Wanted
<1>3. ring.head \in Slot
  BY DEF RingInv, RingT
<1> HIDE DEF k
<1>4. LastOf(log, k) = [i \in 1 .. k |-> log[Len(log) - k + i]]
  BY <1>1 DEF LastOf
<1>5. ASSUME NEW i \in 1 .. k
      PROVE  ring.buf[(ring.head + ring.count - k + i - 1) % Capacity]
               = log[Len(log) - k + i]
  <2> DEFINE j == ring.count - k + i - 1
  <2>1. j \in 0 .. ring.count - 1 /\ ring.count <= Capacity
    BY <1>1
  <2>2. /\ ring.head + ring.count - k + i - 1 = ring.head + j
        /\ Len(log) - ring.count + 1 + j = Len(log) - k + i
    BY <1>1, <1>3 DEF Slot
  <2> HIDE DEF j
  <2>3. ring.buf[Wrap(ring.head + j)] = log[Len(log) - ring.count + 1 + j]
    BY <2>1 DEF RingInv, Recent
  <2>4. ring.head + j \in 0 .. 2 * Capacity - 1
    BY <1>1, <1>3, <2>1 DEF Slot
  <2>5. (ring.head + j) % Capacity = Wrap(ring.head + j)
    BY <2>4, Wraps
  <2> QED BY <2>2, <2>3, <2>5
<1>6. [i \in 1 .. k |-> ring.buf[(ring.head + ring.count - k + i - 1) % Capacity]]
        = LastOf(log, k)
  BY <1>4, <1>5
<1> QED BY <1>2, <1>6 DEF k

(***************************************************************************)
(* Whatever was logged, before, at and after the ring wraps, Tail is what  *)
(* the end of the log says of the task (Ring.Add, Ring.Tail).              *)
(***************************************************************************)
THEOREM TailIsTheEnd == RingSpec => []TailIsRecent
<1>1. RingInv => TailIsRecent
  <2> SUFFICES ASSUME RingInv, NEW n \in 0 .. Capacity + 1, NEW task \in Subject \cup {Blank}
               PROVE  Tail_(ring, n, task)
                        = SelectSeq(LastOf(log, Wanted(n)),
                                    LAMBDA e : task = Blank \/ e = task)
    BY DEF TailIsRecent, Wanted, Held
  <2>1. n \in Nat
    OBVIOUS
  <2>2. /\ Taken(ring, n) = Wanted(n)
        /\ [i \in 1 .. Wanted(n) |->
              ring.buf[(ring.head + ring.count - Wanted(n) + i - 1) % Capacity]]
             = LastOf(log, Wanted(n))
    BY <2>1, TailReadsLog
  <2> QED BY <2>2 DEF Tail_
<1> QED BY <1>1, RingStarts, RingKeeps, PTL DEF RingSpec
=============================================================================
