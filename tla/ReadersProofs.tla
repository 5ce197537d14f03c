--------------------------- MODULE ReadersProofs ---------------------------
(***************************************************************************)
(* Theorems about Readers, for any readers, files, versions and bounds.    *)
(***************************************************************************)
EXTENDS Readers, FiniteSetTheorems, TLAPS

USE LimiterAssumption, ReaderAssumption, VersionAssumption

-----------------------------------------------------------------------------
(* Types, and the records a step gives a reader.                           *)

Types ==
  /\ stage \in [Version -> {"absent", "assembling", "switched", "whole", "removing",
                          "left", "gone"}]
  /\ there \in [Version -> SUBSET Entry] /\ current \in Version \cup {0}
  /\ sem \in Int /\ queue \in Seq(Request) /\ waiting \in Int
  /\ rd \in [Reader -> ReaderT] /\ stalled \in SUBSET Request
  /\ raced \in BOOLEAN

PC == {"off", "look", "full", "try", "inc", "incstore", "send", "blocked", "dec",
       "decstore", "resolve", "list", "open", "mark", "sent", "done"}

Jobs == {"download", "archive", "export", "restore", "files"}

Unread == [p \in Path |-> 0]

Lists == SUBSET (Entry \cup Version)

At(c, pc)   == [c EXCEPT !.pc = pc]
Finished    == [Off EXCEPT !.pc = "done"]
Reg(c, n, pc) == [c EXCEPT !.pc = pc, !.reg = n]

Resolved(c, k, n)  == [c EXCEPT !.pc = "list", !.kind = k, !.dir = n]
Listed(c, m, s, b) == [c EXCEPT !.list = m, !.pc = "open", !.sub = s, !.frail = b]
Kept(c, m, g)      == [c EXCEPT !.list = m, !.got = g]
Ended(c, b)        == [c EXCEPT !.pc = "sent", !.frail = b]
Names(c, m, b)     == [c EXCEPT !.list = m, !.pc = "mark", !.kind = "history", !.frail = b]
Marked(c, n)       == [c EXCEPT !.dir = n, !.pc = "sent"]

LEMMA OffFields ==
  /\ Off \in ReaderT /\ Finished \in ReaderT
  /\ Off.pc = "off" /\ Finished.pc = "done"
  /\ Off.dir = 0 /\ Off.list = {} /\ Off.got = Unread
  /\ Finished.dir = 0 /\ Finished.list = {} /\ Finished.got = Unread
<1>1. Off \in ReaderT /\ Off.pc = "off" /\ Off.dir = 0 /\ Off.list = {} /\ Off.got = Unread
  BY DEF Off, ReaderT, Unread
<1>2. \A c \in ReaderT : /\ [c EXCEPT !.pc = "done"] \in ReaderT
                        /\ [c EXCEPT !.pc = "done"].pc = "done"
                        /\ [c EXCEPT !.pc = "done"].dir = c.dir
                        /\ [c EXCEPT !.pc = "done"].list = c.list
                        /\ [c EXCEPT !.pc = "done"].got = c.got
  BY DEF ReaderT
<1> QED BY <1>1, <1>2 DEF Finished

LEMMA AtFields ==
  ASSUME NEW c \in ReaderT, NEW pc \in PC
  PROVE  /\ At(c, pc) \in ReaderT /\ At(c, pc).pc = pc
         /\ At(c, pc).kind = c.kind /\ At(c, pc).dir = c.dir /\ At(c, pc).list = c.list
         /\ At(c, pc).got = c.got /\ At(c, pc).reg = c.reg
BY DEF At, ReaderT, PC

LEMMA RegFields ==
  ASSUME NEW c \in ReaderT, NEW pc \in PC, NEW n \in Int
  PROVE  /\ Reg(c, n, pc) \in ReaderT /\ Reg(c, n, pc).pc = pc /\ Reg(c, n, pc).reg = n
         /\ Reg(c, n, pc).kind = c.kind /\ Reg(c, n, pc).dir = c.dir
         /\ Reg(c, n, pc).list = c.list /\ Reg(c, n, pc).got = c.got
BY DEF Reg, ReaderT, PC

LEMMA ResolvedFields ==
  ASSUME NEW c \in ReaderT, NEW n \in Version \cup {0}, NEW k \in Jobs
  PROVE  /\ Resolved(c, k, n) \in ReaderT /\ Resolved(c, k, n).pc = "list"
         /\ Resolved(c, k, n).kind = k /\ Resolved(c, k, n).dir = n
         /\ Resolved(c, k, n).list = c.list /\ Resolved(c, k, n).got = c.got
BY DEF Resolved, ReaderT, Jobs

LEMMA ListedFields ==
  ASSUME NEW c \in ReaderT, NEW m \in Lists, NEW s \in SUBSET Folder, NEW b \in BOOLEAN
  PROVE  /\ Listed(c, m, s, b) \in ReaderT /\ Listed(c, m, s, b).pc = "open"
         /\ Listed(c, m, s, b).kind = c.kind /\ Listed(c, m, s, b).dir = c.dir
         /\ Listed(c, m, s, b).sub = s /\ Listed(c, m, s, b).list = m
         /\ Listed(c, m, s, b).got = c.got /\ Listed(c, m, s, b).frail = b
         /\ Listed(c, m, s, b).moved = c.moved
BY DEF Listed, ReaderT, Lists

LEMMA KeptFields ==
  ASSUME NEW c \in ReaderT, NEW m \in Lists, NEW g \in [Path -> Version \cup {0}]
  PROVE  /\ Kept(c, m, g) \in ReaderT /\ Kept(c, m, g).pc = c.pc
         /\ Kept(c, m, g).kind = c.kind /\ Kept(c, m, g).dir = c.dir
         /\ Kept(c, m, g).sub = c.sub /\ Kept(c, m, g).list = m /\ Kept(c, m, g).got = g
         /\ Kept(c, m, g).frail = c.frail /\ Kept(c, m, g).moved = c.moved
BY DEF Kept, ReaderT, Lists

LEMMA EndedFields ==
  ASSUME NEW c \in ReaderT, NEW b \in BOOLEAN
  PROVE  /\ Ended(c, b) \in ReaderT /\ Ended(c, b).pc = "sent"
         /\ Ended(c, b).kind = c.kind /\ Ended(c, b).dir = c.dir
         /\ Ended(c, b).sub = c.sub /\ Ended(c, b).list = c.list /\ Ended(c, b).got = c.got
         /\ Ended(c, b).frail = b /\ Ended(c, b).moved = c.moved
BY DEF Ended, ReaderT

LEMMA NamesFields ==
  ASSUME NEW c \in ReaderT, NEW m \in Lists, NEW b \in BOOLEAN
  PROVE  /\ Names(c, m, b) \in ReaderT /\ Names(c, m, b).pc = "mark"
         /\ Names(c, m, b).kind = "history" /\ Names(c, m, b).dir = c.dir
         /\ Names(c, m, b).list = m /\ Names(c, m, b).frail = b
BY DEF Names, ReaderT, Lists

LEMMA MarkedFields ==
  ASSUME NEW c \in ReaderT, NEW n \in Version \cup {0}
  PROVE  /\ Marked(c, n) \in ReaderT /\ Marked(c, n).pc = "sent"
         /\ Marked(c, n).kind = c.kind /\ Marked(c, n).dir = n
         /\ Marked(c, n).list = c.list /\ Marked(c, n).moved = c.moved
         /\ Marked(c, n).frail = c.frail
BY DEF Marked, ReaderT

LEMMA Replaced ==
  ASSUME Types, NEW r \in Reader, NEW c \in ReaderT, rd' = [rd EXCEPT ![r] = c]
  PROVE  /\ rd' \in [Reader -> ReaderT]
         /\ \A q \in Reader : rd'[q] = IF q = r THEN c ELSE rd[q]
BY DEF Types

-----------------------------------------------------------------------------
(* The tree of a version.                                                  *)

(***************************************************************************)
(* No two of them are one inside the other.                                *)
(***************************************************************************)
Apart(m) == \A x, y \in m : x \notin Above[y]

(***************************************************************************)
(* On the way to an entry, a directory it is in holds the next step.       *)
(***************************************************************************)
LEMMA NextStep ==
  ASSUME NEW e \in Entry, NEW dir, dir = {} \/ \E d \in Above[e] : dir = Into(d)
  PROVE  e \in In(dir) \/ \E f \in Above[e] : f \in In(dir)
<1>1. Above[e] \subseteq Folder /\ Folder \subseteq Entry
  BY TreeAssumption DEF Entry
<1>2. dir \in {{}} \cup {Into(d) : d \in Above[e]}
  OBVIOUS
<1>3. Above[e] = dir \/ \E f \in Above[e] : Above[f] = dir
  BY <1>2, TreeAssumption
<1> QED BY <1>1, <1>3 DEF In

LEMMA InsideApart ==
  ASSUME NEW dir
  PROVE  In(dir) \subseteq Entry /\ Apart(In(dir))
<1>1. \A x, y \in In(dir) : x \in Above[y] => x \in Above[x]
  BY DEF In
<1>2. \A x \in Entry : x \notin Above[x]
  BY TreeAssumption
<1> QED BY <1>1, <1>2 DEF Apart, In

(***************************************************************************)
(* What a directory holds takes its place in a list.                       *)
(***************************************************************************)
LEMMA EnteredApart ==
  ASSUME NEW m \in SUBSET Entry, Apart(m), NEW e \in m, NEW x \in SUBSET In(Into(e))
  PROVE  (m \ {e}) \cup x \in SUBSET Entry /\ Apart((m \ {e}) \cup x)
<1>1. In(Into(e)) \subseteq Entry /\ Apart(In(Into(e)))
  BY InsideApart
<1>2. \A y \in In(Into(e)) : Above[y] = Above[e] \cup {e}
  BY DEF In, Into
<1>3. \A y \in Entry : \A d \in Above[y] : Above[d] \subseteq Above[y]
  BY TreeAssumption
<1>4. ASSUME NEW y \in m \ {e}, NEW z \in x PROVE y \notin Above[z] /\ z \notin Above[y]
  <2>1. y \notin Above[e] /\ y # e /\ e \notin Above[y]
    BY DEF Apart
  <2>2. y \notin Above[z]
    BY <1>2, <2>1
  <2>3. z \notin Above[y]
    BY <1>2, <1>3, <2>1
  <2> QED BY <2>2, <2>3
<1>5. Apart(x) /\ Apart(m \ {e})
  BY <1>1 DEF Apart
<1> QED BY <1>1, <1>4, <1>5 DEF Apart
-----------------------------------------------------------------------------
(* What a reader holds.                                                    *)

Complete == {"switched", "whole"}
Later    == Complete \cup {"removing", "left", "gone"}

(***************************************************************************)
(* A version is all there from the switch until it is deleted, and current *)
(* names one that was begun.                                               *)
(***************************************************************************)
DataInv ==
  /\ \A v \in Version : stage[v] \in Complete => there[v] = Entry
  /\ current # 0 => stage[current] # "absent"

Fresh(c) == c.dir = 0 /\ c.list = {} /\ c.got = Unread

Spot(c, cur) == IF c.dir = 0 THEN cur ELSE c.dir

Wanted(c) == IF c.kind = "files" THEN Path \cap In(c.sub) ELSE Path

Covered(c, p) ==
  \/ c.got[p] # 0 \/ p \in c.list
  \/ c.kind # "files" /\ \E d \in Above[p] : d \in c.list

(***************************************************************************)
(* A reader of a tree that nothing moved has all files from one version,   *)
(* and as long as that is all there it has or will come to every file; an  *)
(* export skips none of those at the top.                                  *)
(***************************************************************************)
SoundWalk(c, st, cur) ==
  c.kind \in {"archive", "files", "export"} =>
    /\ c.pc \in {"list", "open"} =>
         /\ Spot(c, cur) \in Version /\ st[Spot(c, cur)] # "absent"
         /\ c.kind # "export" => c.dir # 0
    /\ c.pc = "open" =>
         /\ c.list \subseteq Entry /\ Apart(c.list)
         /\ ~c.moved => \A p \in Path : c.got[p] \in {0, Spot(c, cur)}
         /\ ~c.moved /\ ~c.frail =>
              /\ st[Spot(c, cur)] \in Later
              /\ st[Spot(c, cur)] \in Complete => \A p \in Wanted(c) : Covered(c, p)
         /\ c.kind = "export" /\ ~c.frail =>
              \A p \in Path \cap In({}) : p \in c.list \/ c.got[p] # 0
    /\ c.pc = "sent" =>
         /\ ~c.moved => \E v \in Version : \A p \in Path : c.got[p] \in {0, v}
         /\ ~c.moved /\ ~c.frail => \A p \in Wanted(c) : c.got[p] # 0
         /\ c.kind = "export" /\ ~c.frail => \A p \in Path \cap In({}) : c.got[p] # 0

SoundHistory(c, cur) ==
  /\ c.pc = "mark" => /\ c.kind = "history" /\ c.dir = 0
                      /\ ~c.moved /\ ~c.frail => cur \in c.list \cup {0}
  /\ c.pc = "sent" /\ c.kind = "history" /\ ~c.moved /\ ~c.frail =>
       c.dir \in c.list \cup {0}

Sound(c, st, cur) ==
  /\ c.pc \notin {"list", "open", "mark", "sent"} => Fresh(c)
  /\ c.pc = "list" => c.list = {} /\ c.got = Unread
  /\ c.pc \in {"list", "open"} => c.kind \in Jobs
  /\ c.pc = "open" /\ c.kind \in {"download", "restore"} => c.list = {}
  /\ c.pc = "sent" => c.kind \in {"archive", "export", "files", "history"}
  /\ SoundWalk(c, st, cur) /\ SoundHistory(c, cur)

AllSound == \A r \in Reader : Sound(rd[r], stage, current)

LEMMA FreshIsSound ==
  ASSUME NEW c \in ReaderT, c.pc \notin {"list", "open", "mark", "sent"}, Fresh(c)
  PROVE  \A st, cur : Sound(c, st, cur)
BY DEF Sound, SoundWalk, SoundHistory

LEMMA SoundGives ==
  ASSUME Types, NEW r \in Reader, Sound(rd[r], stage, current), rd[r].pc = "sent"
  PROVE  /\ rd[r].kind # "history" /\ ~rd[r].moved =>
              OneOf(r) /\ (rd[r].frail \/ Got(r, Asked(r)))
         /\ rd[r].kind = "export" /\ ~rd[r].frail => Got(r, Path \cap In({}))
         /\ rd[r].kind = "history" /\ ~rd[r].moved /\ ~rd[r].frail =>
              rd[r].dir \in rd[r].list \cup {0}
<1>1. CASE rd[r].kind = "history"
  BY <1>1 DEF Sound, SoundHistory
<1>2. CASE rd[r].kind # "history"
  <2>1. SoundWalk(rd[r], stage, current) /\ rd[r].kind \in {"archive", "files", "export"}
    BY <1>2 DEF Sound
  <2> QED BY <1>2, <2>1 DEF SoundWalk, Wanted, OneOf, Got, Asked
<1> QED BY <1>1, <1>2

LEMMA SoundInit == Init => Types /\ DataInv /\ AllSound
<1> SUFFICES ASSUME Init PROVE Types /\ DataInv /\ AllSound
  OBVIOUS
<1>1. Types
  <2>1. rd \in [Reader -> ReaderT]
    BY OffFields DEF Init
  <2>2. queue \in Seq(Request) /\ sem \in Int /\ waiting \in Int
    BY DEF Init
  <2>4. raced \in BOOLEAN
    BY DEF Init
  <2>3. /\ stage \in [Version -> {"absent", "assembling", "switched", "whole", "removing",
                                "left", "gone"}]
        /\ there \in [Version -> SUBSET Entry] /\ current = 0 /\ stalled = {}
    BY DEF Init
  <2> QED BY <2>1, <2>2, <2>3, <2>4 DEF Types
<1>3. DataInv
  BY DEF Init, DataInv, Complete
<1>2. Sound(Off, stage, current)
  BY OffFields, FreshIsSound DEF Fresh
<1> QED BY <1>1, <1>2, <1>3 DEF Init, AllSound
-----------------------------------------------------------------------------
(* The kernel's steps.                                                     *)

(***************************************************************************)
(* Beside a beginning and a switch, a version never becomes complete, nor  *)
(* absent, and does not go back to its assembly.                           *)
(***************************************************************************)
Ages ==
  \A v \in Version :
    /\ stage'[v] \in Complete => stage[v] \in Complete
    /\ stage[v] # "absent" => stage'[v] # "absent"
    /\ stage[v] \in Later => stage'[v] \in Later

LEMMA SoundAges ==
  ASSUME Types, NEW c \in ReaderT, Sound(c, stage, current), Ages, current' = current
  PROVE  Sound(c, stage', current')
<1>1. SoundWalk(c, stage', current')
  BY DEF Sound, SoundWalk, Ages
<1>2. SoundHistory(c, current')
  BY DEF Sound, SoundHistory
<1> QED BY <1>1, <1>2 DEF Sound

(***************************************************************************)
(* A step of the kernel that takes no reader's place from it.              *)
(***************************************************************************)
KernelAside ==
  \E v \in Version :
    \/ Commit(v) \/ RollBack(v) \/ Prune(v) \/ Rmdir(v) \/ Leave(v)
    \/ \E e \in Entry : Make(v, e) \/ Unlink(v, e)

LEMMA KernelAges ==
  ASSUME Types, DataInv, KernelAside
  PROVE  /\ Types' /\ DataInv' /\ Ages
         /\ current' = current /\ rd' = rd /\ UNCHANGED limiter
<1>1. ASSUME NEW v \in Version, Commit(v) \/ RollBack(v) \/ Prune(v) \/ Rmdir(v) \/ Leave(v)
      PROVE  Types' /\ DataInv' /\ Ages
  <2>1. PICK s \in {"whole", "removing", "gone", "left"} :
          /\ stage' = [stage EXCEPT ![v] = s]
          /\ s = "whole" => stage[v] = "switched"
    BY <1>1 DEF Commit, RollBack, Prune, Rmdir, Leave
  <2>2. UNCHANGED <<there, current, limiter, rd, stalled>>
    BY <1>1 DEF Commit, RollBack, Prune, Rmdir, Leave
  <2>3. stage'[v] = s /\ \A u \in Version \ {v} : stage'[u] = stage[u]
    BY <2>1 DEF Types
  <2>4. Types'
    BY <2>1, <2>2 DEF Types, limiter
  <2>5. Ages
    BY <2>1, <2>3 DEF Ages, Complete, Later
  <2>6. DataInv'
    BY <2>1, <2>2, <2>3 DEF DataInv, Complete
  <2> QED BY <2>4, <2>5, <2>6
<1>2. ASSUME NEW v \in Version, NEW e \in Entry, Make(v, e) \/ Unlink(v, e)
      PROVE  Types' /\ DataInv' /\ Ages
  <2>1. UNCHANGED <<stage, current, limiter, rd, stalled>> /\ stage[v] \notin Complete
    BY <1>2 DEF Make, Unlink, Complete
  <2>2. there' \in [Version -> SUBSET Entry] /\ \A u \in Version \ {v} : there'[u] = there[u]
    BY <1>2 DEF Make, Unlink, Types
  <2>3. Types' /\ Ages
    BY <2>1, <2>2 DEF Types, Ages, limiter
  <2>4. DataInv'
    BY <2>1, <2>2 DEF DataInv
  <2> QED BY <2>3, <2>4
<1>3. current' = current /\ rd' = rd /\ UNCHANGED limiter
  BY DEF KernelAside, Commit, RollBack, Prune, Rmdir, Leave, Make, Unlink
<1> QED BY <1>1, <1>2, <1>3 DEF KernelAside

(***************************************************************************)
(* The readers of M are marked.                                            *)
(***************************************************************************)
Marks(M) ==
  rd' = [r \in Reader |-> IF r \in M THEN [rd[r] EXCEPT !.moved = TRUE] ELSE rd[r]]

LEMMA MarksFields ==
  ASSUME Types, NEW M, Marks(M)
  PROVE  /\ rd' \in [Reader -> ReaderT]
         /\ \A r \in Reader :
              /\ rd'[r].pc = rd[r].pc /\ rd'[r].kind = rd[r].kind /\ rd'[r].dir = rd[r].dir
              /\ rd'[r].sub = rd[r].sub /\ rd'[r].list = rd[r].list
              /\ rd'[r].got = rd[r].got /\ rd'[r].reg = rd[r].reg
              /\ rd'[r].frail = rd[r].frail /\ (rd'[r].moved <=> rd[r].moved \/ r \in M)
<1>1. \A x \in ReaderT : LET y == [x EXCEPT !.moved = TRUE]
                         IN  /\ y \in ReaderT /\ y.pc = x.pc /\ y.kind = x.kind
                             /\ y.dir = x.dir /\ y.sub = x.sub /\ y.list = x.list
                             /\ y.got = x.got /\ y.reg = x.reg /\ y.frail = x.frail
                             /\ y.moved = TRUE
  BY DEF ReaderT
<1>2. \A r \in Reader : rd[r] \in ReaderT
  BY DEF Types
<1>3. rd' \in [Reader -> ReaderT]
  BY <1>1, <1>2 DEF Marks
<1>4. ASSUME NEW r \in Reader
      PROVE  /\ rd'[r].pc = rd[r].pc /\ rd'[r].kind = rd[r].kind /\ rd'[r].dir = rd[r].dir
             /\ rd'[r].sub = rd[r].sub /\ rd'[r].list = rd[r].list
             /\ rd'[r].got = rd[r].got /\ rd'[r].reg = rd[r].reg
             /\ rd'[r].frail = rd[r].frail /\ (rd'[r].moved <=> rd[r].moved \/ r \in M)
  <2>1. CASE r \in M
    <3>1. rd'[r] = [rd[r] EXCEPT !.moved = TRUE]
      BY <2>1 DEF Marks
    <3> QED BY <1>1, <1>2, <2>1, <3>1
  <2>2. CASE r \notin M
    BY <2>2 DEF Marks
  <2> QED BY <2>1, <2>2
<1> QED BY <1>3, <1>4

(***************************************************************************)
(* Version v is begun, or begun again, or is now what current names: its   *)
(* readers, or those of the link, are the ones marked.                     *)
(***************************************************************************)
Reading3 == {"list", "open", "mark"}

InPlace(v) == {r \in Reader : rd[r].pc \in Reading3 /\ Place(r) = v}

OnLink ==
  {r \in Reader : rd[r].pc \in Reading3 /\ rd[r].dir = 0 /\ rd[r].kind \in {"export", "history"}}

LEMMA MarksSound ==
  ASSUME Types, DataInv, AllSound, NEW v \in Version, NEW s, NEW M,
         \/ Begin(v) /\ s = "assembling" /\ M = InPlace(v)
         \/ Switch(v) /\ s = "switched" /\ M = OnLink
  PROVE  Types' /\ DataInv' /\ AllSound' /\ Marks(M) /\ UNCHANGED limiter
<1>1. Marks(M)
  BY DEF Begin, Switch, Move, Marks, InPlace, OnLink, Reading3
<1>2. /\ stage' = [stage EXCEPT ![v] = s] /\ there' = there /\ UNCHANGED <<limiter, stalled>>
      /\ s = "assembling" => current' = current /\ stage[v] \in {"absent", "gone"}
      /\ s = "switched" => current' = v /\ stage[v] = "assembling" /\ there[v] = Entry
      /\ s \in {"assembling", "switched"}
  BY DEF Begin, Switch
<1>3. stage'[v] = s /\ \A u \in Version : u # v => stage'[u] = stage[u]
  BY <1>2 DEF Types
<1>4. Types'
  BY <1>1, <1>2, MarksFields DEF Types, limiter
<1>5. DataInv'
  BY <1>2, <1>3 DEF DataInv, Complete, Types
<1>6. ASSUME NEW r \in Reader PROVE Sound(rd'[r], stage', current')
  <2>1. PICK c \in ReaderT : c = rd[r] /\ Sound(c, stage, current)
    BY DEF Types, AllSound
  <2>2. PICK d \in ReaderT :
          /\ d = rd'[r]
          /\ d.pc = c.pc /\ d.kind = c.kind /\ d.dir = c.dir /\ d.sub = c.sub
          /\ d.list = c.list /\ d.got = c.got /\ d.frail = c.frail
          /\ d.moved <=> c.moved \/ r \in M
    BY <1>1, <2>1, MarksFields
  <2>3. Wanted(d) = Wanted(c) /\ \A p : Covered(d, p) <=> Covered(c, p)
    BY <2>2 DEF Wanted, Covered
  <2>4. CASE s = "assembling"
    <3>1. r \in M <=> c.pc \in Reading3 /\ Spot(c, current) = v
      BY <2>1, <2>4 DEF InPlace, Place, Spot
    <3>2. Spot(d, current') = Spot(c, current)
      BY <1>2, <2>2, <2>4 DEF Spot
    <3>3. SoundWalk(d, stage', current')
      BY <1>3, <2>1, <2>2, <2>3, <2>4, <3>1, <3>2 DEF Sound, SoundWalk, Reading3
    <3>4. SoundHistory(d, current')
      BY <1>2, <2>1, <2>2, <2>4 DEF Sound, SoundHistory
    <3> QED BY <2>1, <2>2, <3>3, <3>4 DEF Sound, Fresh
  <2>5. CASE s = "switched"
    <3>1. r \in M <=> c.pc \in Reading3 /\ c.dir = 0 /\ c.kind \in {"export", "history"}
      BY <2>1, <2>5 DEF OnLink
    <3>2. SoundWalk(d, stage', current')
      <4> SUFFICES ASSUME d.kind \in {"archive", "files", "export"}
                   PROVE  SoundWalk(d, stage', current')
        BY DEF SoundWalk
      <4>1. CASE c.pc \in {"list", "open"} /\ c.dir = 0
        <5>1. c.kind = "export" /\ d.moved /\ Spot(d, current') = v
          BY <1>2, <2>1, <2>2, <2>5, <3>1, <4>1 DEF Sound, SoundWalk, Reading3, Spot
        <5> QED BY <1>3, <2>1, <2>2, <2>5, <4>1, <5>1 DEF Sound, SoundWalk
      <4>2. CASE c.pc \in {"list", "open"} /\ c.dir # 0
        <5>1. Spot(d, current') = Spot(c, current) /\ (d.moved <=> c.moved)
          BY <2>2, <3>1, <4>2 DEF Spot
        <5>2. Spot(c, current) = v => stage[Spot(c, current)] \notin Later
          BY <1>2, <2>5 DEF Later, Complete
        <5> QED BY <1>3, <2>1, <2>2, <2>3, <2>5, <4>2, <5>1, <5>2 DEF Sound, SoundWalk
      <4>3. CASE c.pc \notin {"list", "open"}
        <5>1. r \notin M \/ c.pc = "mark"
          BY <3>1, <4>3 DEF Reading3
        <5> QED BY <2>1, <2>2, <2>3, <4>3, <5>1 DEF Sound, SoundWalk
      <4> QED BY <4>1, <4>2, <4>3
    <3>3. SoundHistory(d, current')
      BY <1>2, <2>1, <2>2, <3>1 DEF Sound, SoundHistory, Reading3
    <3> QED BY <2>1, <2>2, <3>2, <3>3 DEF Sound, Fresh
  <2> QED BY <1>2, <2>4, <2>5
<1> QED BY <1>1, <1>2, <1>4, <1>5, <1>6 DEF AllSound
-----------------------------------------------------------------------------
(* The readers' steps.                                                     *)

ReadPc == {"resolve", "list", "open", "mark", "sent", "done"}

(***************************************************************************)
(* Reader r's record becomes c, which is sound.                            *)
(***************************************************************************)
Becomes(r, c) ==
  /\ rd' = [rd EXCEPT ![r] = c] /\ Sound(c, stage, current)
  /\ c.pc \in ReadPc /\ (c.pc = "mark" => r \in Tool)

LEMMA FinishedSound == Sound(Finished, stage, current)
BY OffFields, FreshIsSound DEF Fresh

LEMMA ResolveSound ==
  ASSUME Types, NEW r \in Reader, Sound(rd[r], stage, current), NEW v \in Version \cup {0},
         NEW k \in {"download", "archive", "export", "restore", "files"}, Resolve(r, k, v)
  PROVE  \E c \in ReaderT : Becomes(r, c)
<1>1. CASE Exists(IF v = 0 THEN current ELSE v)
  <2>2. PICK d \in Version \cup {0} : d = Pin(k, v)
    BY DEF Pin, Types
  <2> DEFINE c == Resolved(rd[r], k, d)
  <2>1. rd[r] \in ReaderT
    BY DEF Types
  <2>3. /\ c \in ReaderT /\ c.pc = "list" /\ c.kind = k /\ c.dir = d
        /\ c.list = rd[r].list /\ c.got = rd[r].got
    <3>1. /\ Resolved(rd[r], k, d) \in ReaderT /\ Resolved(rd[r], k, d).pc = "list"
          /\ Resolved(rd[r], k, d).kind = k /\ Resolved(rd[r], k, d).dir = d
          /\ Resolved(rd[r], k, d).list = rd[r].list /\ Resolved(rd[r], k, d).got = rd[r].got
      <4> HIDE DEF c
      <4>1. k \in Jobs
        BY DEF Jobs
      <4> QED BY <2>1, <4>1, ResolvedFields
    <3> QED BY <3>1
  <2>4. rd' = [rd EXCEPT ![r] = c]
    BY <1>1, <2>2 DEF Resolve, Resolved
  <2>5. Fresh(rd[r])
    BY DEF Resolve, Sound
  <2>6. /\ Spot(c, current) \in Version /\ stage[Spot(c, current)] # "absent"
        /\ k \in {"archive", "files"} => d # 0
    BY <1>1, <2>2, <2>3 DEF Pin, Exists, Types, Spot
  <2> HIDE DEF c
  <2>7. k \in Jobs
    BY DEF Jobs
  <2>8. Sound(c, stage, current)
    BY <2>3, <2>5, <2>6, <2>7 DEF Fresh, Sound, SoundWalk, SoundHistory
  <2> QED BY <2>3, <2>4, <2>8 DEF Becomes, ReadPc
<1>2. CASE ~Exists(IF v = 0 THEN current ELSE v)
  BY <1>2, FinishedSound, OffFields DEF Resolve, Done, Finished, Becomes, ReadPc
<1> QED BY <1>1, <1>2

LEMMA ListNamesSound ==
  ASSUME Types, NEW r \in Reader, Sound(rd[r], stage, current), ListNames(r), r \in Tool
  PROVE  \E c \in ReaderT : Becomes(r, c)
<1>1. PICK l \in Lists, b \in BOOLEAN :
        l = {v \in Version : Exists(v)} /\ b = (current # 0 /\ ~Exists(current))
  BY DEF Lists
<1>2. rd[r] \in ReaderT /\ rd[r].pc = "resolve"
  BY DEF Types, ListNames
<1>3. PICK c \in ReaderT : c = Names(rd[r], l, b)
  BY <1>2, NamesFields
<1>4. /\ c.pc = "mark" /\ c.kind = "history" /\ c.dir = rd[r].dir /\ c.list = l
      /\ c.frail = b
  BY <1>2, <1>3, NamesFields
<1>5. rd' = [rd EXCEPT ![r] = c]
  BY <1>1, <1>3 DEF ListNames, Names
<1>6. Fresh(rd[r])
  BY <1>2 DEF Sound
<1>7. ~b => current \in l \cup {0}
  BY <1>1 DEF Types
<1>8. Sound(c, stage, current)
  BY <1>4, <1>6, <1>7 DEF Fresh, Sound, SoundWalk, SoundHistory
<1> QED BY <1>4, <1>5, <1>8 DEF Becomes, ReadPc

LEMMA MarkSound ==
  ASSUME Types, NEW r \in Reader, Sound(rd[r], stage, current), Mark(r)
  PROVE  \E c \in ReaderT : Becomes(r, c)
<1>1. rd[r] \in ReaderT /\ current \in Version \cup {0}
  BY DEF Types
<1>2. PICK c \in ReaderT : c = Marked(rd[r], current)
  BY <1>1, MarkedFields
<1>3. /\ c.pc = "sent" /\ c.kind = rd[r].kind /\ c.dir = current
      /\ c.list = rd[r].list /\ c.moved = rd[r].moved /\ c.frail = rd[r].frail
  BY <1>1, <1>2, MarkedFields
<1>4. rd' = [rd EXCEPT ![r] = c]
  BY <1>2 DEF Mark, Marked
<1>5. /\ rd[r].kind = "history"
      /\ ~rd[r].moved /\ ~rd[r].frail => current \in rd[r].list \cup {0}
  BY DEF Mark, Sound, SoundHistory
<1>6. Sound(c, stage, current)
  BY <1>3, <1>5 DEF Sound, SoundWalk, SoundHistory
<1> QED BY <1>3, <1>4, <1>6 DEF Becomes, ReadPc

LEMMA OpenOneSound ==
  ASSUME Types, NEW r \in Reader, Sound(rd[r], stage, current), NEW p \in Path, OpenOne(r, p)
  PROVE  \E c \in ReaderT : Becomes(r, c)
<1>1. CASE Goto(r, "open")
  <2> DEFINE c == At(rd[r], "open")
  <2>1. /\ c \in ReaderT /\ c.pc = "open" /\ c.kind = rd[r].kind
        /\ c.list = rd[r].list
    BY AtFields DEF Types, PC
  <2>2. rd' = [rd EXCEPT ![r] = c]
    BY <1>1 DEF Goto, At
  <2>3. rd[r].kind \in {"download", "restore"} /\ rd[r].list = {} /\ rd[r].kind \in Jobs
    BY DEF OpenOne, Sound
  <2> HIDE DEF c
  <2>4. Sound(c, stage, current)
    BY <2>1, <2>3 DEF Sound, SoundWalk, SoundHistory
  <2> QED BY <2>1, <2>2, <2>4 DEF Becomes, ReadPc
<1>2. CASE Done(r)
  BY <1>2, FinishedSound, OffFields DEF Done, Finished, Becomes, ReadPc
<1> QED BY <1>1, <1>2 DEF OpenOne

(***************************************************************************)
(* What is listed of a version that is all there leads to all of it.       *)
(***************************************************************************)
LEMMA ListSound ==
  ASSUME Types, DataInv, NEW r \in Reader, Sound(rd[r], stage, current),
         NEW dir \in SUBSET Folder, List(r, dir)
  PROVE  \E c \in ReaderT : Becomes(r, c)
<1>1. /\ rd[r] \in ReaderT /\ rd[r].pc = "list"
      /\ rd[r].kind \in {"archive", "export", "files"} /\ rd[r].kind \in Jobs
      /\ rd[r].kind # "files" => dir = {}
      /\ rd[r].list = {} /\ rd[r].got = Unread /\ SoundWalk(rd[r], stage, current)
  BY DEF List, Types, Sound
<1>2. PICK v \in Version : v = Place(r) /\ v = Spot(rd[r], current) /\ stage[v] # "absent"
  BY <1>1 DEF SoundWalk, Spot, Place
<1>3. CASE Exists(v) /\ dir \subseteq Here(v)
  <2>1. PICK m \in Lists, b \in BOOLEAN : m = there[v] \cap In(dir) /\ b = ~Full(v)
    BY <1>2 DEF Types, Lists
  <2>2. PICK c \in ReaderT : c = Listed(rd[r], m, dir, b)
    BY <1>1, ListedFields
  <2>3. /\ c.pc = "open" /\ c.kind = rd[r].kind /\ c.dir = rd[r].dir /\ c.sub = dir
        /\ c.list = m /\ c.got = Unread /\ c.frail = b /\ c.moved = rd[r].moved
    BY <1>1, <2>2, ListedFields
  <2>4. rd' = [rd EXCEPT ![r] = c]
    <3>1. rd' = [rd EXCEPT ![r].list = m, ![r].pc = "open", ![r].sub = dir, ![r].frail = b]
      BY <1>2, <1>3, <2>1 DEF List
    <3> QED BY <2>2, <3>1 DEF Listed
  <2>5. m \subseteq Entry /\ Apart(m)
    BY <2>1, InsideApart DEF Apart
  <2>6. ~b => stage[v] \in Complete /\ m = In(dir)
    <3>1. ~b => stage[v] \in Complete
      BY <2>1 DEF Full, Complete
    <3> QED BY <2>1, <3>1 DEF DataInv, In
  <2>7. ~b => \A p \in Wanted(c) : Covered(c, p)
    <3> SUFFICES ASSUME ~b, NEW p \in Wanted(c) PROVE Covered(c, p)
      OBVIOUS
    <3>0. c.list = In(dir)
      BY <2>3, <2>6
    <3>1. CASE c.kind = "files"
      <4>1. p \in c.list
        BY <2>3, <3>0, <3>1 DEF Wanted
      <4> QED BY <4>1 DEF Covered
    <3>2. CASE c.kind # "files"
      <4>1. dir = {} /\ p \in Entry
        BY <1>1, <2>3, <3>2 DEF Wanted, Entry
      <4>2. p \in In(dir) \/ \E d \in Above[p] : d \in In(dir)
        BY <4>1, NextStep
      <4> QED BY <3>0, <3>2, <4>2 DEF Covered
    <3> QED BY <3>1, <3>2
  <2>8. Spot(c, current) = v
    BY <1>2, <2>3 DEF Spot
  <2>9. \A p \in Path : c.got[p] = 0
    BY <2>3 DEF Unread
  <2>10. SoundWalk(c, stage, current)
    BY <1>1, <1>2, <2>3, <2>5, <2>6, <2>7, <2>8, <2>9 DEF SoundWalk, Later
  <2>11. Sound(c, stage, current)
    BY <1>1, <2>3, <2>10 DEF Sound, SoundHistory
  <2> QED BY <2>3, <2>4, <2>11 DEF Becomes, ReadPc
<1>4. CASE ~(Exists(v) /\ dir \subseteq Here(v)) /\ rd[r].kind = "archive"
  <2>1. PICK c \in ReaderT : c = Ended(rd[r], TRUE)
    BY <1>1, EndedFields
  <2>2. /\ c.pc = "sent" /\ c.kind = "archive" /\ c.got = Unread /\ c.frail = TRUE
    BY <1>1, <1>4, <2>1, EndedFields
  <2>3. rd' = [rd EXCEPT ![r] = c]
    BY <1>2, <1>4, <2>1 DEF List, Ended
  <2>4. \A p \in Path : c.got[p] \in {0, v}
    BY <2>2 DEF Unread
  <2>5. Sound(c, stage, current)
    BY <2>2, <2>4 DEF Sound, SoundWalk, SoundHistory
  <2> QED BY <2>2, <2>3, <2>5 DEF Becomes, ReadPc
<1>5. CASE ~(Exists(v) /\ dir \subseteq Here(v)) /\ rd[r].kind # "archive"
  <2>1. Done(r)
    BY <1>2, <1>5 DEF List
  <2> QED BY <2>1, FinishedSound, OffFields DEF Done, Finished, Becomes, ReadPc
<1> QED BY <1>3, <1>4, <1>5

(***************************************************************************)
(* An entry that is there is the version's, and a directory is exchanged   *)
(* for what it holds.                                                      *)
(***************************************************************************)
LEMMA KeepSound ==
  ASSUME Types, DataInv, NEW r \in Reader, Sound(rd[r], stage, current), rd[r].pc = "open",
         NEW e \in Entry, e \in rd[r].list, NEW v, v = Place(r), e \in Here(v), Keep(r, e, v)
  PROVE  \E c \in ReaderT : Becomes(r, c)
<1>1. /\ rd[r] \in ReaderT /\ rd[r].kind \in {"archive", "export", "files"}
      /\ rd[r].kind \in Jobs /\ SoundWalk(rd[r], stage, current)
  BY DEF Types, Sound, Jobs
<1>2. v \in Version /\ v # 0 /\ v = Spot(rd[r], current)
  BY <1>1 DEF SoundWalk, Spot, Place, Here
<1>3. /\ rd[r].list \subseteq Entry /\ Apart(rd[r].list)
      /\ Inside(r, e, v) \in SUBSET In(Into(e))
  BY <1>1 DEF SoundWalk, Inside
<1>4. PICK m \in SUBSET Entry : m = (rd[r].list \ {e}) \cup Inside(r, e, v) /\ Apart(m)
  BY <1>3, EnteredApart
<1>a. rd[r].got \in [Path -> Version \cup {0}] /\ m \in Lists
  BY <1>1, <1>4 DEF ReaderT, Lists
<1>5. PICK g \in [Path -> Version \cup {0}] :
        g = [p \in Path |-> IF p = e THEN v ELSE rd[r].got[p]]
  BY <1>2, <1>a
<1>6. PICK c \in ReaderT : c = Kept(rd[r], m, g)
  BY <1>1, <1>a, KeptFields
<1>7. /\ c.pc = "open" /\ c.kind = rd[r].kind /\ c.dir = rd[r].dir /\ c.sub = rd[r].sub
      /\ c.list = m /\ c.got = g /\ c.frail = rd[r].frail /\ c.moved = rd[r].moved
  BY <1>1, <1>a, <1>6, KeptFields
<1>8. rd' = [rd EXCEPT ![r] = c]
  BY <1>4, <1>5, <1>6 DEF Keep, Kept, Types
<1>9. Spot(c, current) = v
  BY <1>2, <1>7 DEF Spot
<1>12. \A p \in Path : c.got[p] = IF p = e THEN v ELSE rd[r].got[p]
  BY <1>5, <1>7
<1>10. ASSUME stage[v] \in Complete, NEW p \in Path, Covered(rd[r], p) PROVE Covered(c, p)
  <2>1. CASE rd[r].got[p] # 0 \/ p \in rd[r].list
    BY <1>2, <1>4, <1>7, <1>12, <2>1 DEF Covered
  <2>2. CASE rd[r].kind # "files" /\ \E d \in Above[p] : d \in rd[r].list /\ d # e
    BY <1>4, <1>7, <2>2 DEF Covered
  <2>3. CASE rd[r].kind # "files" /\ e \in Above[p]
    <3>1. e \in Folder /\ p \in Entry
      BY <2>3, TreeAssumption DEF Entry
    <3>2. Inside(r, e, v) = In(Into(e))
      BY <1>2, <1>10, <2>3, <3>1 DEF Inside, DataInv, In
    <3>3. p \in In(Into(e)) \/ \E f \in Above[p] : f \in In(Into(e))
      BY <2>3, <3>1, NextStep
    <3>4. In(Into(e)) \subseteq c.list
      BY <1>4, <1>7, <3>2
    <3> QED BY <1>7, <2>3, <3>3, <3>4 DEF Covered
  <2> QED BY <1>10, <2>1, <2>2, <2>3 DEF Covered
<1>11. Wanted(c) = Wanted(rd[r]) /\ Wanted(c) \subseteq Path
  BY <1>7 DEF Wanted
<1>13. \A p \in Path : p \in rd[r].list => p \in c.list \/ c.got[p] # 0
  BY <1>2, <1>4, <1>7, <1>12
<1>14. SoundWalk(c, stage, current)
  BY <1>1, <1>2, <1>4, <1>7, <1>9, <1>10, <1>11, <1>12, <1>13 DEF SoundWalk
<1>15. Sound(c, stage, current)
  BY <1>1, <1>7, <1>14 DEF Sound, SoundHistory
<1> QED BY <1>7, <1>8, <1>15 DEF Becomes, ReadPc

(***************************************************************************)
(* A version that lacks an entry is not complete.                          *)
(***************************************************************************)
LEMMA OpenSound ==
  ASSUME Types, DataInv, NEW r \in Reader, Sound(rd[r], stage, current), NEW e \in Entry,
         Open(r, e)
  PROVE  \E c \in ReaderT : Becomes(r, c)
<1>1. PICK v : v = Place(r)
  OBVIOUS
<1>2. /\ rd[r] \in ReaderT /\ rd[r].pc = "open" /\ e \in rd[r].list
      /\ rd[r].kind \in {"archive", "export", "files"} /\ rd[r].kind \in Jobs
      /\ SoundWalk(rd[r], stage, current)
  BY DEF Open, Types, Sound, Jobs
<1>3. CASE e \in Here(v)
  BY <1>1, <1>2, <1>3, KeepSound DEF Open
<1>4. ASSUME e \notin Here(v), rd[r].kind \in {"archive", "files"},
             NEW m \in SUBSET rd[r].list, rd' = [rd EXCEPT ![r].list = m]
      PROVE  \E c \in ReaderT : Becomes(r, c)
  <2>1. m \in Lists /\ m \subseteq Entry /\ Apart(m) /\ rd[r].got \in [Path -> Version \cup {0}]
    BY <1>2 DEF SoundWalk, Apart, Lists, ReaderT
  <2>2. PICK c \in ReaderT : c = Kept(rd[r], m, rd[r].got)
    BY <1>2, <2>1, KeptFields
  <2>3. /\ c.pc = "open" /\ c.kind = rd[r].kind /\ c.dir = rd[r].dir /\ c.sub = rd[r].sub
        /\ c.list = m /\ c.got = rd[r].got /\ c.frail = rd[r].frail /\ c.moved = rd[r].moved
    BY <1>2, <2>1, <2>2, KeptFields
  <2>4. rd' = [rd EXCEPT ![r] = c]
    <3>1. \A x \in ReaderT : [x EXCEPT !.list = m] = Kept(x, m, x.got)
      BY DEF Kept, ReaderT
    <3> QED BY <1>2, <1>4, <2>2, <3>1
  <2>5. v \in Version /\ v = Spot(rd[r], current) /\ v = Spot(c, current) /\ v # 0
    BY <1>1, <1>2, <2>3 DEF SoundWalk, Spot, Place, Version
  <2>6. stage[v] \notin Complete
    BY <1>4, <2>5 DEF DataInv, Here
  <2>7. SoundWalk(c, stage, current)
    BY <1>2, <1>4, <2>1, <2>3, <2>5, <2>6 DEF SoundWalk
  <2>8. Sound(c, stage, current)
    BY <1>2, <1>4, <2>3, <2>7 DEF Sound, SoundHistory
  <2> QED BY <2>3, <2>4, <2>8 DEF Becomes, ReadPc
<1>5. CASE e \notin Here(v)
  <2>1. CASE LeaveOut(r, e)
    <3>1. PICK m \in SUBSET rd[r].list : m = rd[r].list \ {e}
      OBVIOUS
    <3>2. rd' = [rd EXCEPT ![r].list = m] /\ rd[r].kind = "files"
      BY <2>1, <3>1 DEF LeaveOut
    <3> QED BY <1>4, <1>5, <3>2
  <2>2. CASE CutShort(r)
    <3>1. PICK m \in SUBSET rd[r].list : m = {}
      OBVIOUS
    <3>2. rd' = [rd EXCEPT ![r].list = m] /\ rd[r].kind = "archive"
      BY <2>2, <3>1 DEF CutShort
    <3> QED BY <1>4, <1>5, <3>2
  <2>3. CASE Fail(r)
    BY <2>3, FinishedSound, OffFields DEF Fail, Done, Finished, Becomes, ReadPc
  <2> QED BY <1>1, <1>5, <2>1, <2>2, <2>3 DEF Open
<1> QED BY <1>3, <1>5

(***************************************************************************)
(* A walk that has come to its end, through a version that is all there,   *)
(* has been everywhere.                                                    *)
(***************************************************************************)
LEMMA EndSound ==
  ASSUME Types, NEW r \in Reader, Sound(rd[r], stage, current), End(r)
  PROVE  \E c \in ReaderT : Becomes(r, c)
<1>1. CASE rd[r].kind \in {"download", "restore"}
  BY <1>1, FinishedSound, OffFields DEF End, Done, Finished, Becomes, ReadPc
<1>2. CASE rd[r].kind \notin {"download", "restore"}
  <2>1. PICK b \in BOOLEAN : b = (rd[r].frail \/ ~Full(Place(r)))
    OBVIOUS
  <2>2. /\ rd[r] \in ReaderT /\ rd[r].pc = "open" /\ rd[r].list = {}
        /\ rd[r].kind \in {"archive", "export", "files"} /\ SoundWalk(rd[r], stage, current)
    BY <1>2 DEF End, Sound, Types, Jobs
  <2>3. PICK c \in ReaderT : c = Ended(rd[r], b)
    BY <2>2, EndedFields
  <2>4. /\ c.pc = "sent" /\ c.kind = rd[r].kind /\ c.sub = rd[r].sub
        /\ c.got = rd[r].got /\ c.frail = b /\ c.moved = rd[r].moved
    BY <2>2, <2>3, EndedFields
  <2>5. rd' = [rd EXCEPT ![r] = c]
    BY <1>2, <2>1, <2>3 DEF End, Ended
  <2>6. ~b => ~rd[r].frail /\ stage[Spot(rd[r], current)] \in Complete
    BY <2>1 DEF Full, Complete, Place, Spot
  <2>7. Wanted(c) = Wanted(rd[r])
    BY <2>4 DEF Wanted
  <2>8. \A p : Covered(rd[r], p) => rd[r].got[p] # 0
    BY <2>2 DEF Covered
  <2>9. SoundWalk(c, stage, current)
    BY <2>2, <2>4, <2>6, <2>7, <2>8 DEF SoundWalk
  <2>10. Sound(c, stage, current)
    BY <2>2, <2>4, <2>9 DEF Sound, SoundHistory
  <2> QED BY <2>4, <2>5, <2>10 DEF Becomes, ReadPc
<1> QED BY <1>1, <1>2
-----------------------------------------------------------------------------
(* The limiter counts.                                                     *)

ServedPc  == {"dec", "decstore", "resolve", "list", "open", "sent", "done"}
QueuedPc  == {"send", "blocked", "dec", "decstore"}
StorePc   == {"incstore", "decstore"}

AtOneOf(f, S) == {h \in Request : f[h].pc \in S}
One(pc, S)    == IF pc \in S THEN 1 ELSE 0

(***************************************************************************)
(* The slots taken are those of the requests served; those the channel has *)
(* blocked wait once each; until two updates of the count overlap it is    *)
(* exact, and whoever is updating it has loaded it as it is.               *)
(***************************************************************************)
SlotInv  == sem = Cardinality(AtOneOf(rd, ServedPc)) /\ sem <= Cap
QueueInv == /\ \A i \in 1 .. Len(queue) : rd[queue[i]].pc = "blocked"
            /\ \A i, j \in 1 .. Len(queue) : queue[i] = queue[j] => i = j
CountInv ==
  ~raced => /\ waiting = Cardinality(AtOneOf(rd, QueuedPc))
            /\ \A g, h \in AtOneOf(rd, StorePc) : g = h
            /\ \A h \in AtOneOf(rd, StorePc) : rd[h].reg = waiting
NoMarks  == \A h \in Request : rd[h].pc # "mark"

LimInv == SlotInv /\ QueueInv /\ CountInv /\ NoMarks

LEMMA AtOneOfFinite ==
  ASSUME NEW f, NEW S
  PROVE  IsFiniteSet(AtOneOf(f, S)) /\ Cardinality(AtOneOf(f, S)) \in Nat
BY FS_Subset, FS_CardinalityType DEF AtOneOf

LEMMA CountChange ==
  ASSUME NEW f \in [Reader -> ReaderT], NEW h \in Request, NEW c \in ReaderT, NEW S
  PROVE  Cardinality(AtOneOf([f EXCEPT ![h] = c], S))
           = Cardinality(AtOneOf(f, S)) + One(c.pc, S) - One(f[h].pc, S)
<1> DEFINE g == [f EXCEPT ![h] = c]
           A == AtOneOf(f, S)
           B == AtOneOf(g, S)
<1>1. g[h] = c /\ \A q \in Request : q # h => g[q] = f[q]
  BY DEF Reader
<1>2. IsFiniteSet(A) /\ Cardinality(A) \in Nat /\ IsFiniteSet(B) /\ Cardinality(B) \in Nat
  BY AtOneOfFinite
<1>3. /\ h \in A <=> f[h].pc \in S
      /\ h \in B <=> c.pc \in S
      /\ \A q \in Request : q # h => (q \in A <=> q \in B)
      /\ A \subseteq Request /\ B \subseteq Request
  BY <1>1 DEF AtOneOf
<1> HIDE DEF A, B
<1>4. CASE h \in A <=> h \in B
  <2>1. A = B
    BY <1>3, <1>4
  <2> QED BY <1>2, <1>3, <1>4, <2>1 DEF One, A, B
<1>5. CASE h \notin A /\ h \in B
  <2>1. B = A \cup {h}
    BY <1>3, <1>5
  <2>2. Cardinality(B) = Cardinality(A) + 1
    BY <1>2, <1>5, <2>1, FS_AddElement
  <2> QED BY <1>2, <1>3, <1>5, <2>2 DEF One, A, B
<1>6. CASE h \in A /\ h \notin B
  <2>1. B = A \ {h}
    BY <1>3, <1>6
  <2>2. Cardinality(B) = Cardinality(A) - 1
    BY <1>2, <1>6, <2>1, FS_RemoveElement
  <2> QED BY <1>2, <1>3, <1>6, <2>2 DEF One, A, B
<1> QED BY <1>4, <1>5, <1>6

(***************************************************************************)
(* One request moves, in or out of a slot but not of the queue.            *)
(***************************************************************************)
Moves(h, c) ==
  /\ rd' = [rd EXCEPT ![h] = c] /\ UNCHANGED <<queue, waiting, raced>>
  /\ rd[h].pc \notin StorePc \cup {"blocked"} /\ c.pc \notin StorePc \cup {"mark"}
  /\ c.pc \in QueuedPc <=> rd[h].pc \in QueuedPc
  /\ sem' = sem + One(c.pc, ServedPc) - One(rd[h].pc, ServedPc) /\ sem' <= Cap

LEMMA MovesKeeps ==
  ASSUME Types, LimInv, NEW h \in Request, NEW c \in ReaderT, Moves(h, c)
  PROVE  LimInv'
<1>1. rd' = [rd EXCEPT ![h] = c] /\ rd \in [Reader -> ReaderT] /\ h \in Reader
  BY DEF Moves, Types, Reader
<1>2. rd'[h] = c /\ \A q \in Reader : q # h => rd'[q] = rd[q]
  BY <1>1
<1>3. \A S : Cardinality(AtOneOf(rd', S))
               = Cardinality(AtOneOf(rd, S)) + One(c.pc, S) - One(rd[h].pc, S)
  BY <1>1, CountChange
<1>4. \A S : Cardinality(AtOneOf(rd, S)) \in Nat
  BY AtOneOfFinite
<1>5. SlotInv'
  <2>1. One(c.pc, ServedPc) \in Int /\ One(rd[h].pc, ServedPc) \in Int
    BY DEF One
  <2> QED BY <1>3, <1>4, <2>1 DEF Moves, LimInv, SlotInv
<1>6. QueueInv'
  <2>1. \A i \in 1 .. Len(queue) : queue[i] \in Request /\ queue[i] # h
    BY DEF LimInv, QueueInv, Moves, Types
  <2> QED BY <1>2, <2>1 DEF Moves, LimInv, QueueInv, Reader
<1>7. CountInv'
  <2>1. One(c.pc, QueuedPc) = One(rd[h].pc, QueuedPc) /\ One(c.pc, QueuedPc) \in Int
    BY DEF Moves, One
  <2>2. AtOneOf(rd', StorePc) = AtOneOf(rd, StorePc)
    BY <1>2 DEF Moves, AtOneOf, Reader
  <2>3. \A q \in AtOneOf(rd, StorePc) : rd'[q] = rd[q]
    BY <1>2 DEF Moves, AtOneOf, Reader
  <2>4. Cardinality(AtOneOf(rd', QueuedPc)) = Cardinality(AtOneOf(rd, QueuedPc))
    BY <1>3, <1>4, <2>1
  <2> QED BY <2>2, <2>3, <2>4 DEF Moves, LimInv, CountInv
<1>8. NoMarks'
  BY <1>2 DEF Moves, LimInv, NoMarks, Reader
<1> QED BY <1>5, <1>6, <1>7, <1>8 DEF LimInv

(***************************************************************************)
(* What leaves every request where it is leaves the limiter right.         *)
(***************************************************************************)
LEMMA StaysKeeps ==
  ASSUME Types, LimInv, UNCHANGED limiter,
         \A h \in Request : rd'[h].pc = rd[h].pc /\ rd'[h].reg = rd[h].reg
  PROVE  LimInv'
<1>1. \A S : AtOneOf(rd', S) = AtOneOf(rd, S)
  BY DEF AtOneOf
<1>2. \A S : \A h \in AtOneOf(rd, S) : h \in Request
  BY DEF AtOneOf
<1>3. \A i \in 1 .. Len(queue) : queue[i] \in Request
  BY DEF Types
<1>4. SlotInv' /\ NoMarks'
  BY <1>1 DEF LimInv, SlotInv, NoMarks, limiter
<1>5. QueueInv'
  BY <1>3 DEF LimInv, QueueInv, limiter
<1>6. CountInv'
  BY <1>1, <1>2 DEF LimInv, CountInv, limiter
<1> QED BY <1>4, <1>5, <1>6 DEF LimInv
-----------------------------------------------------------------------------
(* The limiter's steps.                                                    *)

(***************************************************************************)
(* A request that is not reading holds nothing.                            *)
(***************************************************************************)
Idle(c) == c \in ReaderT /\ c.pc \notin {"list", "open", "mark", "sent"} /\ Fresh(c)

LEMMA IdleBefore ==
  ASSUME Types, AllSound, NEW r \in Reader,
         rd[r].pc \notin {"list", "open", "mark", "sent"}
  PROVE  Idle(rd[r])
BY DEF Types, AllSound, Sound, Idle

LEMMA IdleOff == Idle(Off) /\ Idle(Finished)
BY OffFields DEF Idle, Fresh

LEMMA IdleAt ==
  ASSUME NEW c, Idle(c), NEW pc \in PC \ {"list", "open", "mark", "sent"}
  PROVE  Idle(At(c, pc)) /\ At(c, pc).pc = pc
BY AtFields DEF Idle, Fresh

LEMMA IdleReg ==
  ASSUME NEW c, Idle(c), NEW n \in Int, NEW pc \in PC \ {"list", "open", "mark", "sent"}
  PROVE  Idle(Reg(c, n, pc)) /\ Reg(c, n, pc).pc = pc /\ Reg(c, n, pc).reg = n
BY RegFields DEF Idle, Fresh

LEMMA LookMoves ==
  ASSUME Types, AllSound, LimInv, NEW h \in Request, Look(h) \/ CheckQueue(h)
  PROVE  \E c : Idle(c) /\ Moves(h, c)
<1>1. Idle(rd[h])
  BY IdleBefore DEF Look, CheckQueue, Reader
<1>2. UNCHANGED limiter /\ sem \in Int /\ sem <= Cap
  BY DEF Look, CheckQueue, Types, LimInv, SlotInv
<1>3. ASSUME NEW pc \in {"full", "try"}, rd' = [rd EXCEPT ![h] = At(rd[h], pc)]
      PROVE  \E c : Idle(c) /\ Moves(h, c)
  <2>1. Idle(At(rd[h], pc)) /\ At(rd[h], pc).pc = pc
    BY <1>1, IdleAt DEF PC
  <2>2. Moves(h, At(rd[h], pc))
    BY <1>2, <1>3, <2>1
       DEF Look, CheckQueue, Moves, limiter, One, ServedPc, QueuedPc, StorePc
  <2> QED BY <2>1, <2>2
<1>4. CASE rd' = [rd EXCEPT ![h] = Off] /\ CheckQueue(h)
  <2>1. Moves(h, Off)
    <3>1. UNCHANGED <<queue, waiting, raced>> /\ sem' = sem /\ rd[h].pc = "full"
      BY <1>2, <1>4 DEF CheckQueue, limiter
    <3>2. One(Off.pc, ServedPc) = 0 /\ One(rd[h].pc, ServedPc) = 0
      BY <3>1, OffFields DEF One, ServedPc
    <3> QED BY <1>2, <1>4, <3>1, <3>2, OffFields DEF Moves, QueuedPc, StorePc
  <2> QED BY <2>1, IdleOff
<1>5. \/ rd' = [rd EXCEPT ![h] = At(rd[h], "full")]
      \/ rd' = [rd EXCEPT ![h] = At(rd[h], "try")]
      \/ rd' = [rd EXCEPT ![h] = Off] /\ CheckQueue(h)
  BY DEF Look, CheckQueue, Goto, At
<1> QED BY <1>3, <1>4, <1>5

LEMMA TryMoves ==
  ASSUME Types, AllSound, LimInv, NEW h \in Request, Try(h)
  PROVE  \E c : Idle(c) /\ Moves(h, c)
<1>1. Idle(rd[h])
  BY IdleBefore DEF Try, Reader
<1>2. UNCHANGED <<queue, waiting, raced>> /\ sem \in Int /\ sem <= Cap /\ Cap \in Nat
  BY DEF Try, Types, LimInv, SlotInv
<1>3. ASSUME NEW pc \in {"resolve", "inc"}, rd' = [rd EXCEPT ![h] = At(rd[h], pc)],
             sem' = IF pc = "resolve" THEN sem + 1 ELSE sem, sem' <= Cap
      PROVE  \E c : Idle(c) /\ Moves(h, c)
  <2>1. Idle(At(rd[h], pc)) /\ At(rd[h], pc).pc = pc
    BY <1>1, <1>3, IdleAt DEF PC
  <2>2. Moves(h, At(rd[h], pc))
    BY <1>2, <1>3, <2>1 DEF Try, Moves, One, ServedPc, QueuedPc, StorePc
  <2> QED BY <2>1, <2>2
<1>4. \/ rd' = [rd EXCEPT ![h] = At(rd[h], "resolve")] /\ sem' = sem + 1 /\ sem < Cap
      \/ rd' = [rd EXCEPT ![h] = At(rd[h], "inc")] /\ sem' = sem
  BY DEF Try, Goto, At
<1> QED BY <1>2, <1>3, <1>4

(***************************************************************************)
(* While nobody else is between load and store, what is loaded is the      *)
(* count, and what is stored is the count after.                           *)
(***************************************************************************)
LEMMA LoadCountKeeps ==
  ASSUME Types, AllSound, LimInv, NEW h \in Request, LoadCount(h)
  PROVE  (\E c : Idle(c) /\ rd' = [rd EXCEPT ![h] = c]) /\ LimInv'
<1>1. Idle(rd[h]) /\ waiting \in Int /\ h \in Reader
  BY IdleBefore DEF LoadCount, Reader, Types
<1>2. PICK pc \in StorePc : /\ rd' = [rd EXCEPT ![h] = Reg(rd[h], waiting, pc)]
                            /\ pc = "incstore" <=> rd[h].pc = "inc"
  BY DEF LoadCount, Reg, StorePc, Types
<1>3. PICK c : c = Reg(rd[h], waiting, pc)
  OBVIOUS
<1>4. Idle(c) /\ c \in ReaderT /\ c.pc = pc /\ c.reg = waiting
  BY <1>1, <1>3, IdleReg DEF StorePc, PC, Idle
<1>5. rd' = [rd EXCEPT ![h] = c] /\ rd \in [Reader -> ReaderT]
  BY <1>2, <1>3 DEF Types
<1>6. rd'[h] = c /\ \A q \in Reader : q # h => rd'[q] = rd[q]
  BY <1>1, <1>5
<1>7. \A S : /\ Cardinality(AtOneOf(rd', S))
                  = Cardinality(AtOneOf(rd, S)) + One(c.pc, S) - One(rd[h].pc, S)
             /\ Cardinality(AtOneOf(rd, S)) \in Nat
  BY <1>4, <1>5, CountChange, AtOneOfFinite
<1>8. UNCHANGED <<sem, queue, waiting>>
      /\ (raced' = (raced \/ \E g \in Request : rd[g].pc \in StorePc))
      /\ rd[h].pc \in {"inc", "dec"}
  BY DEF LoadCount, StorePc
<1>9. SlotInv'
  <2>1. One(c.pc, ServedPc) = One(rd[h].pc, ServedPc) /\ One(c.pc, ServedPc) \in Int
    BY <1>2, <1>4, <1>8 DEF One, ServedPc, StorePc
  <2> QED BY <1>7, <1>8, <2>1 DEF LimInv, SlotInv
<1>10. QueueInv'
  <2>1. \A i \in 1 .. Len(queue) : queue[i] \in Request /\ queue[i] # h
    BY <1>8 DEF LimInv, QueueInv, Types
  <2> QED BY <1>6, <1>8, <2>1 DEF LimInv, QueueInv, Reader
<1>11. CountInv'
  <2>1. One(c.pc, QueuedPc) = One(rd[h].pc, QueuedPc) /\ One(c.pc, QueuedPc) \in Int
    BY <1>2, <1>4, <1>8 DEF One, QueuedPc, StorePc
  <2>2. Cardinality(AtOneOf(rd', QueuedPc)) = Cardinality(AtOneOf(rd, QueuedPc))
    BY <1>7, <2>1
  <2>3. ~raced' => ~raced /\ \A g \in AtOneOf(rd', StorePc) : g = h
    BY <1>6, <1>8 DEF AtOneOf, Reader
  <2>4. rd'[h].reg = waiting'
    BY <1>4, <1>6, <1>8
  <2> QED BY <1>8, <2>2, <2>3, <2>4 DEF LimInv, CountInv
<1>12. NoMarks'
  BY <1>4, <1>6 DEF LimInv, NoMarks, StorePc, Reader
<1> QED BY <1>4, <1>5, <1>9, <1>10, <1>11, <1>12 DEF LimInv

LEMMA StoreCountKeeps ==
  ASSUME Types, AllSound, LimInv, NEW h \in Request, StoreCount(h)
  PROVE  (\E c : Idle(c) /\ rd' = [rd EXCEPT ![h] = c]) /\ LimInv'
<1>1. Idle(rd[h]) /\ waiting \in Int /\ h \in Reader /\ rd[h].reg \in Int
      /\ rd[h].pc \in StorePc
  BY IdleBefore DEF StoreCount, Reader, Types, ReaderT, StorePc
<1>2. PICK pc \in {"send", "resolve"} :
        /\ rd' = [rd EXCEPT ![h] = Reg(rd[h], 0, pc)]
        /\ waiting' = rd[h].reg + (IF pc = "send" THEN 1 ELSE -1)
        /\ rd[h].pc = IF pc = "send" THEN "incstore" ELSE "decstore"
  BY DEF StoreCount, Reg, Types
<1>3. PICK c : c = Reg(rd[h], 0, pc)
  OBVIOUS
<1>4. Idle(c) /\ c \in ReaderT /\ c.pc = pc
  BY <1>1, <1>3, IdleReg DEF PC, Idle
<1>5. rd' = [rd EXCEPT ![h] = c] /\ rd \in [Reader -> ReaderT]
  BY <1>2, <1>3 DEF Types
<1>6. rd'[h] = c /\ \A q \in Reader : q # h => rd'[q] = rd[q]
  BY <1>1, <1>5
<1>7. \A S : /\ Cardinality(AtOneOf(rd', S))
                  = Cardinality(AtOneOf(rd, S)) + One(c.pc, S) - One(rd[h].pc, S)
             /\ Cardinality(AtOneOf(rd, S)) \in Nat
  BY <1>4, <1>5, CountChange, AtOneOfFinite
<1>8. UNCHANGED <<sem, queue, raced>>
  BY DEF StoreCount
<1>9. SlotInv'
  <2>1. One(c.pc, ServedPc) = One(rd[h].pc, ServedPc) /\ One(c.pc, ServedPc) \in Int
    BY <1>2, <1>4 DEF One, ServedPc
  <2> QED BY <1>7, <1>8, <2>1 DEF LimInv, SlotInv
<1>10. QueueInv'
  <2>1. \A i \in 1 .. Len(queue) : queue[i] \in Request /\ queue[i] # h
    BY <1>1 DEF LimInv, QueueInv, Types, StorePc
  <2> QED BY <1>6, <1>8, <2>1 DEF LimInv, QueueInv, Reader
<1>11. CountInv'
  <2>1. One(c.pc, QueuedPc) - One(rd[h].pc, QueuedPc) = (IF pc = "send" THEN 1 ELSE -1)
        /\ One(c.pc, QueuedPc) \in Int /\ One(rd[h].pc, QueuedPc) \in Int
    BY <1>2, <1>4 DEF One, QueuedPc
  <2>2. Cardinality(AtOneOf(rd', QueuedPc))
          = Cardinality(AtOneOf(rd, QueuedPc)) + (IF pc = "send" THEN 1 ELSE -1)
    BY <1>7, <2>1
  <2>3. h \in AtOneOf(rd, StorePc)
    BY <1>1 DEF AtOneOf
  <2>4. ~raced => AtOneOf(rd', StorePc) = {}
    BY <1>4, <1>6, <2>3 DEF LimInv, CountInv, AtOneOf, StorePc, Reader
  <2> QED BY <1>2, <1>8, <2>2, <2>3, <2>4 DEF LimInv, CountInv
<1>12. NoMarks'
  BY <1>4, <1>6 DEF LimInv, NoMarks, Reader
<1> QED BY <1>4, <1>5, <1>9, <1>10, <1>11, <1>12 DEF LimInv

(***************************************************************************)
(* The send either takes a slot, or joins the queue at its end.            *)
(***************************************************************************)
LEMMA SendKeeps ==
  ASSUME Types, AllSound, LimInv, NEW h \in Request, Send(h)
  PROVE  (\E c : Idle(c) /\ rd' = [rd EXCEPT ![h] = c]) /\ LimInv' /\ queue' \in Seq(Request)
<1>1. Idle(rd[h]) /\ h \in Reader /\ sem \in Int /\ sem <= Cap /\ queue \in Seq(Request)
      /\ rd[h].pc = "send" /\ rd \in [Reader -> ReaderT]
  BY IdleBefore DEF Send, Reader, Types, LimInv, SlotInv
<1>2. CASE sem < Cap
  <2>1. PICK c : c = At(rd[h], "dec")
    OBVIOUS
  <2>2. Idle(c) /\ c \in ReaderT /\ c.pc = "dec"
    BY <1>1, <2>1, IdleAt DEF PC, Idle
  <2>3. rd' = [rd EXCEPT ![h] = c] /\ sem' = sem + 1 /\ UNCHANGED <<queue, waiting, raced>>
    BY <1>2, <2>1 DEF Send, Goto, At
  <2>4. Moves(h, c)
    BY <1>1, <1>2, <2>2, <2>3 DEF Moves, One, ServedPc, QueuedPc, StorePc
  <2> QED BY <1>1, <2>2, <2>3, <2>4, MovesKeeps
<1>3. CASE ~(sem < Cap)
  <2>1. PICK c : c = At(rd[h], "blocked")
    OBVIOUS
  <2>2. Idle(c) /\ c \in ReaderT /\ c.pc = "blocked" /\ c.reg = rd[h].reg
    BY <1>1, <2>1, IdleAt, AtFields DEF PC, Idle
  <2>3. /\ rd' = [rd EXCEPT ![h] = c] /\ queue' = Append(queue, h)
        /\ UNCHANGED <<sem, waiting, raced>>
    BY <1>3, <2>1 DEF Send, Goto, At
  <2>4. rd'[h] = c /\ \A q \in Reader : q # h => rd'[q] = rd[q]
    BY <1>1, <2>3
  <2>5. \A S : /\ Cardinality(AtOneOf(rd', S))
                    = Cardinality(AtOneOf(rd, S)) + One(c.pc, S) - One(rd[h].pc, S)
               /\ Cardinality(AtOneOf(rd, S)) \in Nat
    BY <1>1, <2>2, <2>3, CountChange, AtOneOfFinite
  <2>6. SlotInv'
    <3>1. One(c.pc, ServedPc) = 0 /\ One(rd[h].pc, ServedPc) = 0
      BY <1>1, <2>2 DEF One, ServedPc
    <3>2. Cardinality(AtOneOf(rd', ServedPc)) = Cardinality(AtOneOf(rd, ServedPc))
      BY <2>5, <3>1
    <3> QED BY <2>3, <3>2 DEF LimInv, SlotInv
  <2>7. QueueInv'
    <3>1. \A i \in 1 .. Len(queue) : queue[i] \in Request /\ queue[i] # h
      BY <1>1 DEF LimInv, QueueInv
    <3>2. /\ Len(queue') = Len(queue) + 1 /\ queue'[Len(queue) + 1] = h
          /\ \A i \in 1 .. Len(queue) : queue'[i] = queue[i]
          /\ Len(queue) \in Nat
      BY <1>1, <2>3
    <3>3. QueueInv /\ rd'[h].pc = "blocked" /\ h \in Request
      BY <2>2, <2>4 DEF LimInv, Reader
    <3> QED BY <2>2, <2>4, <3>1, <3>2, <3>3 DEF QueueInv, Reader
  <2>8. CountInv'
    <3>1. One(c.pc, QueuedPc) = 1 /\ One(rd[h].pc, QueuedPc) = 1
      BY <1>1, <2>2 DEF One, QueuedPc
    <3>2. Cardinality(AtOneOf(rd', QueuedPc)) = Cardinality(AtOneOf(rd, QueuedPc))
      BY <2>5, <3>1
    <3>3. AtOneOf(rd', StorePc) = AtOneOf(rd, StorePc)
      BY <1>1, <2>2, <2>4 DEF AtOneOf, StorePc, Reader
    <3>4. \A q \in AtOneOf(rd, StorePc) : rd'[q] = rd[q]
      BY <1>1, <2>4 DEF AtOneOf, StorePc, Reader
    <3> QED BY <2>3, <3>2, <3>3, <3>4 DEF LimInv, CountInv
  <2>9. NoMarks'
    BY <2>2, <2>4 DEF LimInv, NoMarks, Reader
  <2>10. LimInv'
    BY <2>6, <2>7, <2>8, <2>9 DEF LimInv
  <2>11. queue' \in Seq(Request)
    BY <1>1, <2>3
  <2> QED BY <2>2, <2>3, <2>10, <2>11
<1> QED BY <1>2, <1>3

(***************************************************************************)
(* A slot is given back, or goes to the first in the queue.                *)
(***************************************************************************)
LEMMA ReleaseMoves ==
  ASSUME Types, AllSound, LimInv, NEW h \in Request, Release(h), queue = <<>>
  PROVE  Moves(h, Off)
<1>1. rd' = [rd EXCEPT ![h] = Off] /\ sem' = sem - 1 /\ UNCHANGED <<queue, waiting, raced>>
      /\ rd[h].pc \in {"sent", "done"} /\ sem \in Int /\ sem <= Cap
  BY DEF Release, Types, LimInv, SlotInv
<1>2. One(Off.pc, ServedPc) = 0 /\ One(rd[h].pc, ServedPc) = 1
  BY <1>1, OffFields DEF One, ServedPc
<1> QED BY <1>1, <1>2, OffFields DEF Moves, QueuedPc, StorePc

Wakes(h, g, c) ==
  /\ g \in Request /\ g # h /\ Idle(c) /\ c.pc = "dec"
  /\ rd' = [[rd EXCEPT ![h] = Off] EXCEPT ![g] = c]

LEMMA ReleaseKeeps ==
  ASSUME Types, AllSound, LimInv, NEW h \in Request, Release(h), queue # <<>>
  PROVE  (\E c : Wakes(h, Head(queue), c)) /\ LimInv' /\ queue' \in Seq(Request)
<1>1. /\ h \in Reader /\ queue \in Seq(Request) /\ rd \in [Reader -> ReaderT]
      /\ rd[h].pc \in {"sent", "done"} /\ sem \in Int
      /\ queue' = Tail(queue) /\ UNCHANGED <<sem, waiting, raced>>
  BY DEF Release, Reader, Types
<1>2. PICK g \in Request : g = Head(queue)
  BY <1>1
<1>3. g = queue[1] /\ 1 \in 1 .. Len(queue)
  BY <1>1, <1>2
<1>4. rd[g].pc = "blocked" /\ g # h /\ g \in Reader
  BY <1>1, <1>3 DEF LimInv, QueueInv, Reader
<1>5. PICK c : c = At(rd[g], "dec")
  OBVIOUS
<1>6. Idle(c) /\ c \in ReaderT /\ c.pc = "dec"
  BY <1>4, <1>5, IdleBefore, IdleAt DEF PC, Idle
<1>7. PICK f \in [Reader -> ReaderT] : f = [rd EXCEPT ![h] = Off]
  BY <1>1, OffFields
<1>8. rd' = [f EXCEPT ![g] = c]
  BY <1>1, <1>2, <1>4, <1>5, <1>7 DEF Release, At
<1>9. /\ rd'[g] = c /\ rd'[h] = Off /\ f[g] = rd[g]
      /\ \A q \in Reader : q \notin {g, h} => rd'[q] = rd[q]
  BY <1>1, <1>4, <1>7, <1>8
<1>10. \A S : /\ Cardinality(AtOneOf(rd', S))
                   = Cardinality(AtOneOf(rd, S)) + One(Off.pc, S) - One(rd[h].pc, S)
                                                 + One(c.pc, S) - One(rd[g].pc, S)
              /\ Cardinality(AtOneOf(rd, S)) \in Nat
  <2> SUFFICES ASSUME NEW S
               PROVE  /\ Cardinality(AtOneOf(rd', S))
                           = Cardinality(AtOneOf(rd, S)) + One(Off.pc, S) - One(rd[h].pc, S)
                                                         + One(c.pc, S) - One(rd[g].pc, S)
                      /\ Cardinality(AtOneOf(rd, S)) \in Nat
    OBVIOUS
  <2>1. Cardinality(AtOneOf(f, S)) = Cardinality(AtOneOf(rd, S)) + One(Off.pc, S) - One(rd[h].pc, S)
    <3>1. PICK o \in ReaderT : o = Off
      BY OffFields
    <3>2. Cardinality(AtOneOf([rd EXCEPT ![h] = o], S))
            = Cardinality(AtOneOf(rd, S)) + One(o.pc, S) - One(rd[h].pc, S)
      <4>1. rd \in [Reader -> ReaderT]
        BY <1>1
      <4> QED BY <4>1, CountChange, ZenonT(60)
    <3> QED BY <1>7, <3>1, <3>2
  <2>2. Cardinality(AtOneOf(rd', S)) = Cardinality(AtOneOf(f, S)) + One(c.pc, S) - One(rd[g].pc, S)
    <3>1. Cardinality(AtOneOf([f EXCEPT ![g] = c], S))
            = Cardinality(AtOneOf(f, S)) + One(c.pc, S) - One(f[g].pc, S)
      BY <1>6, CountChange
    <3> QED BY <1>8, <1>9, <3>1
  <2>3. Cardinality(AtOneOf(rd, S)) \in Nat
    BY AtOneOfFinite
  <2>4. \A pc : One(pc, S) \in Int
    BY DEF One
  <2> QED BY <2>1, <2>2, <2>3, <2>4
<1>11. SlotInv'
  <2>1. /\ One(Off.pc, ServedPc) = 0 /\ One(rd[h].pc, ServedPc) = 1
        /\ One(c.pc, ServedPc) = 1 /\ One(rd[g].pc, ServedPc) = 0
    BY <1>1, <1>4, <1>6, OffFields DEF One, ServedPc
  <2> QED BY <1>1, <1>10, <2>1 DEF LimInv, SlotInv
<1>12. QueueInv'
  <2>1. /\ Len(queue') = Len(queue) - 1 /\ Len(queue) \in Nat
        /\ \A i \in 1 .. Len(queue') : queue'[i] = queue[i + 1] /\ i + 1 \in 1 .. Len(queue)
    BY <1>1, <1>3
  <2>2. \A i \in 1 .. Len(queue) : queue[i] \in Request /\ queue[i] # h
    BY <1>1 DEF LimInv, QueueInv
  <2>3. \A i \in 1 .. Len(queue') : queue'[i] # g
    BY <1>3, <2>1 DEF LimInv, QueueInv
  <2>4. \A i \in 1 .. Len(queue') : rd'[queue'[i]].pc = "blocked"
    BY <1>9, <2>1, <2>2, <2>3 DEF LimInv, QueueInv, Reader
  <2>5. \A i, j \in 1 .. Len(queue') : queue'[i] = queue'[j] => i = j
    BY <2>1 DEF LimInv, QueueInv
  <2> QED BY <2>4, <2>5 DEF QueueInv
<1>13. CountInv'
  <2>1. /\ One(Off.pc, QueuedPc) = 0 /\ One(rd[h].pc, QueuedPc) = 0
        /\ One(c.pc, QueuedPc) = 1 /\ One(rd[g].pc, QueuedPc) = 1
    BY <1>1, <1>4, <1>6, OffFields DEF One, QueuedPc
  <2>2. Cardinality(AtOneOf(rd', QueuedPc)) = Cardinality(AtOneOf(rd, QueuedPc))
    BY <1>10, <2>1
  <2>3. AtOneOf(rd', StorePc) = AtOneOf(rd, StorePc)
    BY <1>1, <1>4, <1>6, <1>9, OffFields DEF AtOneOf, StorePc, Reader
  <2>4. \A q \in AtOneOf(rd, StorePc) : rd'[q] = rd[q]
    BY <1>1, <1>4, <1>9 DEF AtOneOf, StorePc, Reader
  <2> QED BY <1>1, <2>2, <2>3, <2>4 DEF LimInv, CountInv
<1>14. NoMarks'
  BY <1>6, <1>9, OffFields DEF LimInv, NoMarks, Reader
<1>15. Wakes(h, g, c)
  BY <1>4, <1>6, <1>7, <1>8 DEF Wakes
<1>16. queue' \in Seq(Request)
  BY <1>1
<1> QED BY <1>2, <1>11, <1>12, <1>13, <1>14, <1>15, <1>16 DEF LimInv
-----------------------------------------------------------------------------
(* Every step.                                                             *)

Inv == Types /\ DataInv /\ AllSound /\ LimInv

LEMMA InitInv == Init => Inv
<1> SUFFICES ASSUME Init PROVE Inv
  OBVIOUS
<1>1. \A h \in Request : rd[h].pc = "off"
  BY OffFields DEF Init, Reader
<1>2. \A S : "off" \notin S => AtOneOf(rd, S) = {}
  BY <1>1 DEF AtOneOf
<1>3. AtOneOf(rd, ServedPc) = {} /\ AtOneOf(rd, QueuedPc) = {} /\ AtOneOf(rd, StorePc) = {}
  BY <1>2 DEF ServedPc, QueuedPc, StorePc
<1>4. SlotInv /\ CountInv
  <2>1. sem = 0 /\ waiting = 0 /\ 0 <= Cap /\ Cardinality({}) = 0
    BY FS_EmptySet DEF Init
  <2>2. SlotInv
    BY <1>3, <2>1 DEF SlotInv
  <2>3. CountInv
    BY <1>3, <2>1 DEF CountInv
  <2> QED BY <2>2, <2>3
<1>5. QueueInv /\ NoMarks
  BY <1>1 DEF Init, QueueInv, NoMarks
<1> QED BY <1>4, <1>5, SoundInit DEF Inv, LimInv

(***************************************************************************)
(* One reader's record is replaced by a sound one, and the versions stay   *)
(* as they are.                                                            *)
(***************************************************************************)
LEMMA OneReplaced ==
  ASSUME Types, DataInv, AllSound, NEW r \in Reader, NEW c \in ReaderT,
         rd' = [rd EXCEPT ![r] = c], Sound(c, stage, current), UNCHANGED data,
         sem' \in Int, queue' \in Seq(Request), waiting' \in Int, raced' \in BOOLEAN,
         stalled' \in SUBSET Request
  PROVE  Types' /\ DataInv' /\ AllSound'
<1>1. rd' \in [Reader -> ReaderT] /\ \A q \in Reader : rd'[q] = IF q = r THEN c ELSE rd[q]
  BY Replaced
<1>2. AllSound'
  <2>1. ASSUME NEW q \in Reader PROVE Sound(rd'[q], stage, current)
    <3>1. CASE q = r
      BY <1>1, <3>1
    <3>2. CASE q # r
      BY <1>1, <3>2 DEF AllSound
    <3> QED BY <3>1, <3>2
  <2> QED BY <2>1 DEF AllSound, data
<1>3. Types' /\ DataInv'
  BY <1>1 DEF Types, DataInv, data
<1> QED BY <1>2, <1>3

LEMMA IdleReplaced ==
  ASSUME Types, DataInv, AllSound, NEW r \in Reader, NEW c, Idle(c),
         rd' = [rd EXCEPT ![r] = c], UNCHANGED data,
         sem' \in Int, queue' \in Seq(Request), waiting' \in Int, raced' \in BOOLEAN,
         stalled' \in SUBSET Request
  PROVE  Types' /\ DataInv' /\ AllSound'
<1>1. c \in ReaderT /\ Sound(c, stage, current)
  BY FreshIsSound DEF Idle
<1> QED BY <1>1, OneReplaced

(***************************************************************************)
(* A command or a query is not in the limiter.                             *)
(***************************************************************************)
LEMMA ToolKeeps ==
  ASSUME Types, LimInv, UNCHANGED limiter, NEW x \in Tool, NEW c, rd' = [rd EXCEPT ![x] = c]
  PROVE  LimInv'
<1>1. \A h \in Request : rd'[h] = rd[h]
  BY DEF Types, Reader
<1> QED BY <1>1, StaysKeeps

LEMMA LimiterStep ==
  ASSUME Inv, NEW h \in Request, Limiter(h)
  PROVE  Inv'
<1>1. Types /\ DataInv /\ AllSound /\ LimInv /\ h \in Reader
  BY DEF Inv, Reader
<1>2. /\ UNCHANGED data /\ stalled' \in SUBSET Request
      /\ sem \in Int /\ queue \in Seq(Request) /\ waiting \in Int /\ raced \in BOOLEAN
  BY <1>1 DEF Limiter, Look, CheckQueue, Try, LoadCount, StoreCount, Send, Release, Types
<1>3. sem' \in Int /\ waiting' \in Int /\ raced' \in BOOLEAN
  <2>1. rd[h].reg \in Int
    BY <1>1 DEF Types, ReaderT
  <2>2. CASE Look(h) \/ CheckQueue(h)
    BY <1>2, <2>2 DEF Look, CheckQueue, limiter
  <2>3. CASE Try(h) \/ Send(h) \/ Release(h)
    BY <1>2, <2>3 DEF Try, Send, Release
  <2>4. CASE LoadCount(h)
    BY <1>2, <2>4 DEF LoadCount
  <2>5. CASE StoreCount(h)
    BY <1>2, <2>1, <2>5 DEF StoreCount
  <2> QED BY <2>2, <2>3, <2>4, <2>5 DEF Limiter
<1>4. ASSUME NEW c, Idle(c), Moves(h, c)
      PROVE  Inv'
  <2>1. LimInv'
    BY <1>1, <1>4, MovesKeeps DEF Idle
  <2> QED BY <1>1, <1>2, <1>3, <1>4, <2>1, IdleReplaced DEF Inv, Moves
<1>5. CASE Look(h) \/ CheckQueue(h) \/ Try(h)
  BY <1>1, <1>4, <1>5, LookMoves, TryMoves
<1>6. CASE LoadCount(h) \/ StoreCount(h)
  <2>1. queue' = queue
    BY <1>6 DEF LoadCount, StoreCount
  <2>2. PICK c : Idle(c) /\ rd' = [rd EXCEPT ![h] = c]
    BY <1>1, <1>6, LoadCountKeeps, StoreCountKeeps
  <2>3. LimInv'
    BY <1>1, <1>6, LoadCountKeeps, StoreCountKeeps
  <2> QED BY <1>1, <1>2, <1>3, <2>1, <2>2, <2>3, IdleReplaced DEF Inv
<1>7. CASE Send(h)
  BY <1>1, <1>2, <1>3, <1>7, SendKeeps, IdleReplaced DEF Inv
<1>8. CASE Release(h) /\ queue = <<>>
  BY <1>1, <1>4, <1>8, ReleaseMoves, IdleOff
<1>9. CASE Release(h) /\ queue # <<>>
  <2>1. LimInv' /\ queue' \in Seq(Request)
    BY <1>1, <1>9, ReleaseKeeps
  <2>2. PICK g, c : Wakes(h, g, c)
    BY <1>1, <1>9, ReleaseKeeps
  <2>3. /\ g \in Reader /\ c \in ReaderT /\ Off \in ReaderT
        /\ Sound(c, stage, current) /\ Sound(Off, stage, current)
    BY <2>2, IdleOff, FreshIsSound DEF Wakes, Idle, Reader
  <2>4. rd \in [Reader -> ReaderT]
    BY <1>1 DEF Types
  <2>5. rd' \in [Reader -> ReaderT]
        /\ \A q \in Reader : rd'[q] = IF q = g THEN c ELSE IF q = h THEN Off ELSE rd[q]
    BY <1>1, <2>2, <2>3, <2>4 DEF Wakes
  <2>6. ASSUME NEW q \in Reader PROVE Sound(rd'[q], stage, current)
    <3>1. CASE q = g
      BY <2>3, <2>5, <3>1
    <3>2. CASE q # g /\ q = h
      BY <2>3, <2>5, <3>2
    <3>3. CASE q # g /\ q # h
      BY <1>1, <2>5, <3>3 DEF AllSound
    <3> QED BY <3>1, <3>2, <3>3
  <2>7. AllSound'
    BY <1>2, <2>6 DEF AllSound, data
  <2>8. Types' /\ DataInv'
    BY <1>1, <1>2, <1>3, <2>1, <2>5 DEF Types, DataInv, data
  <2> QED BY <2>1, <2>7, <2>8 DEF Inv
<1> QED BY <1>5, <1>6, <1>7, <1>8, <1>9 DEF Limiter

LEMMA KernelSplit ==
  ASSUME Kernel
  PROVE  KernelAside \/ \E v \in Version : Begin(v) \/ Switch(v)
BY DEF Kernel, KernelAside

LEMMA KernelStep ==
  ASSUME Inv, Kernel
  PROVE  Inv' /\ UNCHANGED limiter /\ \A h \in Request : rd'[h].pc = rd[h].pc
<1>1. CASE KernelAside
  <2>1. Types' /\ DataInv' /\ Ages /\ current' = current /\ rd' = rd /\ UNCHANGED limiter
    BY <1>1, KernelAges DEF Inv
  <2>2. ASSUME NEW r \in Reader PROVE Sound(rd'[r], stage', current')
    <3>1. rd[r] \in ReaderT /\ Sound(rd[r], stage, current)
      BY DEF Inv, Types, AllSound
    <3>2. Sound(rd[r], stage', current')
      BY <2>1, <3>1, SoundAges DEF Inv
    <3> QED BY <2>1, <3>2
  <2>3. LimInv'
    BY <2>1, StaysKeeps DEF Inv
  <2> QED BY <2>1, <2>2, <2>3 DEF Inv, AllSound
<1>2. ASSUME NEW v \in Version, Begin(v) \/ Switch(v)
      PROVE  Inv' /\ UNCHANGED limiter /\ \A h \in Request : rd'[h].pc = rd[h].pc
  <2>1. PICK M : Types' /\ DataInv' /\ AllSound' /\ Marks(M) /\ UNCHANGED limiter
    <3>1. CASE Begin(v)
      BY <3>1, MarksSound DEF Inv
    <3>2. CASE Switch(v)
      BY <3>2, MarksSound DEF Inv
    <3> QED BY <1>2, <3>1, <3>2
  <2>2. \A h \in Request : rd'[h].pc = rd[h].pc /\ rd'[h].reg = rd[h].reg
    BY <2>1, MarksFields DEF Inv, Reader
  <2>3. LimInv'
    BY <2>1, <2>2, StaysKeeps DEF Inv
  <2> QED BY <2>1, <2>2, <2>3 DEF Inv
<1> QED BY <1>1, <1>2, KernelSplit

LEMMA ReadingBecomes ==
  ASSUME Types, DataInv, NEW r \in Reader, Sound(rd[r], stage, current), Reading(r)
  PROVE  \E c \in ReaderT : Becomes(r, c)
<1>1. ASSUME NEW k \in IF r \in Request THEN {"download", "archive"}
                                        ELSE {"export", "restore", "files"},
             NEW v \in Version \cup {0}, Resolve(r, k, v)
      PROVE  \E c \in ReaderT : Becomes(r, c)
  <2>1. k \in {"download", "archive", "export", "restore", "files"}
    OBVIOUS
  <2> QED BY <1>1, <2>1, ResolveSound
<1>2. CASE r \in Tool /\ ListNames(r)
  BY <1>2, ListNamesSound
<1>3. ASSUME NEW dir \in {{}} \cup {Into(d) : d \in Folder}, List(r, dir)
      PROVE  \E c \in ReaderT : Becomes(r, c)
  <2>1. dir \in SUBSET Folder
    BY TreeAssumption DEF Into, Entry
  <2> QED BY <1>3, <2>1, ListSound
<1>4. CASE End(r)
  BY <1>4, EndSound
<1>5. CASE Mark(r)
  BY <1>5, MarkSound
<1>6. ASSUME NEW p \in Path, OpenOne(r, p)
      PROVE  \E c \in ReaderT : Becomes(r, c)
  BY <1>6, OpenOneSound
<1>7. ASSUME NEW e \in Entry, Open(r, e)
      PROVE  \E c \in ReaderT : Becomes(r, c)
  BY <1>7, OpenSound
<1> QED BY <1>1, <1>2, <1>3, <1>4, <1>5, <1>6, <1>7 DEF Reading

LEMMA ReadingStep ==
  ASSUME Inv, NEW r \in Reader, Reading(r)
  PROVE  Inv'
<1>1. Types /\ DataInv /\ AllSound /\ LimInv /\ Sound(rd[r], stage, current)
  BY DEF Inv, AllSound
<1>2. UNCHANGED <<data, limiter, stalled>> /\ rd[r].pc \in {"resolve", "list", "open", "mark"}
  BY DEF Reading, Resolve, ListNames, List, End, Mark, OpenOne, Open
<1>3. \E c \in ReaderT : Becomes(r, c)
  BY <1>1, ReadingBecomes
<1>4. PICK c \in ReaderT : Becomes(r, c)
  BY <1>3
<1>5. Types' /\ DataInv' /\ AllSound'
  <2>1. sem' \in Int /\ queue' \in Seq(Request) /\ waiting' \in Int /\ raced' \in BOOLEAN
        /\ stalled' \in SUBSET Request
    BY <1>1, <1>2 DEF Types, limiter
  <2> QED BY <1>1, <1>2, <1>4, <2>1, OneReplaced DEF Becomes
<1>6. CASE r \in Request
  <2>1. rd[r].pc # "mark" /\ sem \in Int /\ sem <= Cap
    BY <1>1, <1>6 DEF LimInv, NoMarks, SlotInv, Types
  <2>2. c.pc # "mark" /\ c.pc \in ReadPc /\ rd' = [rd EXCEPT ![r] = c]
    BY <1>4, <1>6 DEF Becomes
  <2>3. One(c.pc, ServedPc) = 1 /\ One(rd[r].pc, ServedPc) = 1
    BY <1>2, <2>1, <2>2 DEF One, ServedPc, ReadPc
  <2>4. Moves(r, c)
    BY <1>2, <2>1, <2>2, <2>3 DEF Moves, QueuedPc, StorePc, ReadPc, limiter
  <2> QED BY <1>1, <1>4, <1>5, <1>6, <2>4, MovesKeeps DEF Inv
<1>7. CASE r \in Tool
  <2>1. LimInv'
    BY <1>1, <1>2, <1>4, <1>7, ToolKeeps DEF Becomes
  <2> QED BY <1>5, <2>1 DEF Inv
<1> QED BY <1>6, <1>7 DEF Reader

LEMMA ArriveStep ==
  ASSUME Inv, NEW r \in Reader, Arrive(r)
  PROVE  Inv'
<1>1. Types /\ DataInv /\ AllSound /\ LimInv /\ Idle(rd[r]) /\ rd[r].pc = "off"
  BY IdleBefore DEF Inv, Arrive
<1>2. PICK pc \in {"look", "resolve"} : /\ rd' = [rd EXCEPT ![r] = At(rd[r], pc)]
                                        /\ r \in Request => pc = "look"
  BY DEF Arrive, Goto, At
<1>3. PICK c : c = At(rd[r], pc)
  OBVIOUS
<1>4. Idle(c) /\ c \in ReaderT /\ c.pc = pc /\ rd' = [rd EXCEPT ![r] = c]
  BY <1>1, <1>2, <1>3, IdleAt DEF PC, Idle
<1>5. UNCHANGED <<data, limiter, stalled>>
  BY DEF Arrive
<1>6. Types' /\ DataInv' /\ AllSound'
  <2>1. sem' \in Int /\ queue' \in Seq(Request) /\ waiting' \in Int /\ raced' \in BOOLEAN
        /\ stalled' \in SUBSET Request
    BY <1>1, <1>5 DEF Types, limiter
  <2> QED BY <1>1, <1>4, <1>5, <2>1, IdleReplaced
<1>7. CASE r \in Request
  <2>1. One(c.pc, ServedPc) = 0 /\ One(rd[r].pc, ServedPc) = 0 /\ sem \in Int /\ sem <= Cap
    BY <1>1, <1>2, <1>4, <1>7 DEF One, ServedPc, LimInv, SlotInv, Types
  <2>2. c.pc = "look" /\ UNCHANGED <<sem, queue, waiting, raced>>
    BY <1>2, <1>4, <1>5, <1>7 DEF limiter
  <2>3. Moves(r, c)
    BY <1>1, <1>4, <2>1, <2>2 DEF Moves, QueuedPc, StorePc
  <2> QED BY <1>1, <1>4, <1>6, <1>7, <2>3, MovesKeeps DEF Inv
<1>8. CASE r \in Tool
  <2>1. LimInv'
    BY <1>1, <1>4, <1>5, <1>8, ToolKeeps
  <2> QED BY <1>6, <2>1 DEF Inv
<1> QED BY <1>7, <1>8 DEF Reader

LEMMA DisconnectStep ==
  ASSUME Inv, NEW h \in Request, Disconnect(h)
  PROVE  Inv'
<1>1. Types /\ DataInv /\ AllSound /\ LimInv /\ h \in Reader /\ rd[h].pc = "open"
  BY DEF Inv, Reader, Disconnect
<1>2. rd' = [rd EXCEPT ![h] = Finished] /\ UNCHANGED <<data, limiter, stalled>>
  BY DEF Disconnect, Done, Finished
<1>3. Idle(Finished) /\ Finished \in ReaderT /\ Finished.pc = "done"
  BY IdleOff, OffFields
<1>4. Types' /\ DataInv' /\ AllSound'
  <2>1. sem' \in Int /\ queue' \in Seq(Request) /\ waiting' \in Int /\ raced' \in BOOLEAN
        /\ stalled' \in SUBSET Request
    BY <1>1, <1>2 DEF Types, limiter
  <2> QED BY <1>1, <1>2, <1>3, <2>1, IdleReplaced
<1>5. One(Finished.pc, ServedPc) = 1 /\ One(rd[h].pc, ServedPc) = 1 /\ sem \in Int /\ sem <= Cap
  BY <1>1, <1>3 DEF One, ServedPc, LimInv, SlotInv, Types
<1>6. Moves(h, Finished)
  BY <1>1, <1>2, <1>3, <1>5 DEF Moves, QueuedPc, StorePc, limiter
<1> QED BY <1>1, <1>3, <1>4, <1>6, MovesKeeps DEF Inv

LEMMA ExitStep ==
  ASSUME Inv, NEW x \in Tool, Exit(x)
  PROVE  Inv'
<1>1. Types /\ DataInv /\ AllSound /\ LimInv /\ x \in Reader
  BY DEF Inv, Reader
<1>2. rd' = [rd EXCEPT ![x] = Off] /\ UNCHANGED <<data, limiter, stalled>>
  BY DEF Exit
<1>3. sem' \in Int /\ queue' \in Seq(Request) /\ waiting' \in Int /\ raced' \in BOOLEAN
      /\ stalled' \in SUBSET Request
  BY <1>1, <1>2 DEF Types, limiter
<1>4. LimInv'
  BY <1>1, <1>2, ToolKeeps
<1> QED BY <1>1, <1>2, <1>3, <1>4, IdleOff, IdleReplaced DEF Inv

LEMMA RestartStep ==
  ASSUME Inv, PanelRestart
  PROVE  Inv'
<1>1. /\ sem' = 0 /\ queue' = <<>> /\ waiting' = 0 /\ raced' = FALSE /\ stalled' = {}
      /\ UNCHANGED data /\ rd \in [Reader -> ReaderT]
      /\ rd' = [r \in Reader |-> IF r \in Request THEN Off ELSE rd[r]]
  BY DEF Inv, PanelRestart, Types
<1>2. rd' \in [Reader -> ReaderT]
  BY <1>1, OffFields
<1>3. AllSound'
  <2>1. Sound(Off, stage, current)
    BY IdleOff, FreshIsSound DEF Idle
  <2> QED BY <1>1, <2>1 DEF Inv, AllSound, data
<1>4. Types' /\ DataInv'
  <2>1. Types'
    <3>1. sem' \in Int /\ queue' \in Seq(Request) /\ waiting' \in Int
      BY <1>1
    <3>2. raced' \in BOOLEAN /\ stalled' \in SUBSET Request
      BY <1>1
    <3>3. UNCHANGED <<stage, there, current>>
      BY <1>1 DEF data
    <3> QED BY <1>2, <3>1, <3>2, <3>3 DEF Inv, Types
  <2>2. DataInv'
    BY <1>1 DEF Inv, DataInv, data
  <2> QED BY <2>1, <2>2
<1>5. \A h \in Request : rd'[h].pc = "off"
  BY <1>1, OffFields DEF Reader
<1>6. \A S : "off" \notin S => AtOneOf(rd', S) = {}
  BY <1>5 DEF AtOneOf
<1>7. AtOneOf(rd', ServedPc) = {} /\ AtOneOf(rd', QueuedPc) = {} /\ AtOneOf(rd', StorePc) = {}
  BY <1>6 DEF ServedPc, QueuedPc, StorePc
<1>8. LimInv'
  <2>1. 0 <= Cap /\ Cardinality({}) = 0
    BY FS_EmptySet
  <2>2. SlotInv'
    BY <1>1, <1>7, <2>1 DEF SlotInv
  <2>3. CountInv'
    BY <1>1, <1>7, <2>1 DEF CountInv
  <2>4. QueueInv' /\ NoMarks'
    BY <1>1, <1>5 DEF QueueInv, NoMarks
  <2> QED BY <2>2, <2>3, <2>4 DEF LimInv
<1> QED BY <1>3, <1>4, <1>8 DEF Inv

LEMMA StallStep ==
  ASSUME Inv, NEW h \in Request, Stall(h)
  PROVE  Inv'
<1>1. UNCHANGED <<data, limiter, rd>> /\ stalled' = stalled \cup {h}
  BY DEF Stall
<1>2. Types'
  BY <1>1 DEF Inv, Types, data, limiter
<1>3. DataInv' /\ AllSound'
  BY <1>1 DEF Inv, DataInv, AllSound, data
<1>4. LimInv'
  BY <1>1, StaysKeeps DEF Inv
<1> QED BY <1>2, <1>3, <1>4 DEF Inv

LEMMA StepInv == Inv /\ [Next]_vars => Inv'
<1> SUFFICES ASSUME Inv, [Next]_vars PROVE Inv'
  OBVIOUS
<1>1. CASE Clients
  BY <1>1, ArriveStep, StallStep, DisconnectStep, RestartStep DEF Clients
<1>2. CASE UNCHANGED vars
  BY <1>2 DEF Inv, Types, DataInv, AllSound, LimInv, SlotInv, QueueInv, CountInv, NoMarks,
              vars, data, limiter
<1> QED BY <1>1, <1>2, KernelStep, LimiterStep, ReadingStep, ExitStep DEF Next

LEMMA InvAlways == Spec => []Inv
BY InitInv, StepInv, PTL DEF Spec
-----------------------------------------------------------------------------
LEMMA InvTypes == Inv => TypeOK
<1> SUFFICES ASSUME Inv PROVE TypeOK
  OBVIOUS
<1>1. sem = Cardinality(Holders) /\ sem <= Cap
  BY DEF Inv, LimInv, SlotInv, AtOneOf, ServedPc, Holders
<1>2. sem \in Nat
  BY AtOneOfFinite DEF Inv, LimInv, SlotInv
<1>3. sem \in 0 .. Cap
  BY <1>1, <1>2
<1> QED BY <1>1, <1>3 DEF Inv, Types, TypeOK

LEMMA InvCounts == Inv => QueueCounts
BY DEF Inv, LimInv, CountInv, AtOneOf, QueuedPc, Queued, QueueCounts

LEMMA InvVersion == Inv => OneVersion
<1> SUFFICES ASSUME Inv, NEW r \in Reader, rd[r].pc = "sent"
             PROVE  /\ rd[r].kind # "history" /\ ~rd[r].moved =>
                         OneOf(r) /\ (rd[r].frail \/ Got(r, Asked(r)))
                    /\ rd[r].kind = "export" /\ ~rd[r].frail => Got(r, Path \cap In({}))
                    /\ rd[r].kind = "history" /\ ~rd[r].moved /\ ~rd[r].frail =>
                         rd[r].dir \in rd[r].list \cup {0}
  BY DEF OneVersion
<1>1. Types /\ Sound(rd[r], stage, current)
  BY DEF Inv, AllSound
<1> QED BY <1>1, SoundGives

(***************************************************************************)
(* The values in the limiter's channel are always those of the requests    *)
(* being served, never more than it holds: acquire and release             *)
(* (cmd/edge-panel) balance however a handler ends.                        *)
(***************************************************************************)
THEOREM ReadersTypesHold == Spec => []TypeOK
BY InvAlways, InvTypes, PTL

(***************************************************************************)
(* Until two of its unlocked updates overlap, mu.waiting is the number of  *)
(* requests between joining the queue and leaving it.                      *)
(***************************************************************************)
THEOREM QueueIsCounted == Spec => []QueueCounts
BY InvAlways, InvCounts, PTL

(***************************************************************************)
(* Whatever the kernel assembles, switches to, rolls back and deletes      *)
(* meanwhile, an archive, a listing or an export that is sent as complete  *)
(* is of one version unless its link or name came to stand for another,    *)
(* and lacks a file only if the version was not all there when the reading *)
(* began or when it ended; an export that began on a whole version lacks   *)
(* at most files of its sub-directories.                                   *)
(***************************************************************************)
THEOREM OneVersionIsRead == Spec => []OneVersion
BY InvAlways, InvVersion, PTL
-----------------------------------------------------------------------------
(* No request waits for nothing.                                           *)

(***************************************************************************)
(* Who is blocked is in the queue, and there is a queue only at a full     *)
(* channel.                                                                *)
(***************************************************************************)
InQueue(h) == \E i \in 1 .. Len(queue) : queue[i] = h

WaitInv ==
  /\ \A h \in Request : rd[h].pc = "blocked" => InQueue(h)
  /\ queue # <<>> => sem = Cap

(***************************************************************************)
(* A step that leaves the queue alone, blocks nobody, and moves the channel*)
(* only while nobody is queued.                                            *)
(***************************************************************************)
LEMMA WaitStays ==
  ASSUME WaitInv, queue' = queue, sem' = sem \/ queue = <<>>,
         \A h \in Request : rd'[h].pc = "blocked" => rd[h].pc = "blocked"
  PROVE  WaitInv'
BY DEF WaitInv, InQueue

LEMMA PcAfter ==
  ASSUME Types, NEW r \in Reader, NEW c, rd' = [rd EXCEPT ![r] = c]
  PROVE  rd'[r].pc = c.pc /\ \A q \in Reader : q # r => rd'[q] = rd[q]
BY DEF Types

LEMMA SendWaits ==
  ASSUME Types, LimInv, WaitInv, NEW h \in Request, Send(h)
  PROVE  WaitInv'
<1>1. h \in Reader /\ rd[h] \in ReaderT /\ queue \in Seq(Request) /\ sem \in Int
  BY DEF Types, Reader
<1>2. CASE sem < Cap
  <2>1. rd' = [rd EXCEPT ![h] = At(rd[h], "dec")] /\ queue' = queue
    BY <1>2 DEF Send, Goto, At
  <2>2. At(rd[h], "dec").pc = "dec"
    BY <1>1, AtFields DEF PC
  <2>3. rd'[h].pc = "dec" /\ \A q \in Reader : q # h => rd'[q] = rd[q]
    BY <1>1, <2>1, <2>2, PcAfter
  <2>4. queue = <<>>
    BY <1>1, <1>2 DEF WaitInv
  <2> QED BY <2>1, <2>3, <2>4, WaitStays DEF Reader
<1>3. CASE ~(sem < Cap)
  <2>1. rd' = [rd EXCEPT ![h] = At(rd[h], "blocked")] /\ queue' = Append(queue, h)
        /\ sem' = sem
    BY <1>3 DEF Send, Goto, At
  <2>2. \A q \in Reader : q # h => rd'[q] = rd[q]
    BY <1>1, <2>1, PcAfter
  <2>3. /\ Len(queue') = Len(queue) + 1 /\ queue'[Len(queue) + 1] = h /\ Len(queue) \in Nat
        /\ \A i \in 1 .. Len(queue) : queue'[i] = queue[i]
    BY <1>1, <2>1
  <2>4. InQueue(h)'
    BY <2>3 DEF InQueue
  <2>5. ASSUME NEW q \in Request, q # h, rd'[q].pc = "blocked" PROVE InQueue(q)'
    <3>1. InQueue(q)
      BY <2>2, <2>5 DEF WaitInv, Reader
    <3> QED BY <2>3, <3>1 DEF InQueue
  <2>6. sem' = Cap
    BY <1>1, <1>3, <2>1 DEF LimInv, SlotInv
  <2> QED BY <2>4, <2>5, <2>6 DEF WaitInv
<1> QED BY <1>2, <1>3

(***************************************************************************)
(* The one that a release wakes is the head of the queue; whoever else is  *)
(* blocked moves up.                                                       *)
(***************************************************************************)
LEMMA ReleaseWaits ==
  ASSUME Types, AllSound, LimInv, WaitInv, NEW h \in Request, Release(h)
  PROVE  WaitInv'
<1>1. h \in Reader /\ queue \in Seq(Request) /\ rd \in [Reader -> ReaderT]
  BY DEF Types, Reader
<1>2. CASE queue = <<>>
  <2>1. rd' = [rd EXCEPT ![h] = Off] /\ queue' = queue
    BY <1>2 DEF Release
  <2>2. rd'[h].pc = "off" /\ \A q \in Reader : q # h => rd'[q] = rd[q]
    BY <1>1, <2>1, OffFields
  <2> QED BY <1>2, <2>1, <2>2, WaitStays DEF Reader
<1>3. CASE queue # <<>>
  <2>1. queue' = Tail(queue) /\ sem' = sem
    BY <1>3 DEF Release
  <2>2. PICK g, c : g = queue[1] /\ Wakes(h, g, c)
    <3>1. PICK c : Wakes(h, Head(queue), c)
      BY <1>3, ReleaseKeeps
    <3>2. Head(queue) = queue[1]
      BY <1>1, <1>3
    <3> QED BY <3>1, <3>2
  <2>3. g \in Reader /\ g # h /\ rd' = [[rd EXCEPT ![h] = Off] EXCEPT ![g] = c] /\ c.pc = "dec"
    BY <2>2 DEF Wakes, Reader
  <2>4. /\ rd'[g].pc = "dec" /\ rd'[h].pc = "off"
        /\ \A q \in Reader : q \notin {g, h} => rd'[q] = rd[q]
    BY <1>1, <2>3, OffFields
  <2>5. Len(queue) \in Nat /\ Len(queue') = Len(queue) - 1
        /\ \A i \in 1 .. Len(queue') : queue'[i] = queue[i + 1]
    BY <1>1, <1>3, <2>1
  <2>6. ASSUME NEW q \in Request, rd'[q].pc = "blocked" PROVE InQueue(q)'
    <3>1. q # g /\ q # h
      BY <2>4, <2>6
    <3>2. PICK i \in 1 .. Len(queue) : queue[i] = q
      BY <2>4, <2>6, <3>1 DEF WaitInv, InQueue, Reader
    <3>3. i # 1
      BY <2>2, <3>1, <3>2
    <3>4. i - 1 \in 1 .. Len(queue') /\ queue'[i - 1] = q
      BY <2>5, <3>2, <3>3
    <3> QED BY <3>4 DEF InQueue
  <2> QED BY <1>3, <2>1, <2>6 DEF WaitInv
<1> QED BY <1>2, <1>3

LEMMA WaitStep == Inv /\ WaitInv /\ [Next]_vars => WaitInv'
<1> SUFFICES ASSUME Types, DataInv, AllSound, LimInv, WaitInv, [Next]_vars PROVE WaitInv'
  BY DEF Inv
<1> USE DEF Reader
<1>1. ASSUME NEW r \in Reader, NEW c, c.pc # "blocked", rd' = [rd EXCEPT ![r] = c],
             queue' = queue, sem' = sem \/ queue = <<>>
      PROVE  WaitInv'
  <2>1. rd'[r].pc = c.pc /\ \A q \in Reader : q # r => rd'[q] = rd[q]
    BY <1>1, PcAfter
  <2> QED BY <1>1, <2>1, WaitStays
<1>a. \A r \in Reader : rd[r] \in ReaderT
  BY DEF Types
<1>b. ASSUME NEW r \in Reader, NEW pc \in PC \ {"blocked"}, Goto(r, pc),
             queue' = queue, sem' = sem \/ queue = <<>>
      PROVE  WaitInv'
  <2>1. rd' = [rd EXCEPT ![r] = At(rd[r], pc)]
    BY <1>b DEF Goto, At
  <2>2. At(rd[r], pc).pc = pc
    BY <1>a, AtFields
  <2> QED BY <1>1, <1>b, <2>1, <2>2
<1>2. ASSUME NEW h \in Request, Look(h) \/ CheckQueue(h) \/ Try(h)
      PROVE  WaitInv'
  <2>1. PICK c : Idle(c) /\ Moves(h, c)
    BY <1>2, LookMoves, TryMoves
  <2>2. rd[h].pc \notin QueuedPc
    BY <1>2 DEF Look, CheckQueue, Try, QueuedPc
  <2>3. c.pc # "blocked" /\ rd' = [rd EXCEPT ![h] = c] /\ queue' = queue
    BY <2>1, <2>2 DEF Moves, QueuedPc
  <2>4. sem' = sem \/ sem < Cap
    BY <1>2 DEF Look, CheckQueue, Try, limiter
  <2>5. sem' = sem \/ queue = <<>>
    BY <2>4 DEF WaitInv, Types
  <2> QED BY <1>1, <2>3, <2>5
<1>3. ASSUME NEW h \in Request, LoadCount(h) \/ StoreCount(h)
      PROVE  WaitInv'
  <2>1. PICK pc \in {"incstore", "decstore", "send", "resolve"}, n \in Int :
          rd' = [rd EXCEPT ![h] = Reg(rd[h], n, pc)]
    <3>1. CASE LoadCount(h)
      <4>1. PICK pc \in StorePc : rd' = [rd EXCEPT ![h] = Reg(rd[h], waiting, pc)]
        BY <3>1 DEF LoadCount, Reg, StorePc, Types
      <4>2. waiting \in Int
        BY DEF Types
      <4> QED BY <4>1, <4>2 DEF StorePc
    <3>2. CASE StoreCount(h)
      <4>1. PICK pc \in {"send", "resolve"} : rd' = [rd EXCEPT ![h] = Reg(rd[h], 0, pc)]
        BY <3>2 DEF StoreCount, Reg, Types
      <4>2. pc \in {"incstore", "decstore", "send", "resolve"} /\ 0 \in Int
        BY <4>1
      <4> QED BY <4>1, <4>2, Zenon
    <3> QED BY <1>3, <3>1, <3>2
  <2>2. Reg(rd[h], n, pc).pc = pc
    <3>1. pc \in PC
      BY DEF PC
    <3>2. rd[h] \in ReaderT
      BY <1>a
    <3> QED BY <3>1, <3>2, RegFields
  <2>3. UNCHANGED <<queue, sem>>
    BY <1>3 DEF LoadCount, StoreCount
  <2> QED BY <1>1, <2>1, <2>2, <2>3
<1>4. ASSUME NEW h \in Request, Send(h) \/ Release(h)
      PROVE  WaitInv'
  BY <1>4, SendWaits, ReleaseWaits
<1>5. ASSUME NEW r \in Reader, Reading(r)
      PROVE  WaitInv'
  <2>1. PICK c \in ReaderT : Becomes(r, c)
    BY <1>5, ReadingBecomes DEF AllSound
  <2>2. c.pc # "blocked" /\ rd' = [rd EXCEPT ![r] = c]
    BY <2>1 DEF Becomes, ReadPc
  <2>3. UNCHANGED limiter
    BY <1>5 DEF Reading, Resolve, ListNames, List, End, Mark, OpenOne, Open
  <2> QED BY <1>1, <2>2, <2>3 DEF limiter
<1>6. ASSUME NEW r \in Reader, Arrive(r)
      PROVE  WaitInv'
  <2>1. Goto(r, "look") \/ Goto(r, "resolve")
    BY <1>6 DEF Arrive
  <2> QED BY <1>6, <1>b, <2>1 DEF Arrive, limiter, PC
<1>7. ASSUME NEW r \in Reader, Disconnect(r) \/ Exit(r)
      PROVE  WaitInv'
  <2>1. rd' = [rd EXCEPT ![r] = Finished] \/ rd' = [rd EXCEPT ![r] = Off]
    BY <1>7 DEF Disconnect, Exit, Done, Finished
  <2> QED BY <1>1, <1>7, <2>1, OffFields DEF Disconnect, Exit, limiter
<1>8. CASE PanelRestart
  <2>1. queue' = <<>> /\ \A h \in Request : rd'[h].pc = "off"
    BY <1>8, OffFields DEF PanelRestart
  <2> QED BY <2>1 DEF WaitInv
<1>9. CASE Kernel
  BY <1>9, KernelStep, WaitStays DEF Inv, limiter
<1>10. CASE UNCHANGED <<limiter, rd>>
  BY <1>10, WaitStays DEF limiter
<1> QED
  BY <1>2, <1>3, <1>4, <1>5, <1>6, <1>7, <1>8, <1>9, <1>10
     DEF Next, Clients, Limiter, Stall, vars

(***************************************************************************)
(* A request is blocked only while every slot is taken, and a slot that is *)
(* taken belongs to a request being served (acquire, release): none waits  *)
(* for a slot nobody holds.                                                *)
(***************************************************************************)
WaitsForAHolder ==
  (\E h \in Request : rd[h].pc = "blocked") => Cardinality(Holders) = Cap /\ Holders # {}

(***************************************************************************)
(* No interleaving of arrivals, releases and unlocked updates of the count *)
(* leaves a request blocked beside a free slot, nor all of them blocked:   *)
(* the handlers cannot deadlock in the limiter.                            *)
(***************************************************************************)
THEOREM NobodyWaitsForNothing == Spec => []WaitsForAHolder
<1>1. Init => WaitInv
  BY OffFields DEF Init, WaitInv, Reader
<1>2. Inv /\ WaitInv => WaitsForAHolder
  <2> SUFFICES ASSUME Inv, WaitInv, NEW h \in Request, rd[h].pc = "blocked"
               PROVE  Cardinality(Holders) = Cap /\ Holders # {}
    BY DEF WaitsForAHolder
  <2>1. queue \in Seq(Request) /\ \E i \in 1 .. Len(queue) : queue[i] = h
    BY DEF Inv, Types, WaitInv, InQueue
  <2>2. queue # <<>>
    BY <2>1
  <2>3. Cardinality(Holders) = Cap
    BY <2>2 DEF WaitInv, Inv, LimInv, SlotInv, AtOneOf, ServedPc, Holders
  <2> QED BY <2>3, FS_EmptySet
<1> QED BY <1>1, <1>2, InitInv, StepInv, WaitStep, PTL DEF Spec
-----------------------------------------------------------------------------
(* Every step of a handler brings it nearer to its end.                    *)

(***************************************************************************)
(* How many steps a handler has before it, those over the files of its     *)
(* list not counted.                                                       *)
(***************************************************************************)
Left(pc) ==
  CASE pc = "look"             -> 13
    [] pc = "full"             -> 12
    [] pc = "try"              -> 11
    [] pc = "inc"              -> 10
    [] pc = "incstore"         -> 9
    [] pc = "send"             -> 8
    [] pc = "blocked"          -> 7
    [] pc = "dec"              -> 6
    [] pc = "decstore"         -> 5
    [] pc = "resolve"          -> 4
    [] pc \in {"list", "mark"} -> 3
    [] pc = "open"             -> 2
    [] pc \in {"sent", "done"} -> 1
    [] pc = "off"              -> 0

Lower(h) == Left(rd'[h].pc) < Left(rd[h].pc)

LEMMA GotoPc ==
  ASSUME Types, NEW r \in Reader, NEW pc \in PC, Goto(r, pc)
  PROVE  rd'[r].pc = pc /\ \A q \in Reader : q # r => rd'[q] = rd[q]
<1>1. rd' = [rd EXCEPT ![r] = At(rd[r], pc)]
  BY DEF Goto, At
<1>2. At(rd[r], pc).pc = pc
  BY AtFields DEF Types
<1> QED BY <1>1, <1>2, PcAfter

LEMMA DonePc ==
  ASSUME Types, NEW r \in Reader, Done(r) \/ rd' = [rd EXCEPT ![r] = Off]
  PROVE  rd'[r].pc \in {"done", "off"} /\ \A q \in Reader : q # r => rd'[q] = rd[q]
BY OffFields, PcAfter DEF Done, Finished

(***************************************************************************)
(* The limiter: the step of one handler may free another one, too.         *)
(***************************************************************************)
LEMMA LimiterLowers ==
  ASSUME Types, DataInv, AllSound, LimInv, NEW h \in Request, Limiter(h)
  PROVE  Lower(h) /\ \A q \in Request : q # h => rd'[q] = rd[q] \/ Lower(q)
<1> USE DEF Reader, Lower
<1>a. rd[h] \in ReaderT /\ h \in Reader
  BY DEF Types
<1>1. CASE Look(h)
  <2>1. PICK pc \in {"full", "try"} : Goto(h, pc)
    BY <1>1 DEF Look
  <2>2. rd[h].pc = "look"
    BY <1>1 DEF Look
  <2> QED BY <2>1, <2>2, GotoPc DEF PC, Left
<1>2. CASE CheckQueue(h)
  <2>1. rd[h].pc = "full" /\ (Goto(h, "try") \/ rd' = [rd EXCEPT ![h] = Off])
    BY <1>2 DEF CheckQueue, Goto
  <2>2. rd'[h].pc \in {"try", "done", "off"} /\ \A q \in Reader : q # h => rd'[q] = rd[q]
    BY <2>1, GotoPc, DonePc DEF PC
  <2> QED BY <2>1, <2>2 DEF Left
<1>3. CASE Try(h)
  <2>1. PICK pc \in {"resolve", "inc"} : Goto(h, pc)
    BY <1>3 DEF Try
  <2>2. rd[h].pc = "try"
    BY <1>3 DEF Try
  <2> QED BY <2>1, <2>2, GotoPc DEF PC, Left
<1>4. CASE Send(h)
  <2>1. PICK pc \in {"dec", "blocked"} : Goto(h, pc)
    BY <1>4 DEF Send
  <2>2. rd[h].pc = "send"
    BY <1>4 DEF Send
  <2> QED BY <2>1, <2>2, GotoPc DEF PC, Left
<1>5. CASE LoadCount(h)
  <2>1. PICK pc \in StorePc : /\ rd' = [rd EXCEPT ![h] = Reg(rd[h], waiting, pc)]
                              /\ pc = "incstore" <=> rd[h].pc = "inc"
    BY <1>5 DEF LoadCount, Reg, StorePc, Types
  <2>2. Reg(rd[h], waiting, pc).pc = pc
    <3>1. pc \in PC /\ waiting \in Int
      BY DEF Types, StorePc, PC
    <3> QED BY <1>a, <3>1, RegFields
  <2>3. rd'[h].pc = pc /\ \A q \in Reader : q # h => rd'[q] = rd[q]
    BY <2>1, <2>2, PcAfter
  <2>4. rd[h].pc \in {"inc", "dec"}
    BY <1>5 DEF LoadCount
  <2> QED BY <2>1, <2>3, <2>4 DEF Left, StorePc
<1>6. CASE StoreCount(h)
  <2>1. PICK pc \in {"send", "resolve"} :
          /\ rd' = [rd EXCEPT ![h] = Reg(rd[h], 0, pc)]
          /\ rd[h].pc = IF pc = "send" THEN "incstore" ELSE "decstore"
    BY <1>6 DEF StoreCount, Reg, Types
  <2>2. Reg(rd[h], 0, pc).pc = pc
    <3>1. pc \in PC /\ 0 \in Int
      BY <2>1 DEF PC
    <3> QED BY <1>a, <3>1, RegFields
  <2>3. rd'[h].pc = pc /\ \A q \in Reader : q # h => rd'[q] = rd[q]
    BY <2>1, <2>2, PcAfter
  <2> QED BY <2>1, <2>3 DEF Left
<1>7. CASE Release(h) /\ queue = <<>>
  <2>1. rd[h].pc \in {"sent", "done"} /\ rd' = [rd EXCEPT ![h] = Off]
    BY <1>7 DEF Release
  <2>2. rd'[h].pc = "off" /\ \A q \in Reader : q # h => rd'[q] = rd[q]
    BY <2>1, OffFields, PcAfter
  <2> QED BY <2>1, <2>2 DEF Left
<1>8. CASE Release(h) /\ queue # <<>>
  <2>1. PICK c : Wakes(h, Head(queue), c)
    BY <1>8, ReleaseKeeps
  <2>2. PICK g \in Request : /\ g # h /\ c.pc = "dec" /\ g = Head(queue)
                             /\ rd' = [[rd EXCEPT ![h] = Off] EXCEPT ![g] = c]
    BY <2>1 DEF Wakes
  <2>3. rd[g].pc = "blocked"
    <3>1. queue \in Seq(Request) /\ g = queue[1] /\ 1 \in 1 .. Len(queue)
      BY <1>8, <2>2 DEF Types
    <3> QED BY <3>1 DEF LimInv, QueueInv
  <2>4. /\ rd'[g].pc = "dec" /\ rd'[h].pc = "off"
        /\ \A q \in Reader : q \notin {g, h} => rd'[q] = rd[q]
    BY <1>a, <2>2, OffFields DEF Types
  <2>5. rd[h].pc \in {"sent", "done"}
    BY <1>8 DEF Release
  <2> QED BY <2>3, <2>4, <2>5 DEF Left
<1> QED BY <1>1, <1>2, <1>3, <1>4, <1>5, <1>6, <1>7, <1>8 DEF Limiter

(***************************************************************************)
(* What a list leads to: its entries and those in them.                    *)
(***************************************************************************)
Ahead(m) == {e \in Entry : e \in m \/ \E d \in Above[e] : d \in m}

(***************************************************************************)
(* Reading: the handler moves on, or has less ahead of it.                 *)
(***************************************************************************)
Shorter(h) ==
  /\ rd'[h].pc = rd[h].pc
  /\ Cardinality(Ahead(rd'[h].list)) < Cardinality(Ahead(rd[h].list))

LEMMA LessAhead ==
  ASSUME NEW m, NEW n, Ahead(n) \subseteq Ahead(m), NEW e \in Ahead(m), e \notin Ahead(n)
  PROVE  Cardinality(Ahead(n)) < Cardinality(Ahead(m))
<1>1. IsFiniteSet(Ahead(m)) /\ IsFiniteSet(Ahead(n))
  BY TreeAssumption, FS_Subset DEF Ahead
<1>2. Ahead(n) \subseteq Ahead(m) \ {e}
  OBVIOUS
<1>3. /\ Cardinality(Ahead(m) \ {e}) = Cardinality(Ahead(m)) - 1
      /\ IsFiniteSet(Ahead(m) \ {e})
  BY <1>1, FS_RemoveElement
<1>4. Cardinality(Ahead(n)) <= Cardinality(Ahead(m) \ {e})
  BY <1>2, <1>3, FS_Subset
<1> QED BY <1>1, <1>3, <1>4, FS_CardinalityType

LEMMA DroppedAhead ==
  ASSUME NEW m \in SUBSET Entry, Apart(m), NEW e \in m, NEW n \in SUBSET (m \ {e})
  PROVE  Cardinality(Ahead(n)) < Cardinality(Ahead(m))
<1>1. Ahead(n) \subseteq Ahead(m) /\ e \in Ahead(m) /\ e \notin Ahead(n)
  BY DEF Ahead, Apart
<1> QED BY <1>1, LessAhead

LEMMA EnteredAhead ==
  ASSUME NEW m \in SUBSET Entry, Apart(m), NEW e \in m, NEW x \in SUBSET In(Into(e))
  PROVE  Cardinality(Ahead((m \ {e}) \cup x)) < Cardinality(Ahead(m))
<1>1. \A y \in x : Above[y] = Above[e] \cup {e} /\ y \in Entry
  BY DEF In, Into
<1>2. \A y \in Entry : \A d \in Above[y] : d \notin Above[d] /\ Above[d] \subseteq Above[y]
  BY TreeAssumption
<1>3. ASSUME NEW y \in Ahead((m \ {e}) \cup x) PROVE y \in Ahead(m) /\ y # e
  <2>1. y \in Entry /\ (y \in (m \ {e}) \cup x \/ \E d \in Above[y] : d \in (m \ {e}) \cup x)
    BY DEF Ahead
  <2>2. CASE y \in m /\ y # e
    BY <2>1, <2>2 DEF Ahead
  <2>3. CASE y \in x
    <3>1. e \in Above[y]
      BY <1>1, <2>3
    <3>2. y # e
      BY <1>2, <2>1, <3>1
    <3> QED BY <2>1, <3>1, <3>2 DEF Ahead
  <2>4. ASSUME NEW d \in Above[y], d \in m, d # e PROVE y \in Ahead(m) /\ y # e
    BY <2>1, <2>4 DEF Ahead, Apart
  <2>5. ASSUME NEW d \in Above[y], d \in x PROVE y \in Ahead(m) /\ y # e
    <3>1. e \in Above[d] /\ e \in Above[y]
      BY <1>1, <1>2, <2>1, <2>5
    <3>2. y # e
      BY <1>2, <2>1, <3>1
    <3> QED BY <2>1, <3>1, <3>2 DEF Ahead
  <2> QED BY <2>1, <2>2, <2>3, <2>4, <2>5
<1>4. e \in Ahead(m)
  BY DEF Ahead
<1> QED BY <1>3, <1>4, LessAhead

LEMMA OpenLowers ==
  ASSUME Types, NEW h \in Request, Sound(rd[h], stage, current), NEW e \in Entry, Open(h, e)
  PROVE  (Lower(h) \/ Shorter(h)) /\ \A q \in Request : q # h => rd'[q] = rd[q]
<1> USE DEF Reader
<1>1. /\ rd[h] \in ReaderT /\ rd[h].pc = "open" /\ e \in rd[h].list
      /\ rd[h].list \subseteq Entry /\ Apart(rd[h].list)
  <2>1. rd[h].pc = "open" /\ e \in rd[h].list /\ rd[h] \in ReaderT
    BY DEF Open, Types
  <2>2. rd[h].kind \in {"archive", "export", "files"}
    BY <2>1 DEF Sound, Jobs
  <2> QED BY <2>1, <2>2 DEF Sound, SoundWalk
<1>2. CASE Done(h)
  <2>1. rd'[h].pc \in {"done", "off"} /\ \A q \in Reader : q # h => rd'[q] = rd[q]
    BY <1>2, DonePc
  <2> QED BY <1>1, <2>1 DEF Left, Lower
<1>3. ASSUME NEW m, Cardinality(Ahead(m)) < Cardinality(Ahead(rd[h].list)),
             \/ rd' = [rd EXCEPT ![h].list = m]
             \/ \E g : rd' = [rd EXCEPT ![h].list = m, ![h].got = g]
      PROVE  Shorter(h) /\ \A q \in Request : q # h => rd'[q] = rd[q]
  <2>1. rd'[h].pc = rd[h].pc /\ rd'[h].list = m
    BY <1>1, <1>3 DEF Types, ReaderT
  <2>2. \A q \in Request : q # h => rd'[q] = rd[q]
    BY <1>1, <1>3 DEF Types
  <2> QED BY <1>3, <2>1, <2>2 DEF Shorter
<1>4. CASE Keep(h, e, Place(h))
  <2>1. PICK x \in SUBSET In(Into(e)) : x = Inside(h, e, Place(h))
    BY DEF Inside
  <2>2. PICK m : m = (rd[h].list \ {e}) \cup x
    OBVIOUS
  <2>3. Cardinality(Ahead(m)) < Cardinality(Ahead(rd[h].list))
    BY <1>1, <2>2, EnteredAhead
  <2>4. \E g : rd' = [rd EXCEPT ![h].list = m, ![h].got = g]
    BY <1>4, <2>1, <2>2 DEF Keep
  <2> QED BY <1>3, <2>3, <2>4
<1>5. CASE LeaveOut(h, e) \/ CutShort(h)
  <2>1. PICK m \in SUBSET (rd[h].list \ {e}) : rd' = [rd EXCEPT ![h].list = m]
    <3>1. CASE LeaveOut(h, e)
      <4>1. PICK m \in SUBSET (rd[h].list \ {e}) : m = rd[h].list \ {e}
        OBVIOUS
      <4> QED BY <3>1, <4>1 DEF LeaveOut
    <3>2. CASE CutShort(h)
      <4>1. PICK m \in SUBSET (rd[h].list \ {e}) : m = {}
        OBVIOUS
      <4> QED BY <3>2, <4>1 DEF CutShort
    <3> QED BY <1>5, <3>1, <3>2
  <2>2. Cardinality(Ahead(m)) < Cardinality(Ahead(rd[h].list))
    BY <1>1, DroppedAhead
  <2> QED BY <1>3, <2>1, <2>2
<1> QED BY <1>2, <1>4, <1>5 DEF Open, Fail

LEMMA ReadingLowers ==
  ASSUME Types, NEW h \in Request, Sound(rd[h], stage, current), Reading(h)
  PROVE  (Lower(h) \/ Shorter(h)) /\ \A q \in Request : q # h => rd'[q] = rd[q]
<1> USE DEF Reader, Lower
<1>a. rd[h] \in ReaderT /\ h \in Reader /\ h \notin Tool
  BY DEF Types
<1>1. ASSUME NEW k \in {"download", "archive"}, NEW v \in Version \cup {0}, Resolve(h, k, v)
      PROVE  Lower(h) /\ \A q \in Request : q # h => rd'[q] = rd[q]
  <2>1. rd[h].pc = "resolve"
        /\ (Done(h) \/ rd' = [rd EXCEPT ![h] = Resolved(rd[h], k, Pin(k, v))])
    BY <1>1, <1>a DEF Resolve, Resolved, Types
  <2>2. Pin(k, v) \in Version \cup {0}
    BY DEF Pin, Types
  <2>3. Resolved(rd[h], k, Pin(k, v)).pc = "list"
    <3>1. k \in Jobs
      BY DEF Jobs
    <3> QED BY <1>a, <2>2, <3>1, ResolvedFields
  <2>4. rd'[h].pc \in {"done", "off", "list"} /\ \A q \in Reader : q # h => rd'[q] = rd[q]
    BY <1>a, <2>1, <2>3, DonePc, PcAfter
  <2> QED BY <2>1, <2>4 DEF Left
<1>3. ASSUME NEW dir \in {{}} \cup {Into(d) : d \in Folder}, List(h, dir)
      PROVE  Lower(h) /\ \A q \in Request : q # h => rd'[q] = rd[q]
  <2>1. rd[h].pc = "list" /\ dir \in SUBSET Folder
    BY <1>3, TreeAssumption DEF List, Into, Entry
  <2>2. \/ Done(h)
        \/ \E m \in Lists, b \in BOOLEAN :
             rd' = [rd EXCEPT ![h] = Listed(rd[h], m, dir, b)]
        \/ rd' = [rd EXCEPT ![h] = Ended(rd[h], TRUE)]
    <3> DEFINE v == Place(h)
    <3>1. CASE Exists(v) /\ dir \subseteq Here(v)
      <4>1. PICK m \in Lists, b \in BOOLEAN : m = there[v] \cap In(dir) /\ b = ~Full(v)
        BY InsideApart DEF Lists
      <4>2. rd' = [rd EXCEPT ![h] = Listed(rd[h], m, dir, b)]
        BY <1>3, <3>1, <4>1 DEF List, Listed
      <4> QED BY <4>2
    <3>2. CASE ~(Exists(v) /\ dir \subseteq Here(v))
      BY <1>3, <3>2 DEF List, Ended
    <3> QED BY <3>1, <3>2
  <2>3. /\ \A m \in Lists, b \in BOOLEAN : Listed(rd[h], m, dir, b).pc = "open"
        /\ Ended(rd[h], TRUE).pc = "sent"
    <3>1. ASSUME NEW m \in Lists, NEW b \in BOOLEAN PROVE Listed(rd[h], m, dir, b).pc = "open"
      BY <1>a, <2>1, ListedFields
    <3>2. TRUE \in BOOLEAN
      OBVIOUS
    <3>3. Ended(rd[h], TRUE).pc = "sent"
      BY <1>a, <3>2, EndedFields
    <3> QED BY <3>1, <3>3
  <2>4. /\ rd'[h].pc \in {"done", "off", "sent", "open"}
        /\ \A q \in Reader : q # h => rd'[q] = rd[q]
    <3>1. CASE Done(h)
      BY <1>a, <3>1, DonePc
    <3>2. ASSUME NEW m \in Lists, NEW b \in BOOLEAN,
                 rd' = [rd EXCEPT ![h] = Listed(rd[h], m, dir, b)]
          PROVE  /\ rd'[h].pc \in {"done", "off", "sent", "open"}
                 /\ \A q \in Reader : q # h => rd'[q] = rd[q]
      <4>1. PICK c : c = Listed(rd[h], m, dir, b)
        OBVIOUS
      <4>2. c.pc \in {"sent", "open"} /\ rd' = [rd EXCEPT ![h] = c]
        BY <2>3, <3>2, <4>1
      <4>3. rd'[h].pc = c.pc /\ \A q \in Reader : q # h => rd'[q] = rd[q]
        BY <1>a, <4>2, PcAfter
      <4> QED BY <4>2, <4>3
    <3>3. CASE rd' = [rd EXCEPT ![h] = Ended(rd[h], TRUE)]
      <4>1. PICK c : c = Ended(rd[h], TRUE)
        OBVIOUS
      <4>2. c.pc \in {"sent", "open"} /\ rd' = [rd EXCEPT ![h] = c]
        BY <2>3, <3>3, <4>1
      <4>3. rd'[h].pc = c.pc /\ \A q \in Reader : q # h => rd'[q] = rd[q]
        BY <1>a, <4>2, PcAfter
      <4> QED BY <4>2, <4>3
    <3> QED BY <2>2, <3>1, <3>2, <3>3
  <2> QED BY <2>1, <2>4 DEF Left
<1>4. CASE End(h)
  <2>1. rd[h].pc = "open"
        /\ (Done(h) \/ \E b \in BOOLEAN : rd' = [rd EXCEPT ![h] = Ended(rd[h], b)])
    <3>1. PICK b \in BOOLEAN : b = (rd[h].frail \/ ~Full(Place(h)))
      OBVIOUS
    <3>2. Done(h) \/ rd' = [rd EXCEPT ![h] = Ended(rd[h], b)]
      BY <1>4, <3>1 DEF End, Ended
    <3> QED BY <1>4, <3>2 DEF End
  <2>2. \A b \in BOOLEAN : Ended(rd[h], b).pc = "sent"
    BY <1>a, EndedFields
  <2>3. rd'[h].pc \in {"done", "off", "sent"} /\ \A q \in Reader : q # h => rd'[q] = rd[q]
    BY <1>a, <2>1, <2>2, DonePc, PcAfter
  <2> QED BY <2>1, <2>3 DEF Left
<1>5. CASE Mark(h)
  <2>1. rd[h].pc = "mark" /\ rd' = [rd EXCEPT ![h] = Marked(rd[h], current)]
    BY <1>5, <1>a DEF Mark, Marked, Types
  <2>2. Marked(rd[h], current).pc = "sent"
    BY <1>a, MarkedFields DEF Types
  <2>3. rd'[h].pc = "sent" /\ \A q \in Reader : q # h => rd'[q] = rd[q]
    BY <1>a, <2>1, <2>2, PcAfter
  <2> QED BY <2>1, <2>3 DEF Left
<1>6. ASSUME NEW p \in Path, OpenOne(h, p)
      PROVE  Lower(h) /\ \A q \in Request : q # h => rd'[q] = rd[q]
  <2>1. rd[h].pc = "list" /\ (Done(h) \/ Goto(h, "open"))
    BY <1>6 DEF OpenOne
  <2>2. rd'[h].pc \in {"done", "off", "open"} /\ \A q \in Reader : q # h => rd'[q] = rd[q]
    BY <1>a, <2>1, DonePc, GotoPc DEF PC
  <2> QED BY <2>1, <2>2 DEF Left
<1> HIDE DEF Lower
<1>7. ASSUME NEW e \in Entry, Open(h, e)
      PROVE  (Lower(h) \/ Shorter(h)) /\ \A q \in Request : q # h => rd'[q] = rd[q]
  BY <1>7, OpenLowers
<1> QED BY <1>1, <1>3, <1>4, <1>5, <1>6, <1>7, <1>a DEF Reading

(***************************************************************************)
(* Of the steps of the others, none sets a handler back.                   *)
(***************************************************************************)
NotSetBack(h) == Left(rd'[h].pc) <= Left(rd[h].pc)

LEMMA OthersKeep ==
  ASSUME Inv, [Next]_vars, NEW h \in Request, ~Limiter(h), ~Reading(h), ~Arrive(h)
  PROVE  NotSetBack(h)
<1> USE DEF Reader
<1>a. rd[h] \in ReaderT /\ Left(rd[h].pc) \in Nat
  BY DEF Inv, Types, ReaderT, Left
<1>b. rd'[h].pc = rd[h].pc => NotSetBack(h)
  BY <1>a DEF NotSetBack
<1>1. ASSUME NEW g \in Request, g # h, Limiter(g) \/ Reading(g)
      PROVE  NotSetBack(h)
  <2>1. rd'[h] = rd[h] \/ Lower(h)
    BY <1>1, LimiterLowers, ReadingLowers DEF Inv, AllSound
  <2>2. Lower(h) => NotSetBack(h)
    <3>1. Inv'
      BY StepInv
    <3>2. Left(rd'[h].pc) \in Nat
      BY <3>1 DEF Inv, Types, ReaderT, Left
    <3> QED BY <1>a, <3>2 DEF Lower, NotSetBack
  <2> QED BY <1>b, <2>1, <2>2
<1>2. ASSUME NEW x \in Tool, Reading(x) \/ Exit(x)
      PROVE  NotSetBack(h)
  <2>1. x # h /\ \E c : rd' = [rd EXCEPT ![x] = c]
    BY <1>2, ReadingBecomes DEF Inv, AllSound, Becomes, Exit
  <2>2. rd'[h] = rd[h]
    BY <2>1, PcAfter DEF Inv
  <2> QED BY <1>b, <2>2
<1>3. ASSUME NEW r \in Reader, r # h, Arrive(r)
      PROVE  NotSetBack(h)
  <2>1. Goto(r, "look") \/ Goto(r, "resolve")
    BY <1>3 DEF Arrive
  <2>2. rd'[h] = rd[h]
    BY <1>3, <2>1, GotoPc DEF Inv, PC
  <2> QED BY <1>b, <2>2
<1>4. ASSUME NEW g \in Request, Disconnect(g)
      PROVE  NotSetBack(h)
  <2>1. Done(g) /\ rd[g].pc = "open"
    BY <1>4 DEF Disconnect
  <2>2. rd'[g].pc \in {"done", "off"} /\ \A q \in Reader : q # g => rd'[q] = rd[q]
    BY <2>1, DonePc DEF Inv
  <2>3. CASE g = h
    BY <2>1, <2>2, <2>3 DEF NotSetBack, Left
  <2> QED BY <1>b, <2>2, <2>3
<1>5. CASE PanelRestart
  <2>1. rd'[h].pc = "off"
    BY <1>5, OffFields DEF PanelRestart
  <2>2. Left(rd'[h].pc) = 0
    BY <2>1 DEF Left
  <2> QED BY <1>a, <2>2 DEF NotSetBack
<1>6. CASE Kernel
  BY <1>b, <1>6, KernelStep
<1>7. CASE UNCHANGED rd
  BY <1>b, <1>7
<1> QED
  BY <1>1, <1>2, <1>3, <1>4, <1>5, <1>6, <1>7 DEF Next, Clients, Stall, vars

(***************************************************************************)
(* A step of a handler brings it nearer to its answer, over its list of    *)
(* files if nowhere else, and no step of another sets it back: not the     *)
(* kernel that deletes under it, nor a request it competes with.           *)
(***************************************************************************)
HandlersRunDown ==
  [][\A h \in Request :
       /\ Limiter(h) \/ Reading(h) => Lower(h) \/ Shorter(h)
       /\ ~Limiter(h) /\ ~Reading(h) /\ ~Arrive(h) => NotSetBack(h)]_vars

(***************************************************************************)
(* With NobodyWaitsForNothing this is what Answered rests on: a handler    *)
(* that is scheduled runs out of steps, and one that is blocked waits for  *)
(* others that do.  The scheduling itself is left to TLC.                  *)
(***************************************************************************)
THEOREM HandlersEnd == Spec => HandlersRunDown
<1> DEFINE Down(h) == /\ Limiter(h) \/ Reading(h) => Lower(h) \/ Shorter(h)
                      /\ ~Limiter(h) /\ ~Reading(h) /\ ~Arrive(h) => NotSetBack(h)
<1>1. ASSUME Inv, [Next]_vars, NEW h \in Request PROVE Down(h)
  <2>1. Types /\ DataInv /\ AllSound /\ LimInv /\ Sound(rd[h], stage, current)
    BY <1>1 DEF Inv, AllSound, Reader
  <2>2. Limiter(h) => Lower(h)
    BY <2>1, LimiterLowers
  <2>3. Reading(h) => Lower(h) \/ Shorter(h)
    BY <2>1, ReadingLowers
  <2> QED BY <1>1, <2>2, <2>3, OthersKeep
<1>2. Inv /\ [Next]_vars => [\A h \in Request : Down(h)]_vars
  BY <1>1
<1> HIDE DEF Down
<1>3. Spec => [][\A h \in Request : Down(h)]_vars
  BY <1>2, InvAlways, PTL DEF Spec
<1> QED BY <1>3 DEF Down, HandlersRunDown
=============================================================================
