------------------------- MODULE PluginSessionProofs -------------------------
(***************************************************************************)
(* Theorems about PluginSession, for any number of requests and strays.    *)
(***************************************************************************)
EXTENDS PluginSession, TLAPS

USE CallsAssumption, StraysAssumption DEF None

(***************************************************************************)
(* OneRead: a goroutine reads for the latest call only, and a result is    *)
(* looked at only if it was given as that call's.                          *)
(***************************************************************************)
OneRead ==
  /\ pc = "new" => sent = 0 /\ child = "none" /\ reader = None
  /\ pc \in {"ready", "check"} => reader = None
  /\ reader # None => reader = sent /\ received = Nothing
  /\ pc = "check" => IsFetch(sent) /\ received.id = sent /\ received.kind = "ok"

(***************************************************************************)
(* InOrder, while the plugin has answered no request early: only the       *)
(* latest request can be anywhere between the client and its answer, and   *)
(* no line answers a request the plugin has not answered.                  *)
(***************************************************************************)
InOrder ==
  /\ answered <= sent
  /\ stdin # <<>> => stdin[1] = sent /\ answered < sent /\ working = None
  /\ working # None => working = sent /\ answered < sent
  /\ pc \in {"ready", "check"} => answered = sent
  /\ \A k \in 1..Len(stdout) : stdout[k].kind # "junk" => stdout[k].id <= answered
  /\ received.kind \in {"ok", "error"} => received.id <= answered

OrderInv == TypeOK /\ OneRead /\ (~early => InOrder)

LEMMA OrderInit == Init => OrderInv
<1> SUFFICES ASSUME Init PROVE TypeOK /\ OneRead /\ InOrder
  BY DEF OrderInv
<1>1. TypeOK
  <2>1. stdinOpen \in BOOLEAN /\ stdoutOpen \in BOOLEAN /\ killed \in BOOLEAN
          /\ heirs \in BOOLEAN /\ early \in BOOLEAN
    BY DEF Init
  <2> QED BY <2>1 DEF Init, TypeOK, Id
<1>2. OneRead
  BY DEF Init, OneRead
<1>3. InOrder
  BY DEF Init, InOrder, Nothing
<1> QED BY <1>1, <1>2, <1>3

(***************************************************************************)
(* What is true of a pipe after one line was written to it or read from it *)
(***************************************************************************)
LEMMA Written ==
  ASSUME NEW s \in Seq(Line), NEW line \in Line
  PROVE  /\ Append(s, line) \in Seq(Line)
         /\ Len(Append(s, line)) = Len(s) + 1
         /\ \A k \in 1..Len(s) : Append(s, line)[k] = s[k]
         /\ Append(s, line)[Len(s) + 1] = line
OBVIOUS

LEMMA ReadFrom ==
  ASSUME NEW s \in Seq(Line), s # <<>>
  PROVE  /\ Head(s) \in Line /\ Head(s) = s[1] /\ 1 \in 1..Len(s)
         /\ Tail(s) \in Seq(Line)
         /\ Len(Tail(s)) = Len(s) - 1
         /\ \A k \in 1..Len(Tail(s)) : Tail(s)[k] = s[k + 1]
OBVIOUS

LEMMA OneLine ==
  ASSUME NEW s \in Seq(Id), s # <<>>, Len(s) <= 1
  PROVE  s = <<s[1]>>
OBVIOUS

(***************************************************************************)
(* The types, but for the one request, whatever the plugin writes.         *)
(***************************************************************************)
Types ==
  /\ pc \in {"new", "ready", "wait", "check", "failed", "closing", "killing", "closed"}
  /\ sent \in 0..MaxCalls
  /\ answerOf \in [Id -> Id \cup {None}]
  /\ reader \in Id \cup {None}
  /\ received \in Line \cup {Nothing, Eof}
  /\ stdin \in Seq(Id) /\ stdout \in Seq(Line)
  /\ stdinOpen \in BOOLEAN /\ stdoutOpen \in BOOLEAN
  /\ child \in {"none", "running", "exited"}
  /\ killed \in BOOLEAN /\ heirs \in BOOLEAN
  /\ working \in Id \cup {None} /\ answered \in Id \cup {None}
  /\ parts \subseteq Id /\ placed \subseteq Id
  /\ strays \in 0..MaxStrays /\ early \in BOOLEAN

LEMMA TypesStep == Types /\ OneRead /\ [Next]_vars => Types' /\ OneRead'
<1> SUFFICES ASSUME Types, OneRead, [Next]_vars PROVE Types' /\ OneRead'
  OBVIOUS
<1> USE DEF Types, OneRead, Id, Nothing, Eof
<1>1. CASE Spawn
  BY <1>1 DEF Spawn, pipes, work
<1>2. CASE Send
  <2>1. sent' \in Id /\ Append(stdin, sent') \in Seq(Id)
    BY <1>2 DEF Send
  <2>2. CASE child = "running"
    <3>1. /\ sent' \in Id /\ stdin' \in Seq(Id) /\ reader' = sent'
          /\ received' = Nothing /\ pc' = "wait"
          /\ UNCHANGED <<answerOf, stdinOpen, stdout, stdoutOpen, process, work>>
      BY <1>2, <2>1, <2>2 DEF Send
    <3> QED BY <3>1 DEF process, work
  <2>3. CASE child # "running"
    BY <1>2, <2>1, <2>3 DEF Send, process, work
  <2> QED BY <2>2, <2>3
<1>3. CASE Read
  <2>1. received' \in Line \cup {Eof} /\ stdout' \in Seq(Line)
    BY <1>3, ReadFrom DEF Read
  <2> QED BY <1>3, <2>1 DEF Read, process, work
<1>4. CASE Receive
  <2>1. UNCHANGED <<sent, reader, received, child, heirs>> /\ UNCHANGED pipes
        /\ UNCHANGED work
    BY <1>4 DEF Receive
  <2>2. killed' \in BOOLEAN
    BY <1>4, Zenon DEF Receive
  <2>3. reader = None
    BY <1>4 DEF Receive
  <2>4. CASE pc' = "failed" /\ UNCHANGED answerOf
    BY <2>1, <2>2, <2>4 DEF pipes, work
  <2>5. CASE received.kind = "ok" /\ received.id = sent /\ Accept
    <3>1. received.id \in Id
      BY <2>5 DEF Line
    <3>2. answerOf' \in [Id -> Id \cup {None}] /\ pc' \in {"ready", "check"}
          /\ (pc' = "check" => IsFetch(sent))
      BY <2>5, <3>1 DEF Accept
    <3> QED BY <2>1, <2>2, <2>3, <2>5, <3>2 DEF pipes, work
  <2> QED BY <1>4, <2>4, <2>5 DEF Receive
<1>5. CASE Validate
  BY <1>5 DEF Validate, pipes, process, work
<1>6. CASE Expire \/ GiveUp
  BY <1>6 DEF Expire, GiveUp, pipes, work
<1>7. CASE Close \/ Reap
  BY <1>7 DEF Close, Reap, pipes, process, work
<1>8. CASE TakeRequest
  BY <1>8 DEF TakeRequest, client, process
<1>9. CASE CreatePart \/ Place
  <2>1. /\ UNCHANGED <<client, pipes, process, working, answered, strays, early>>
        /\ parts' \subseteq Id /\ placed' \subseteq Id
    BY <1>9 DEF CreatePart, Place
  <2> QED BY <2>1 DEF client, pipes, process
<1>10. CASE Answer
  <2>1. PICK line \in Line : line.id = working /\ stdout' = Append(stdout, line)
    BY <1>10 DEF Answer, Line
  <2> QED BY <1>10, <2>1, Written DEF Answer, client, process
<1>11. CASE Stray
  <2>1. PICK line \in Line :
          /\ stdout' = Append(stdout, line)
          /\ early' = (early \/ (line.kind # "junk" /\ line.id > answered))
    BY <1>11 DEF Stray
  <2>2. early' \in BOOLEAN
    BY <2>1, Zenon
  <2>3. stdout' \in Seq(Line)
    BY <2>1, Written
  <2>4. /\ UNCHANGED <<client, stdin, stdinOpen, stdoutOpen, process, working, answered,
                       parts, placed>>
        /\ strays' \in 0..MaxStrays
    BY <1>11 DEF Stray
  <2> QED BY <2>2, <2>3, <2>4 DEF client, process
<1>12. CASE EndOfInput
  BY <1>12 DEF EndOfInput, Alive, client, pipes, work
<1>13. CASE Die \/ HeirsEnd
  <2>1. heirs' \in BOOLEAN
    BY <1>13, Zenon DEF Die, HeirsEnd
  <2>2. /\ UNCHANGED <<client, pipes, killed, work>>
        /\ child' = child \/ (child = "running" /\ child' = "exited")
    BY <1>13 DEF Die, HeirsEnd, Alive
  <2> QED BY <2>1, <2>2 DEF client, pipes, work
<1>14. CASE UNCHANGED vars
  BY <1>14 DEF vars, client, pipes, process, work
<1> QED
  BY <1>1, <1>2, <1>3, <1>4, <1>5, <1>6, <1>7, <1>8, <1>9, <1>10, <1>11, <1>12,
     <1>13, <1>14 DEF Next, Caller, Wait, Plugin, Closed

(* No step makes an early plugin into one that never was. *)
LEMMA EarlyStays == Types /\ [Next]_vars /\ ~early' => ~early
BY DEF Types, Next, Caller, Wait, Plugin, Closed, vars, client, pipes, process, work, Spawn,
       Send, Validate, Close, Read, Receive, Expire, GiveUp, Reap, TakeRequest,
       CreatePart, Place, Answer, Stray, EndOfInput, Die, HeirsEnd

OnePending == Len(stdin) <= 1 /\ (working # None => stdin = <<>>)

LEMMA OrderStep == OrderInv /\ [Next]_vars => OrderInv'
<1> SUFFICES ASSUME OrderInv, [Next]_vars PROVE OrderInv'
  OBVIOUS
<1>a. Types /\ OneRead
  BY DEF OrderInv, TypeOK, Types
<1>b. Types' /\ OneRead'
  BY <1>a, TypesStep
<1>c. SUFFICES ASSUME ~early' PROVE InOrder' /\ OnePending'
  BY <1>b DEF OrderInv, TypeOK, Types, OnePending
<1>d. InOrder /\ OnePending
  BY <1>a, <1>c, EarlyStays DEF OrderInv, TypeOK, OnePending
<1> USE <1>a, <1>d DEF OnePending, InOrder, Types, OneRead, Id, Nothing, Eof
<1>1. CASE Spawn
  BY <1>1 DEF Spawn, pipes, work
<1>2. CASE Send
  <2>1. CASE child = "running"
    <3>1. stdin = <<>> /\ working = None
      BY <1>2 DEF Send
    <3>2. sent' \in Id /\ stdin' = <<sent'>>
      BY <1>2, <2>1, <3>1 DEF Send
    <3> QED BY <1>2, <2>1, <3>1, <3>2 DEF Send, process, work
  <2>2. CASE child # "running"
    BY <1>2, <2>2 DEF Send, process, work
  <2> QED BY <2>1, <2>2
<1>3. CASE Read
  <2>1. CASE stdoutOpen /\ stdout # <<>> /\ received' = Head(stdout)
                /\ stdout' = Tail(stdout)
    <3>1. received' \in Line /\ received' = stdout[1] /\ stdout' \in Seq(Line)
            /\ 1 \in 1..Len(stdout) /\ received'.kind \in {"ok", "error", "junk"}
      BY <2>1, ReadFrom DEF Line
    <3>2. received'.kind \in {"ok", "error"} => received'.id <= answered
      BY <3>1
    <3>3. \A k \in 1..Len(stdout') :
            stdout'[k].kind # "junk" => stdout'[k].id <= answered
      <4> SUFFICES ASSUME NEW k \in 1..Len(stdout'), stdout'[k].kind # "junk"
                   PROVE  stdout'[k].id <= answered
        OBVIOUS
      <4>1. stdout'[k] = stdout[k + 1] /\ k + 1 \in 1..Len(stdout)
        BY <2>1, ReadFrom
      <4> QED BY <4>1
    <3> QED BY <1>3, <2>1, <3>2, <3>3 DEF Read, process, work
  <2>2. CASE received' = Eof /\ UNCHANGED stdout
    BY <1>3, <2>2 DEF Read, process, work, Line
  <2> QED BY <1>3, <2>1, <2>2 DEF Read
<1>4. CASE Receive
  <2>1. UNCHANGED <<sent, reader, received, stdin, stdout, working, answered>>
    BY <1>4 DEF Receive, pipes, work
  <2>2. pc' \in {"ready", "check"} => answered = sent
    <3>1. pc' \in {"ready", "check"} => received.kind = "ok" /\ received.id = sent
      BY <1>4 DEF Receive, Accept
    <3> QED BY <3>1
  <2> QED BY <2>1, <2>2
<1>5. CASE Validate
  <2>1. /\ UNCHANGED <<sent, reader, received, stdin, stdout, working, answered>>
        /\ pc = "check"
    BY <1>5 DEF Validate, pipes, work
  <2> QED BY <2>1
<1>6. CASE Expire \/ Close \/ GiveUp \/ Reap
  <2>1. /\ UNCHANGED <<sent, reader, received, stdin, stdout, working, answered>>
        /\ pc' \notin {"ready", "check"}
    BY <1>6 DEF Expire, Close, GiveUp, Reap, pipes, process, work
  <2> QED BY <2>1
<1>9. CASE TakeRequest
  <2>1. stdin = <<sent>>
    <3>1. stdin # <<>>
      BY <1>9 DEF TakeRequest
    <3> QED BY <3>1, OneLine
  <2> QED BY <1>9, <2>1 DEF TakeRequest, client, process
<1>10. CASE CreatePart \/ Place
  BY <1>10 DEF CreatePart, Place, client, pipes, process
<1>12. CASE Answer
  <2>1. PICK line \in Line : line.id = working /\ stdout' = Append(stdout, line)
    BY <1>12 DEF Answer, Line
  <2>2. working = sent /\ answered' = sent /\ answered < sent
    BY <1>12 DEF Answer
  <2>4. \A k \in 1..Len(stdout') :
          stdout'[k].kind # "junk" => stdout'[k].id <= answered'
    <3> SUFFICES ASSUME NEW k \in 1..Len(stdout'), stdout'[k].kind # "junk"
                 PROVE  stdout'[k].id <= answered'
      OBVIOUS
    <3>1. CASE k \in 1..Len(stdout)
      <4>1. stdout'[k] = stdout[k]
        BY <2>1, <3>1, Written
      <4>2. stdout[k].id <= answered /\ stdout[k] \in Line
        BY <3>1, <4>1
      <4> QED BY <2>2, <4>1, <4>2 DEF Line
    <3>2. CASE k = Len(stdout) + 1
      BY <2>1, <2>2, <3>2, Written
    <3>3. k \in 1..Len(stdout) \/ k = Len(stdout) + 1
      BY <2>1, Written
    <3> QED BY <3>1, <3>2, <3>3
  <2>5. UNCHANGED client /\ received \in Line \cup {Nothing, Eof}
          /\ working' = None /\ stdin' = stdin /\ child' = child
    BY <1>12 DEF Answer, process
  <2>6. received.kind \in {"ok", "error"} => received.id <= answered'
    <3>1. received.kind \in {"ok", "error"} => received.id \in Nat
      BY <2>5 DEF Line
    <3> QED BY <2>2, <3>1
  <2>7. stdin = <<>>
    BY <1>12 DEF Answer
  <2> QED BY <2>2, <2>4, <2>5, <2>6, <2>7 DEF client
<1>13. CASE Stray
  <2>1. PICK line \in Line :
          /\ stdout' = Append(stdout, line)
          /\ early' = (early \/ (line.kind # "junk" /\ line.id > answered))
    BY <1>13 DEF Stray
  <2>2. line.kind # "junk" => line.id <= answered
    <3>1. ~(line.kind # "junk" /\ line.id > answered)
      BY <1>c, <2>1, Zenon
    <3> QED BY <3>1 DEF Line
  <2>3. UNCHANGED <<client, stdin, working, answered>>
    BY <1>13 DEF Stray
  <2>4. \A k \in 1..Len(stdout') : stdout'[k].kind # "junk" => stdout'[k].id <= answered
    <3>1. \A k \in 1..Len(stdout') : k \in 1..Len(stdout) \/ k = Len(stdout) + 1
      BY <2>1, Written
    <3> QED BY <2>1, <2>2, <3>1, Written
  <2> QED BY <2>3, <2>4 DEF client
<1>14. CASE EndOfInput \/ Die \/ HeirsEnd
  <2>1. UNCHANGED <<client, stdin, stdout, working, answered>>
    BY <1>14 DEF EndOfInput, Die, HeirsEnd, pipes, work
  <2> QED BY <2>1 DEF client
<1>17. CASE UNCHANGED vars
  BY <1>17 DEF vars, client, pipes, process, work
<1> QED
  BY <1>1, <1>2, <1>3, <1>4, <1>5, <1>6, <1>9, <1>10, <1>12, <1>13, <1>14, <1>17
     DEF Next, Caller, Wait, Plugin, Closed

(***************************************************************************)
(* TypeOK always holds, and with it: one request is under way at a time,   *)
(* unless the plugin answers before it is asked.                           *)
(***************************************************************************)
THEOREM SessionTypeCorrect == Spec => []TypeOK
<1>1. OrderInv => TypeOK
  BY DEF OrderInv
<1> QED BY <1>1, OrderInit, OrderStep, PTL DEF Spec

(***************************************************************************)
(* QuietAfterClose always holds: Close returns only after Wait has, and a  *)
(* session whose plugin could not be started has no process at all.        *)
(***************************************************************************)
THEOREM NothingAfterClose == Spec => []QuietAfterClose
<1>1. Init => QuietAfterClose
  BY DEF Init, QuietAfterClose
<1>2. OrderInv /\ QuietAfterClose /\ [Next]_vars => QuietAfterClose'
  <2> SUFFICES ASSUME OneRead, QuietAfterClose, [Next]_vars PROVE QuietAfterClose'
    BY DEF OrderInv
  <2> USE DEF QuietAfterClose, OneRead
  <2>1. CASE Spawn \/ Send \/ Validate \/ Close \/ Wait \/ GiveUp \/ Reap
    BY <2>1 DEF Spawn, Send, Validate, Close, Wait, Receive, Accept, Expire, GiveUp, Reap,
                process
  <2>2. CASE Read
    BY <2>2 DEF Read, process
  <2>3. CASE Plugin \/ UNCHANGED vars
    <3>1. pc' = pc /\ (child' = child \/ child' = "exited")
      BY <2>3 DEF Plugin, TakeRequest, CreatePart, Place, Answer, Stray, EndOfInput, Die,
                  HeirsEnd, vars, client, process
    <3> QED BY <3>1
  <2> QED BY <2>1, <2>2, <2>3 DEF Next, Caller, Closed
<1> QED BY <1>1, <1>2, OrderInit, OrderStep, PTL DEF Spec

(***************************************************************************)
(* Taken: what callers have taken is the answer to their own requests, and *)
(* the files they fetched are there.                                       *)
(***************************************************************************)
Taken ==
  \A i \in Id : answerOf[i] # None =>
    answerOf[i] = i /\ (IsFetch(i) => i \in placed)

LEMMA TakenStep == OrderInv /\ Taken /\ [Next]_vars => Taken'
<1> SUFFICES ASSUME OrderInv, Taken, [Next]_vars PROVE Taken'
  OBVIOUS
<1>0. answerOf \in [Id -> Id \cup {None}]
  BY DEF OrderInv, TypeOK
<1>1. CASE Receive
  <2>1. /\ UNCHANGED <<sent, placed>>
        /\ pc' = "ready" => ~IsFetch(sent) /\ received.id = sent
    BY <1>1 DEF Receive, Accept, work
  <2>2. CASE UNCHANGED answerOf
    BY <2>1, <2>2 DEF Taken
  <2>3. CASE pc' = "ready" /\ answerOf' = [answerOf EXCEPT ![sent] = received.id]
    BY <1>0, <2>1, <2>3 DEF Taken
  <2> QED BY <1>1, <2>2, <2>3 DEF Receive, Accept
<1>2. CASE Validate
  <2>1. UNCHANGED <<sent, placed>> /\ received.id = sent
    BY <1>2 DEF Validate, work, OrderInv, OneRead
  <2>2. CASE UNCHANGED answerOf
    BY <2>1, <2>2 DEF Taken
  <2>3. CASE sent \in placed /\ answerOf' = [answerOf EXCEPT ![sent] = received.id]
    BY <1>0, <2>1, <2>3 DEF Taken
  <2> QED BY <1>2, <2>2, <2>3 DEF Validate
<1>3. ASSUME UNCHANGED answerOf, placed \subseteq placed' PROVE Taken'
  BY <1>3 DEF Taken
<1>4. CASE Spawn \/ Send \/ Close \/ Read \/ Expire \/ GiveUp \/ Reap \/ UNCHANGED vars
  BY <1>3, <1>4 DEF Spawn, Send, Close, Read, Expire, GiveUp, Reap, vars, client, work
<1>5. CASE Plugin
  BY <1>3, <1>5 DEF Plugin, TakeRequest, CreatePart, Place, Answer, Stray, EndOfInput,
                    Die, HeirsEnd, client, work
<1> QED BY <1>1, <1>2, <1>4, <1>5 DEF Next, Caller, Wait, Closed

(***************************************************************************)
(* OwnAnswers: they were given by the plugin for these requests.           *)
(***************************************************************************)
OwnAnswers == \A i \in Id : answerOf[i] # None => i <= answered

LEMMA OwnStep == OrderInv /\ ~early /\ OwnAnswers /\ [Next]_vars => OwnAnswers'
<1> SUFFICES ASSUME OrderInv, ~early, OwnAnswers, [Next]_vars PROVE OwnAnswers'
  OBVIOUS
<1>0. answerOf \in [Id -> Id \cup {None}] /\ InOrder /\ answered \in Nat
  BY DEF OrderInv, TypeOK, Id
<1>1. CASE Receive \/ Validate
  <2>1. answered' = answered /\ sent \in Nat
    BY <1>1 DEF Receive, Validate, work, OrderInv, TypeOK
  <2>2. CASE UNCHANGED answerOf
    BY <2>1, <2>2 DEF OwnAnswers
  <2>3. CASE received.kind = "ok" /\ received.id = sent
             /\ answerOf' = [answerOf EXCEPT ![sent] = received.id]
    <3>1. sent <= answered
      BY <1>0, <2>3 DEF InOrder
    <3> QED BY <1>0, <2>1, <2>3, <3>1 DEF OwnAnswers
  <2>4. Validate => received.kind = "ok" /\ received.id = sent
    BY DEF Validate, OrderInv, OneRead
  <2> QED BY <1>1, <2>2, <2>3, <2>4 DEF Receive, Accept, Validate
<1>2. CASE Answer
  <2>1. UNCHANGED answerOf /\ answered' = sent /\ answered < sent /\ sent \in Nat
    BY <1>0, <1>2 DEF Answer, client, InOrder, OrderInv, TypeOK
  <2> QED BY <1>0, <2>1 DEF OwnAnswers, Id
<1>3. ASSUME UNCHANGED <<answerOf, answered>> PROVE OwnAnswers'
  BY <1>3 DEF OwnAnswers
<1>4. CASE Spawn \/ Send \/ Close \/ Read \/ Expire \/ GiveUp \/ Reap \/ UNCHANGED vars
  BY <1>3, <1>4 DEF Spawn, Send, Close, Read, Expire, GiveUp, Reap, vars, client, work
<1>5. CASE TakeRequest \/ CreatePart \/ Place \/ Stray \/ EndOfInput \/ Die \/ HeirsEnd
  BY <1>3, <1>5 DEF TakeRequest, CreatePart, Place, Stray, EndOfInput, Die, HeirsEnd,
                    client, work
<1> QED BY <1>1, <1>2, <1>4, <1>5 DEF Next, Caller, Wait, Plugin, Closed

(***************************************************************************)
(* FetchDone, while the plugin has answered no request early: as long as   *)
(* the file of the fetch under way is not in its place, the line its       *)
(* caller reads next does not say it is: any such line was written after   *)
(* the plugin's own error answer.                                          *)
(***************************************************************************)
Says(line, kind) == line.id = sent /\ line.kind = kind

ErrorBefore(n) == \E j \in 1..Len(stdout) : j < n /\ Says(stdout[j], "error")

FetchDone ==
  IsFetch(sent) /\ sent \notin placed =>
    /\ ~Says(received, "ok")
    /\ reader # None =>
         /\ answered = sent => ErrorBefore(Len(stdout) + 1)
         /\ \A k \in 1..Len(stdout) : Says(stdout[k], "ok") => ErrorBefore(k)

InTurn == TypeOK /\ OneRead /\ InOrder

(* Lines of earlier requests say nothing of the one just sent. *)
LEMMA DoneSend == InTurn /\ Send => FetchDone'
<1> SUFFICES ASSUME InTurn, Send PROVE FetchDone'
  OBVIOUS
<1>1. /\ sent' = sent + 1 /\ answered <= sent /\ sent \in Nat /\ answered \in Nat
      /\ UNCHANGED <<placed, stdout, answered>>
  BY DEF Send, work, InTurn, InOrder, TypeOK, Id
<1>2. received' = Nothing \/ received' = received
  BY DEF Send
<1>3. ~(received'.id = sent' /\ received'.kind = "ok")
  <2>1. CASE received' = Nothing
    BY <2>1 DEF Nothing
  <2>2. CASE received' = received
    <3>1. received.kind = "ok" => received.id <= answered
      BY DEF InTurn, InOrder
    <3> QED BY <1>1, <2>2, <3>1
  <2> QED BY <1>2, <2>1, <2>2
<1>4. \A k \in 1..Len(stdout) : ~(stdout[k].id = sent' /\ stdout[k].kind = "ok")
  <2>1. \A k \in 1..Len(stdout) : stdout[k].kind # "junk" => stdout[k].id <= answered
    BY DEF InTurn, InOrder
  <2> QED BY <1>1, <2>1
<1>5. answered' # sent'
  BY <1>1
<1> QED BY <1>1, <1>3, <1>4, <1>5 DEF FetchDone, Says

(* The line that is read has none before it. *)
LEMMA DoneRead == InTurn /\ FetchDone /\ Read => FetchDone'
<1> SUFFICES ASSUME InTurn, FetchDone, Read PROVE FetchDone'
  OBVIOUS
<1>1. reader' = None /\ reader # None /\ UNCHANGED <<sent, placed>>
  BY DEF Read, work
<1>2. IsFetch(sent) /\ sent \notin placed => ~(received'.id = sent /\ received'.kind = "ok")
  <2>1. CASE received' = Eof
    BY <2>1 DEF Eof
  <2>2. CASE stdout # <<>> /\ received' = Head(stdout)
    <3>1. stdout \in Seq(Line)
      BY DEF InTurn, TypeOK
    <3>2. received' = stdout[1] /\ 1 \in 1..Len(stdout)
      BY <2>2, <3>1, ReadFrom
    <3>3. ~ErrorBefore(1)
      BY DEF ErrorBefore
    <3> QED BY <1>1, <3>2, <3>3 DEF FetchDone, Says
  <2> QED BY <2>1, <2>2 DEF Read
<1> QED BY <1>1, <1>2 DEF FetchDone, Says

(***************************************************************************)
(* What a line the plugin writes may say: "ok" for the fetch under way only*)
(* when the file is in its place or an error for it was written before.    *)
(***************************************************************************)
LEMMA DoneWritten ==
  ASSUME InTurn, FetchDone, NEW line \in Line, stdout' = Append(stdout, line),
         UNCHANGED <<sent, reader, received, placed>>,
         IsFetch(sent) /\ sent \notin placed /\ reader # None =>
           /\ answered' = sent => answered = sent \/ Says(line, "error")
           /\ Says(line, "ok") => answered = sent
  PROVE  FetchDone'
<1>0. stdout \in Seq(Line)
  BY DEF InTurn, TypeOK
<1>2. FetchDone'
  <2> SUFFICES ASSUME IsFetch(sent), sent \notin placed
               PROVE  /\ ~Says(received, "ok")
                      /\ reader # None =>
                           /\ answered' = sent => ErrorBefore(Len(stdout) + 1)'
                           /\ \A k \in 1..Len(stdout') :
                                Says(stdout'[k], "ok") => ErrorBefore(k)'
    BY DEF FetchDone, Says
  <2>1. ~Says(received, "ok")
    BY DEF FetchDone
  <2>2. ASSUME NEW n \in Nat, ErrorBefore(n) PROVE ErrorBefore(n)'
    <3>1. PICK j \in 1..Len(stdout) : j < n /\ Says(stdout[j], "error")
      BY <2>2 DEF ErrorBefore
    <3>2. j \in 1..Len(stdout') /\ stdout'[j] = stdout[j]
      BY <1>0, Written
    <3> QED BY <3>1, <3>2 DEF ErrorBefore, Says
  <2>3. ASSUME reader # None, answered' = sent PROVE ErrorBefore(Len(stdout) + 1)'
    <3>1. CASE answered = sent
      <4>1. ErrorBefore(Len(stdout) + 1)
        BY <2>3, <3>1 DEF FetchDone
      <4>2. PICK j \in 1..Len(stdout) : j < Len(stdout) + 1 /\ Says(stdout[j], "error")
        BY <4>1 DEF ErrorBefore
      <4>3. j \in 1..Len(stdout') /\ stdout'[j] = stdout[j] /\ j < Len(stdout') + 1
        BY <1>0, <4>2, Written
      <4> QED BY <4>2, <4>3 DEF ErrorBefore, Says
    <3>2. CASE Says(line, "error")
      <4>1. /\ Len(stdout) + 1 \in 1..Len(stdout') /\ stdout'[Len(stdout) + 1] = line
            /\ Len(stdout) + 1 < Len(stdout') + 1
        BY <1>0, Written
      <4> QED BY <3>2, <4>1 DEF ErrorBefore, Says
    <3> QED BY <2>3, <3>1, <3>2
  <2>4. ASSUME reader # None, NEW k \in 1..Len(stdout'), Says(stdout'[k], "ok")
        PROVE  ErrorBefore(k)'
    <3>1. CASE k \in 1..Len(stdout)
      <4>1. stdout'[k] = stdout[k]
        BY <1>0, <3>1, Written
      <4>2. ErrorBefore(k)
        BY <2>4, <3>1, <4>1 DEF FetchDone
      <4> QED BY <2>2, <4>2
    <3>2. CASE k = Len(stdout) + 1
      <4>1. stdout'[k] = line
        BY <1>0, <3>2, Written
      <4>2. ErrorBefore(k)
        BY <2>4, <3>2, <4>1 DEF FetchDone
      <4> QED BY <2>2, <4>2
    <3>3. k \in 1..Len(stdout) \/ k = Len(stdout) + 1
      BY <1>0, <2>4, Written
    <3> QED BY <3>1, <3>2, <3>3
  <2> QED BY <2>1, <2>3, <2>4
<1> QED BY <1>2

LEMMA DoneStep == InTurn /\ FetchDone /\ [Next]_vars /\ ~early' => FetchDone'
<1> SUFFICES ASSUME InTurn, FetchDone, [Next]_vars, ~early' PROVE FetchDone'
  OBVIOUS
<1>1. ASSUME UNCHANGED <<sent, reader, received, stdout, answered>>,
             placed \subseteq placed'
      PROVE  FetchDone'
  BY <1>1 DEF FetchDone, Says, ErrorBefore
<1>2. CASE Spawn \/ Validate \/ Close \/ Wait \/ GiveUp \/ Reap \/ UNCHANGED vars
  BY <1>1, <1>2 DEF Spawn, Validate, Close, Wait, Receive, Expire, GiveUp, Reap, vars,
                    client, pipes, work
<1>3. CASE TakeRequest \/ CreatePart \/ Place \/ EndOfInput \/ Die \/ HeirsEnd
  BY <1>1, <1>3 DEF TakeRequest, CreatePart, Place, EndOfInput, Die, HeirsEnd,
                    client, pipes, work
<1>4. CASE Answer
  <2>1. working = sent /\ answered # sent
    BY <1>4 DEF Answer, InTurn, InOrder, TypeOK, Id
  <2>2. UNCHANGED <<sent, reader, received, placed>>
    BY <1>4 DEF Answer, client
  <2>3. CASE /\ IsFetch(working) => working \in placed
             /\ stdout' = Append(stdout, [id |-> working, kind |-> "ok"])
    <3>1. [id |-> working, kind |-> "ok"] \in Line
      BY <1>4 DEF Answer, InTurn, TypeOK, Line
    <3> QED BY <2>1, <2>2, <2>3, <3>1, DoneWritten
  <2>4. CASE stdout' = Append(stdout, [id |-> working, kind |-> "error"])
    <3> DEFINE line == [id |-> working, kind |-> "error"]
    <3>1. line \in Line
      BY <1>4 DEF Answer, InTurn, TypeOK, Line
    <3>2. Says(line, "error") /\ ~Says(line, "ok")
      BY <2>1 DEF Says
    <3> HIDE DEF line
    <3>3. stdout' = Append(stdout, line)
      BY <2>4 DEF line
    <3> QED BY <2>2, <3>1, <3>2, <3>3, DoneWritten
  <2> QED BY <1>4, <2>3, <2>4 DEF Answer
<1>5. CASE Stray
  <2>1. PICK line \in Line :
          /\ stdout' = Append(stdout, line)
          /\ early' = (early \/ (line.kind # "junk" /\ line.id > answered))
    BY <1>5 DEF Stray
  <2>2. UNCHANGED <<sent, reader, received, placed, answered>>
    BY <1>5 DEF Stray, client
  <2>3. ~(line.kind # "junk" /\ line.id > answered)
    BY <2>1, Zenon
  <2>4. Says(line, "ok") => answered = sent
    BY <2>3 DEF Says, InTurn, InOrder, TypeOK, Id
  <2> QED BY <2>1, <2>2, <2>4, DoneWritten
<1> QED BY <1>2, <1>3, <1>4, <1>5, DoneSend, DoneRead DEF Next, Caller, Plugin, Closed

MatchInv == Taken /\ (~early => OwnAnswers /\ FetchDone)

LEMMA MatchStep == OrderInv /\ MatchInv /\ [Next]_vars => MatchInv'
<1> SUFFICES ASSUME OrderInv, MatchInv, [Next]_vars PROVE MatchInv'
  OBVIOUS
<1>1. Taken'
  BY TakenStep DEF MatchInv
<1>2. ASSUME ~early' PROVE OwnAnswers' /\ FetchDone'
  <2>1. ~early
    <3>1. Types
      BY DEF OrderInv, TypeOK, Types
    <3> QED BY <1>2, <3>1, EarlyStays
  <2> QED BY <1>2, <2>1, OwnStep, DoneStep DEF MatchInv, OrderInv, InTurn
<1> QED BY <1>1, <1>2 DEF MatchInv

(***************************************************************************)
(* AnswerMatches always holds, for any number of calls and whatever lines  *)
(* the plugin writes, an answer before its time too.                       *)
(***************************************************************************)
THEOREM AnswersMatch == Spec => []AnswerMatches
<1>1. Init => MatchInv
  BY DEF Init, MatchInv, Taken, OwnAnswers, FetchDone, Says, Nothing, IsFetch
<1>2. OrderInv /\ MatchInv => AnswerMatches
  <2> SUFFICES ASSUME OrderInv, MatchInv PROVE AnswerMatches
    OBVIOUS
  <2>1. ~early /\ pc = "check" => sent \in placed
    BY DEF OrderInv, OneRead, MatchInv, FetchDone, Says
  <2> QED BY <2>1 DEF AnswerMatches, MatchInv, Taken, OwnAnswers
<1> QED BY <1>1, <1>2, OrderInit, OrderStep, MatchStep, PTL DEF Spec
-----------------------------------------------------------------------------
(* That a session ends, without the fairness it takes.                     *)

(***************************************************************************)
(* What Close and the read goroutine wait for is on its way: a plugin that *)
(* outlived its five seconds has been sent SIGKILL, and Wait, which is     *)
(* over once Close has returned, has closed the pipe under a read that was *)
(* still there, whoever else holds the other end.                          *)
(***************************************************************************)
NothingHangs ==
  /\ pc = "killing" => killed /\ child # "none"
  /\ pc = "closed" /\ reader # None => ~stdoutOpen

HangInv ==
  /\ pc \notin {"new", "closed"} => child # "none"
  /\ child = "none" => reader = None
  /\ pc = "killing" => killed
  /\ pc = "closed" => child = "none" \/ ~stdoutOpen

LEMMA HangInit == Init => HangInv
BY DEF Init, HangInv

LEMMA HangStep == OrderInv /\ HangInv /\ [Next]_vars => HangInv'
<1> SUFFICES ASSUME OneRead, HangInv, [Next]_vars PROVE HangInv'
  BY DEF OrderInv
<1> USE DEF HangInv, OneRead
<1>1. CASE Caller
  BY <1>1 DEF Caller, Spawn, Send, Validate, Close, pipes, process, work
<1>2. CASE Read \/ Wait
  BY <1>2 DEF Read, Wait, Receive, Accept, Expire, pipes, process, work
<1>3. CASE GiveUp \/ Reap
  BY <1>3 DEF GiveUp, Reap, pipes, process, work
<1>4. CASE TakeRequest \/ CreatePart \/ Place \/ Answer \/ Stray
  BY <1>4 DEF TakeRequest, CreatePart, Place, Answer, Stray, client, pipes, process
<1>5. CASE EndOfInput \/ Die \/ HeirsEnd
  <2>1. UNCHANGED <<client, pipes, killed>>
    BY <1>5 DEF EndOfInput, Die, HeirsEnd
  <2>2. child' \in {child, "exited"}
    BY <1>5 DEF EndOfInput, Die, HeirsEnd
  <2>3. child # "none" => child' # "none"
    BY <2>2
  <2>4. child = "none" => UNCHANGED child \/ Alive
    BY <1>5 DEF EndOfInput, Die, HeirsEnd
  <2> QED BY <2>1, <2>3, <2>4 DEF Alive, client, pipes
<1>6. CASE UNCHANGED vars
  BY <1>6 DEF vars, client, pipes, process, work
<1> QED BY <1>1, <1>2, <1>3, <1>4, <1>5, <1>6 DEF Next, Plugin, Closed

(***************************************************************************)
(* NothingHangs always holds, whatever the plugin does: the state a        *)
(* session could be stuck in is one it never enters.                       *)
(***************************************************************************)
THEOREM CloseCannotHang == Spec => []NothingHangs
<1>1. HangInv => NothingHangs
  BY DEF HangInv, NothingHangs
<1> QED BY <1>1, OrderInit, OrderStep, HangInit, HangStep, PTL DEF Spec

(***************************************************************************)
(* How many steps the client and its read goroutine have before them.      *)
(***************************************************************************)
Left ==
  (CASE pc = "new"     -> 4 * MaxCalls + 5
     [] pc = "ready"   -> 4 * (MaxCalls - sent) + 4
     [] pc = "wait"    -> 4 * (MaxCalls - sent) + 6
     [] pc = "check"   -> 4 * (MaxCalls - sent) + 5
     [] pc = "failed"  -> 3
     [] pc = "closing" -> 2
     [] pc = "killing" -> 1
     [] OTHER          -> 0)
  + IF reader = None THEN 0 ELSE 1

(***************************************************************************)
(* A step of the daemon brings the session nearer to its end, and no step  *)
(* of the plugin, whatever it writes and whenever it dies, sets it back:   *)
(* junk, repeated and early answers keep no session going.                 *)
(***************************************************************************)
SessionRunsDown ==
  [][/\ Left' \in Nat /\ Left' <= Left
     /\ Caller \/ Read \/ Wait \/ GiveUp \/ Reap => Left' < Left]_vars

LEMMA LeftIsNat == OrderInv => Left \in Nat
<1> SUFFICES ASSUME OrderInv PROVE Left \in Nat
  OBVIOUS
<1>1. MaxCalls - sent \in Nat
  BY DEF OrderInv, TypeOK
<1> QED BY <1>1 DEF Left

LEMMA DaemonStepsCount ==
  ASSUME OrderInv, Caller \/ Read \/ Wait \/ GiveUp \/ Reap
  PROVE  Left' < Left
<1>0. /\ sent \in Nat /\ MaxCalls \in Nat /\ sent <= MaxCalls
      /\ pc = "new" => sent = 0 /\ reader = None
      /\ pc \in {"ready", "check"} => reader = None
  BY DEF OrderInv, TypeOK, OneRead
<1>1. CASE Spawn
  <2>1. pc = "new" /\ pc' \in {"ready", "closed"} /\ UNCHANGED <<sent, reader>>
    BY <1>1 DEF Spawn
  <2> QED BY <1>0, <2>1 DEF Left
<1>2. CASE Send
  <2>1. /\ pc = "ready" /\ sent < MaxCalls /\ sent' = sent + 1 /\ reader = None
        /\ (pc' = "wait" \/ (pc' = "failed" /\ reader' = reader))
    BY <1>0, <1>2 DEF Send
  <2>2. Left = 4 * (MaxCalls - sent) + 4
    BY <1>0, <2>1 DEF Left
  <2>3. CASE pc' = "wait"
    <3>1. CASE reader' = None
      <4>1. Left' = 4 * (MaxCalls - sent') + 6
        BY <1>0, <2>1, <2>3, <3>1 DEF Left
      <4> QED BY <1>0, <2>1, <2>2, <4>1
    <3>2. CASE reader' # None
      <4>1. Left' = 4 * (MaxCalls - sent') + 7
        BY <1>0, <2>1, <2>3, <3>2 DEF Left
      <4> QED BY <1>0, <2>1, <2>2, <4>1
    <3> QED BY <3>1, <3>2
  <2>4. CASE pc' = "failed" /\ reader' = reader
    <3>1. Left' = 3
      BY <2>1, <2>4 DEF Left
    <3> QED BY <1>0, <2>1, <2>2, <3>1
  <2> QED BY <2>1, <2>3, <2>4
<1>3. CASE Close
  <2>1. pc \in {"failed", "ready"} /\ pc' = "closing" /\ UNCHANGED <<sent, reader>>
    BY <1>3 DEF Close
  <2> QED BY <1>0, <2>1 DEF Left
<1>4. CASE Read
  <2>1. reader # None /\ reader' = None /\ UNCHANGED <<pc, sent>>
    BY <1>4 DEF Read
  <2> QED BY <1>0, <2>1 DEF Left
<1>5. CASE Receive \/ Expire
  <2>1. pc = "wait" /\ pc' \in {"ready", "check", "failed"} /\ UNCHANGED <<sent, reader>>
    BY <1>5 DEF Receive, Accept, Expire
  <2> QED BY <1>0, <2>1 DEF Left
<1>6. CASE Validate
  <2>1. pc = "check" /\ pc' \in {"ready", "failed"} /\ UNCHANGED <<sent, reader>>
    BY <1>6 DEF Validate
  <2> QED BY <1>0, <2>1 DEF Left
<1>7. CASE GiveUp \/ Reap
  <2>1. /\ UNCHANGED <<sent, reader>>
        /\ \/ pc = "closing" /\ pc' \in {"killing", "closed"}
           \/ pc = "killing" /\ pc' = "closed"
    BY <1>7 DEF GiveUp, Reap
  <2> QED BY <1>0, <2>1 DEF Left
<1> QED BY <1>1, <1>2, <1>3, <1>4, <1>5, <1>6, <1>7 DEF Caller, Wait

(***************************************************************************)
(* SessionRunsDown always holds: a session of MaxCalls requests is over    *)
(* after at most 4 * MaxCalls + 5 steps of the daemon.  With NothingHangs  *)
(* this is SessionEnds and ReadersEnd but for the fairness of the steps.   *)
(***************************************************************************)
THEOREM SessionsRunDown == Spec => SessionRunsDown
<1>1. ASSUME OrderInv, OrderInv', [Next]_vars
      PROVE  [/\ Left' \in Nat /\ Left' <= Left
              /\ Caller \/ Read \/ Wait \/ GiveUp \/ Reap => Left' < Left]_vars
  <2>1. Left \in Nat /\ Left' \in Nat
    <3>1. (Left \in Nat)'
      BY <1>1, LeftIsNat, PTL
    <3> QED BY <1>1, <3>1, LeftIsNat
  <2>2. CASE Caller \/ Read \/ Wait \/ GiveUp \/ Reap
    BY <1>1, <2>1, <2>2, DaemonStepsCount
  <2>3. CASE Plugin \/ Closed
    <3>1. Left' = Left
      <4>1. UNCHANGED client
        BY <2>3 DEF Plugin, Closed, vars, TakeRequest, CreatePart, Place, Answer,
                    Stray, EndOfInput, Die, HeirsEnd
      <4> QED BY <4>1 DEF client, Left
    <3>2. ~(Caller \/ Read \/ Wait \/ GiveUp \/ Reap)
      <4>1. UNCHANGED client
        BY <2>3 DEF Plugin, Closed, vars, TakeRequest, CreatePart, Place, Answer,
                    Stray, EndOfInput, Die, HeirsEnd
      <4>2. UNCHANGED <<pc, reader>>
        BY <4>1 DEF client
      <4>3. ASSUME Caller \/ Read \/ Wait \/ GiveUp \/ Reap
            PROVE  Left' # Left
        BY <1>1, <2>1, <4>3, DaemonStepsCount
      <4> QED BY <3>1, <4>3
    <3> QED BY <2>1, <3>1, <3>2
  <2>4. CASE UNCHANGED vars
    BY <2>4
  <2> QED BY <1>1, <2>2, <2>3, <2>4 DEF Next
<1>2. OrderInv /\ OrderInv' /\ [Next]_vars =>
        [/\ Left' \in Nat /\ Left' <= Left
         /\ Caller \/ Read \/ Wait \/ GiveUp \/ Reap => Left' < Left]_vars
  BY <1>1
<1> QED BY <1>2, OrderInit, OrderStep, PTL DEF Spec, SessionRunsDown
=============================================================================
