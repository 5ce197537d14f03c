---------------------------- MODULE PluginSession ----------------------------
(***************************************************************************)
(* One session of the daemon with a plugin process: Start, call and Close  *)
(* of internal/plugin, and the loop of pkg/pluginkit at the other end.     *)
(*                                                                         *)
(* Requests and answers are lines on two pipes.  Request 1 is initialize,  *)
(* 2 is snapshot, the others fetch one file each: written to <dest>.part,  *)
(* then renamed to its place.  The plugin may hang and die at any moment.  *)
(* It need not be one of the shipped ones: it may write any line at any    *)
(* time, the answer to a request it is still working on or has not read    *)
(* yet too, and a program it runs may outlive it and keep its stdout open. *)
(***************************************************************************)
EXTENDS Naturals, Sequences

CONSTANTS
  MaxCalls,     \* bound: requests of a session
  MaxStrays     \* bound: lines nobody asked for

ASSUME CallsAssumption  == MaxCalls \in Nat \ {0}
ASSUME StraysAssumption == MaxStrays \in Nat

Id   == 1..MaxCalls
None == 0
Line == [id : Id, kind : {"ok", "error", "junk"}]
Nothing == [id |-> None, kind |-> "nothing"]
Eof     == [id |-> None, kind |-> "eof"]

IsFetch(i) == i > 2

VARIABLES
  (* the client *)
  pc,         \* "new", "ready", "wait", "check", "failed", "closing", "killing",
              \* "closed"
  sent,       \* nextID
  answerOf,   \* for each call: the request whose answer its caller took, or None
  reader,     \* the call whose goroutine is in ReadString
  received,   \* what that goroutine has put into its channel
  (* the pipes *)
  stdin, stdinOpen,
  stdout, stdoutOpen,
  (* the plugin *)
  child,      \* "none", "running" or "exited"
  killed,     \* SIGKILL is on its way
  heirs,      \* another process still holds the write end of stdout
  working,    \* the request it works on
  answered,   \* the last one it answered
  parts,      \* fetches whose .part file exists
  placed,     \* fetches whose file is in its place
  strays,
  early       \* history: a line was written for a request not yet answered

client  == <<pc, sent, answerOf, reader, received>>
pipes   == <<stdin, stdinOpen, stdout, stdoutOpen>>
process == <<child, killed, heirs>>
work    == <<working, answered, parts, placed, strays, early>>
vars    == <<client, pipes, process, work>>

Init ==
  /\ pc = "new" /\ sent = 0
  /\ answerOf = [i \in Id |-> None]
  /\ reader = None /\ received = Nothing
  /\ stdin = <<>> /\ stdinOpen = TRUE
  /\ stdout = <<>> /\ stdoutOpen = TRUE
  /\ child = "none" /\ killed = FALSE /\ heirs = FALSE
  /\ working = None /\ answered = None
  /\ parts = {} /\ placed = {}
  /\ strays = 0 /\ early = FALSE
-----------------------------------------------------------------------------
(* The client, and the caller that closes it after its first error.        *)

Spawn ==
  /\ pc = "new"
  /\ \/ pc' = "ready" /\ child' = "running"
     \/ pc' = "closed" /\ UNCHANGED child
  /\ UNCHANGED <<sent, answerOf, reader, received, pipes, killed, heirs, work>>

Send ==
  /\ pc = "ready" /\ sent < MaxCalls
  /\ sent' = sent + 1
  /\ IF child = "running"
       THEN /\ stdin' = Append(stdin, sent')
            /\ reader' = sent' /\ received' = Nothing
            /\ pc' = "wait"
       ELSE pc' = "failed" /\ UNCHANGED <<stdin, reader, received>>
  /\ UNCHANGED <<answerOf, stdinOpen, stdout, stdoutOpen, process, work>>

(***************************************************************************)
(* The read goroutine: a line, or an error at the end of the pipe, which   *)
(* is when nobody can write to it or Wait has closed our end.              *)
(***************************************************************************)
Read ==
  /\ reader # None
  /\ \/ /\ stdoutOpen /\ stdout # <<>>
        /\ received' = Head(stdout) /\ stdout' = Tail(stdout)
     \/ /\ ~stdoutOpen \/ (stdout = <<>> /\ child = "exited" /\ ~heirs)
        /\ received' = Eof /\ UNCHANGED stdout
  /\ reader' = None
  /\ UNCHANGED <<pc, sent, answerOf, stdin, stdinOpen, stdoutOpen, process, work>>

(* The call returns a result; the caller looks at the file it fetched. *)
Accept ==
  IF IsFetch(sent)
    THEN pc' = "check" /\ UNCHANGED answerOf
    ELSE pc' = "ready" /\ answerOf' = [answerOf EXCEPT ![sent] = received.id]

Receive_AnyId ==               \* broken: takes whatever answer comes next
  /\ pc = "wait" /\ received # Nothing
  /\ IF received.kind = "ok" THEN Accept ELSE pc' = "failed" /\ UNCHANGED answerOf
  /\ UNCHANGED <<sent, reader, received, pipes, process, work>>

Receive ==
  /\ pc = "wait" /\ received # Nothing
  /\ IF received.kind = "ok" /\ received.id = sent
       THEN Accept
       ELSE pc' = "failed" /\ UNCHANGED answerOf
  /\ killed' = (killed \/ (received # Eof /\
                           (received.kind = "junk" \/ received.id # sent)))
  /\ UNCHANGED <<sent, reader, received, pipes, child, heirs, work>>

(***************************************************************************)
(* ValidateFetched: the caller believes the file when it sees it.          *)
(***************************************************************************)
Validate ==
  /\ pc = "check"
  /\ IF sent \in placed
       THEN pc' = "ready" /\ answerOf' = [answerOf EXCEPT ![sent] = received.id]
       ELSE pc' = "failed" /\ UNCHANGED answerOf
  /\ UNCHANGED <<sent, reader, received, pipes, process, work>>

Expire_GoesOn ==               \* broken: the session is used again
  /\ pc = "wait"
  /\ pc' = "ready"
  /\ UNCHANGED <<sent, answerOf, reader, received, pipes, process, work>>

(***************************************************************************)
(* The call's context ends, an answer in the channel or not.               *)
(***************************************************************************)
Expire ==
  /\ pc = "wait"
  /\ killed' = TRUE
  /\ pc' = "failed"
  /\ UNCHANGED <<sent, answerOf, reader, received, pipes, child, heirs, work>>

Close ==
  /\ pc = "failed" \/ (pc = "ready" /\ sent > 0)
  /\ stdinOpen' = FALSE
  /\ pc' = "closing"
  /\ UNCHANGED <<sent, answerOf, reader, received, stdin, stdout, stdoutOpen,
                 process, work>>

GiveUp_NoKill ==               \* broken: waits for a plugin that may hang
  /\ pc = "closing"
  /\ pc' = "killing"
  /\ UNCHANGED <<sent, answerOf, reader, received, pipes, process, work>>

GiveUp_NoWait ==               \* broken: returns before the process is gone
  /\ pc = "closing"
  /\ killed' = TRUE
  /\ pc' = "closed"
  /\ UNCHANGED <<sent, answerOf, reader, received, pipes, child, heirs, work>>

(* Five seconds later. *)
GiveUp ==
  /\ pc = "closing"
  /\ killed' = TRUE
  /\ pc' = "killing"
  /\ UNCHANGED <<sent, answerOf, reader, received, pipes, child, heirs, work>>

Reap_KeepsPipe ==              \* broken: our end of stdout stays open
  /\ pc \in {"closing", "killing"} /\ child = "exited"
  /\ pc' = "closed"
  /\ UNCHANGED <<sent, answerOf, reader, received, pipes, process, work>>

(* Wait returns, and has closed our ends of the pipes. *)
Reap ==
  /\ pc \in {"closing", "killing"} /\ child = "exited"
  /\ stdoutOpen' = FALSE
  /\ pc' = "closed"
  /\ UNCHANGED <<sent, answerOf, reader, received, stdin, stdinOpen, stdout,
                 process, work>>
-----------------------------------------------------------------------------
(* The plugin.                                                             *)

Alive == child = "running"

TakeRequest ==
  /\ Alive /\ working = None /\ stdin # <<>>
  /\ working' = Head(stdin) /\ stdin' = Tail(stdin)
  /\ UNCHANGED <<client, stdinOpen, stdout, stdoutOpen, process, answered, parts,
                 placed, strays, early>>

CreatePart ==
  /\ Alive /\ working # None
  /\ IsFetch(working) /\ working \notin parts \cup placed
  /\ parts' = parts \cup {working}
  /\ UNCHANGED <<client, pipes, process, working, answered, placed, strays, early>>

Place ==
  /\ Alive /\ working \in parts
  /\ parts' = parts \ {working}
  /\ placed' = placed \cup {working}
  /\ UNCHANGED <<client, pipes, process, working, answered, strays, early>>

(***************************************************************************)
(* A result, once there is one, or an error, which removes the .part file. *)
(***************************************************************************)
Answer ==
  /\ Alive /\ working # None
  /\ \/ /\ IsFetch(working) => working \in placed
        /\ stdout' = Append(stdout, [id |-> working, kind |-> "ok"])
     \/ /\ working \notin placed
        /\ stdout' = Append(stdout, [id |-> working, kind |-> "error"])
  /\ answered' = working /\ working' = None
  /\ parts' = parts \ {working}
  /\ UNCHANGED <<client, stdin, stdinOpen, stdoutOpen, process, placed, strays,
                 early>>

Stray ==
  /\ Alive /\ strays < MaxStrays
  /\ strays' = strays + 1
  /\ \E line \in Line :
       /\ stdout' = Append(stdout, line)
       /\ early' = (early \/ (line.kind # "junk" /\ line.id > answered))
  /\ UNCHANGED <<client, stdin, stdinOpen, stdoutOpen, process, working, answered,
                 parts, placed>>

EndOfInput ==
  /\ Alive /\ working = None /\ stdin = <<>> /\ ~stdinOpen
  /\ child' = "exited"
  /\ UNCHANGED <<client, pipes, killed, heirs, work>>

Die ==
  /\ Alive
  /\ child' = "exited"
  /\ heirs' \in {FALSE, working # None}
  /\ UNCHANGED <<client, pipes, killed, work>>

HeirsEnd ==
  /\ heirs
  /\ heirs' = FALSE
  /\ UNCHANGED <<client, pipes, child, killed, work>>
-----------------------------------------------------------------------------
Caller == Spawn \/ Send \/ Validate \/ Close
Wait   == Receive \/ Expire
Plugin == \/ TakeRequest \/ CreatePart \/ Place \/ Answer \/ Stray \/ EndOfInput
          \/ Die \/ HeirsEnd

Closed == pc = "closed" /\ reader = None /\ ~heirs /\ UNCHANGED vars

Next == Caller \/ Read \/ Wait \/ GiveUp \/ Reap \/ Plugin \/ Closed

Spec == Init /\ [][Next]_vars

(***************************************************************************)
(* The daemon's goroutines run, every call has a time limit, and a process *)
(* that is sent SIGKILL dies.  The plugin owes nothing.                    *)
(***************************************************************************)
FairSpec ==
  /\ Spec
  /\ WF_vars(Caller) /\ WF_vars(Read) /\ WF_vars(Wait)
  /\ WF_vars(GiveUp) /\ WF_vars(Reap)
  /\ WF_vars(killed /\ Die)
-----------------------------------------------------------------------------
(* Properties.                                                             *)

(***************************************************************************)
(* The type of every variable; at most one request is under way, unless    *)
(* the plugin answers before it is asked.                                  *)
(***************************************************************************)
TypeOK ==
  /\ pc \in {"new", "ready", "wait", "check", "failed", "closing", "killing", "closed"}
  /\ sent \in 0..MaxCalls
  /\ answerOf \in [Id -> Id \cup {None}]
  /\ reader \in Id \cup {None}
  /\ received \in Line \cup {Nothing, Eof}
  /\ stdin \in Seq(Id)
  /\ stdout \in Seq(Line)
  /\ stdinOpen \in BOOLEAN /\ stdoutOpen \in BOOLEAN
  /\ child \in {"none", "running", "exited"}
  /\ killed \in BOOLEAN /\ heirs \in BOOLEAN
  /\ working \in Id \cup {None} /\ answered \in Id \cup {None}
  /\ parts \subseteq Id /\ placed \subseteq Id
  /\ strays \in 0..MaxStrays /\ early \in BOOLEAN
  /\ ~early => Len(stdin) <= 1 /\ (working # None => stdin = <<>>)

(***************************************************************************)
(* AnswerMatches: a call that succeeds took the answer to its own request, *)
(* however late, repeated, early or unasked-for lines arrive, and when it  *)
(* was a fetch the file is in its place.  From a plugin that answers no    *)
(* request early the answer is its own, and what it says of a fetch is so: *)
(* the caller's check of the file never fails.                             *)
(***************************************************************************)
AnswerMatches ==
  /\ \A i \in Id : answerOf[i] # None =>
       answerOf[i] = i /\ (IsFetch(i) => i \in placed)
  /\ ~early => /\ \A i \in Id : answerOf[i] # None => i <= answered
               /\ pc = "check" => sent \in placed

(***************************************************************************)
(* QuietAfterClose: once Close has returned the plugin process is gone; it *)
(* can no longer write into the staging directory of the next sync.        *)
(***************************************************************************)
QuietAfterClose == pc = "closed" => child # "running"

(* SessionEnds: whatever the plugin does, a session ends.                  *)
SessionEnds == <>(pc = "closed")

(***************************************************************************)
(* ReadersEnd: the read goroutine that a timed-out call leaves behind ends *)
(* too, even when another process keeps the plugin's stdout open.          *)
(***************************************************************************)
ReadersEnd == pc = "closed" ~> reader = None
=============================================================================
