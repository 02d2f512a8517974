----------------------------- MODULE ControlClient -----------------------------
(***************************************************************************)
(* Commands from a program to the daemon and their answers: `AudioClient`  *)
(* (`client/src/client.rs`, `connection.rs`) against the request loop of   *)
(* the daemon (`daemon/event_loop.rs`, `ipc/messages.rs`).                 *)
(*                                                                         *)
(* The calls of a program share one connection behind a mutex.  A call     *)
(* writes its line and takes the next line for its answer; a connection    *)
(* that turns out broken is replaced and the same line written once more.  *)
(* A caller may give up at any await (its future is dropped).  The daemon  *)
(* handles the requests of a connection in order, goes on with them after  *)
(* the client has left, and may die at any point and start again.          *)
(*                                                                         *)
(* Abstracted: a request is the call that made it; what the daemon says to *)
(* it is "ok" or "refused" (an unknown command, a wrong parameter, an      *)
(* error of the manager), and a refused command has changed nothing.  A    *)
(* "torn" answer is a part of a line, which does not parse: the call ends  *)
(* with that error and is not tried again.                                 *)
(***************************************************************************)
EXTENDS Integers, SequencesExt

CONSTANTS
  Call,      \* calls a program makes, each once
  Conn,      \* connections that may exist at a time
  MaxCrash,  \* bound: deaths of the daemon
  Malformed, \* a line that is two requests, or one and a half
  Failed,    \* the outcome of a call that got no answer
  None

ASSUME CrashAssumption == MaxCrash \in Nat
ASSUME NoneAssumption == None \notin Call \cup Conn /\ Malformed \notin Call \cup {None}

VARIABLES
  up,        \* the daemon runs
  run,       \* how often it has died
  executed,  \* executed[c]: the runs in which the command of c was carried out
  pc,        \* where every call is
  outcome,   \* its outcome
  outage,    \* the daemon was down at some moment of the call
  queue,     \* the mutex: its holder, and who waits for it in order
  kept,      \* the connection behind the mutex, or None
  retry,     \* the new connection of a call that tries again, or None
  conn       \* every connection

vars == <<up, run, executed, pc, outcome, outage, queue, kept, retry, conn>>

Request == Call \cup {Malformed}
Answer == [to : Request, says : {"ok", "refused", "torn"}]
Connection == [alive : BOOLEAN, open : BOOLEAN, half : BOOLEAN, requests : Seq(Request),
               serving : Call \cup {None}, answers : Seq(Answer)]

ASSUME OutcomeAssumption == None \notin Answer /\ Failed \notin Answer \cup {None}

Free == [alive |-> FALSE, open |-> FALSE, half |-> FALSE, requests |-> <<>>, serving |-> None,
         answers |-> <<>>]

UnderWay(c) == pc[c] \notin {"new", "returned", "cancelled"}

TypeOK ==
  /\ up \in BOOLEAN
  /\ run \in 0 .. MaxCrash
  /\ executed \in [Call -> Seq(0 .. MaxCrash)]
  /\ pc \in [Call -> {"new", "waiting", "send", "receive", "reconnect", "resend",
                      "receive again", "returned", "cancelled"}]
  /\ outcome \in [Call -> Answer \cup {Failed, None}]
  /\ outage \in [Call -> BOOLEAN]
  /\ queue \in Seq(Call)
  /\ {queue[i] : i \in DOMAIN queue} = {c \in Call : UnderWay(c)}
  /\ {kept, retry} \subseteq Conn \cup {None}
  /\ conn \in [Conn -> Connection]

Init ==
  /\ up = TRUE
  /\ run = 0
  /\ executed = [c \in Call |-> <<>>]
  /\ pc = [c \in Call |-> "new"]
  /\ outcome = [c \in Call |-> None]
  /\ outage = [c \in Call |-> FALSE]
  /\ queue = <<>>
  /\ kept = None
  /\ retry = None
  /\ conn = [k \in Conn |-> Free]

daemonVars == <<up, run, executed>>

-----------------------------------------------------------------------------
(* The client                                                               *)

HeadLeaves(c) == Tail(queue)                                 \* mutant
Without(c) == RemoveAt(queue, CHOOSE i \in DOMAIN queue : queue[i] = c)
Holds(c) == queue # <<>> /\ Head(queue) = c

Go(c, where) == pc' = [pc EXCEPT ![c] = where]
Return(c, result) ==
  /\ Go(c, "returned")
  /\ outcome' = [outcome EXCEPT ![c] = result]
  /\ queue' = Without(c)

Unused == {k \in Conn : conn[k] = Free}
Opened(k) == [conn EXCEPT ![k] = [Free EXCEPT !.alive = TRUE, !.open = TRUE]]
Dropped(k) == IF conn[k].alive THEN [conn EXCEPT ![k].open = FALSE, ![k].answers = <<>>]
              ELSE [conn EXCEPT ![k] = Free]

Slow(k) == ~conn[k].alive \/ conn[k].serving # None          \* mutant
Broken(k) == ~conn[k].alive

Issue(c) ==
  /\ pc[c] = "new"
  /\ Go(c, "waiting")
  /\ queue' = Append(queue, c)
  /\ outage' = [outage EXCEPT ![c] = ~up]
  /\ UNCHANGED <<daemonVars, outcome, kept, retry, conn>>

(* With the mutex: a connection is opened if none is kept.                  *)
Acquire(c) ==
  /\ pc[c] = "waiting" /\ Holds(c)
  /\ \/ /\ kept # None
        /\ Go(c, "send")
        /\ UNCHANGED <<outcome, queue, kept, conn>>
     \/ /\ kept = None /\ up /\ Unused # {}
        /\ kept' = CHOOSE k \in Unused : TRUE
        /\ conn' = Opened(kept')
        /\ Go(c, "send")
        /\ UNCHANGED <<outcome, queue>>
     \/ /\ kept = None /\ ~up
        /\ Return(c, Failed)
        /\ UNCHANGED <<kept, conn>>
  /\ UNCHANGED <<daemonVars, outage, retry>>

(* A line that follows half a line makes one malformed line with it.        *)
Written(k, c) ==
  [conn EXCEPT ![k].requests = Append(@, IF conn[k].half THEN Malformed ELSE c),
               ![k].half = FALSE]

Send(c) ==
  /\ pc[c] = "send" /\ Holds(c)
  /\ ~Broken(kept)
  /\ conn' = Written(kept, c)
  /\ Go(c, "receive")
  /\ UNCHANGED <<daemonVars, outcome, outage, queue, kept, retry>>

Torn(lines, n) == [lines EXCEPT ![n].says = "torn"]

(* A line is read into an empty buffer.  Nobody looks at the id in it.      *)
BufferNotCleared(lines) == lines                             \* mutant
Rest(lines) == Tail(lines)

Receive(c) ==
  /\ pc[c] = "receive" /\ Holds(c)
  /\ conn[kept].answers # <<>>
  /\ Return(c, Head(conn[kept].answers))
  /\ conn' = [conn EXCEPT ![kept].answers = Rest(@)]
  /\ UNCHANGED <<daemonVars, outage, kept, retry>>

(* The write or the read fails: the connection is dropped and, for either,  *)
(* the call is tried again.                                                 *)
OnlyReads == {"receive"}                                     \* mutant
Retried == {"send", "receive"}

Lose(c) ==
  /\ pc[c] \in {"send", "receive"} /\ Holds(c)
  /\ Broken(kept) /\ (pc[c] = "receive" => conn[kept].answers = <<>>)
  /\ conn' = Dropped(kept)
  /\ kept' = None
  /\ IF pc[c] \in Retried THEN Go(c, "reconnect") /\ UNCHANGED <<outcome, queue>>
     ELSE Return(c, Failed)
  /\ UNCHANGED <<daemonVars, outage, retry>>

Reconnect(c) ==
  /\ pc[c] = "reconnect" /\ Holds(c)
  /\ \/ /\ up /\ Unused # {}
        /\ retry' = CHOOSE k \in Unused : TRUE
        /\ conn' = Opened(retry')
        /\ Go(c, "resend")
        /\ UNCHANGED <<outcome, queue>>
     \/ /\ ~up
        /\ Return(c, Failed)
        /\ UNCHANGED <<retry, conn>>
  /\ UNCHANGED <<daemonVars, outage, kept>>

Resend(c) ==
  /\ pc[c] = "resend" /\ Holds(c)
  /\ ~Broken(retry)
  /\ conn' = Written(retry, c)
  /\ Go(c, "receive again")
  /\ UNCHANGED <<daemonVars, outcome, outage, queue, kept, retry>>

(* The new connection is kept if the daemon says "ok"; a refusal, like a    *)
(* second failure, drops it.                                                *)
ReceiveAgain(c) ==
  LET answer == Head(conn[retry].answers)
  IN /\ pc[c] = "receive again" /\ Holds(c)
     /\ conn[retry].answers # <<>>
     /\ Return(c, answer)
     /\ IF answer.says = "ok"
        THEN /\ kept' = retry
             /\ conn' = [conn EXCEPT ![retry].answers = Rest(@)]
        ELSE /\ conn' = Dropped(retry)
             /\ UNCHANGED kept
     /\ retry' = None
     /\ UNCHANGED <<daemonVars, outage>>

LoseAgain(c) ==
  /\ pc[c] \in {"resend", "receive again"} /\ Holds(c)
  /\ ~conn[retry].alive /\ conn[retry].answers = <<>>
  /\ Return(c, Failed)
  /\ conn' = Dropped(retry)
  /\ retry' = None
  /\ UNCHANGED <<daemonVars, outage, kept>>

(* The caller gives up.  The mutex is released; what was written stays      *)
(* written, also half a line, and what was read of an answer is lost; the   *)
(* connection of a second try is dropped.                                   *)
Cancel(c) ==
  /\ UnderWay(c)
  /\ Go(c, "cancelled")
  /\ queue' = Without(c)
  /\ \/ /\ pc[c] = "send"
        /\ conn' = [conn EXCEPT ![kept].half = TRUE]
        /\ UNCHANGED retry
     \/ /\ pc[c] = "receive" /\ conn[kept].answers # <<>>
        /\ conn' = [conn EXCEPT ![kept].answers = Torn(@, 1)]
        /\ UNCHANGED retry
     \/ /\ pc[c] \in {"resend", "receive again"}
        /\ conn' = Dropped(retry)
        /\ retry' = None
     \/ /\ pc[c] \notin {"resend", "receive again"}
        /\ UNCHANGED <<retry, conn>>
  /\ UNCHANGED <<daemonVars, outcome, outage, kept>>

-----------------------------------------------------------------------------
(* The daemon                                                               *)

clientVars == <<pc, outcome, outage, queue, kept, retry>>

Queued(k, answer) == IF conn[k].open THEN Append(conn[k].answers, answer) ELSE <<>>

(* A command is carried out, then its response is queued.                   *)
Serve(k) ==
  /\ conn[k].serving = None /\ conn[k].requests # <<>>
  /\ LET c == Head(conn[k].requests)
     IN /\ c # Malformed
        /\ executed' = [executed EXCEPT ![c] = Append(@, run)]
        /\ conn' = [conn EXCEPT ![k].requests = Tail(@), ![k].serving = c]
  /\ UNCHANGED <<up, run, clientVars>>

Respond(k) ==
  /\ conn[k].serving # None
  /\ conn' = [conn EXCEPT ![k].serving = None,
                          ![k].answers = Queued(k, [to |-> conn[k].serving, says |-> "ok"])]
  /\ UNCHANGED <<daemonVars, clientVars>>

(* A malformed line and a request that cannot be carried out are answered   *)
(* as well.                                                                 *)
Silent(k) == conn[k].answers                                 \* mutant
Complaint(k) == Queued(k, [to |-> Head(conn[k].requests), says |-> "refused"])

Refuse(k) ==
  /\ conn[k].serving = None /\ conn[k].requests # <<>>
  /\ conn' = [conn EXCEPT ![k].requests = Tail(@), ![k].answers = Complaint(k)]
  /\ UNCHANGED <<daemonVars, clientVars>>

(* A half line that ends inside a character is no text: the handler ends    *)
(* without an answer, and the writer with what is left to write.            *)
Closed(k) == IF conn[k].open THEN [Free EXCEPT !.open = TRUE, !.answers = conn[k].answers]
             ELSE Free

NotText(k) ==
  /\ conn[k].serving = None /\ conn[k].requests # <<>>
  /\ Head(conn[k].requests) = Malformed
  /\ conn' = [conn EXCEPT ![k] = Closed(k)]
  /\ UNCHANGED <<daemonVars, clientVars>>

(* The handler of a connection the client has left ends, at the end of the  *)
(* requests or as soon as a response can no longer be queued.               *)
EndOfFile(k) ==
  /\ conn[k].alive /\ ~conn[k].open /\ conn[k].serving = None
  /\ conn' = [conn EXCEPT ![k] = Free]
  /\ UNCHANGED <<daemonVars, clientVars>>

(* What the client can still read after the daemon has died is what was     *)
(* written before, up to the middle of a line.                              *)
Remains(lines) ==
  {SubSeq(lines, 1, n) : n \in 0 .. Len(lines)}
    \cup {Torn(SubSeq(lines, 1, n), n) : n \in 1 .. Len(lines)}
Orphans(k) ==
  IF conn[k].alive THEN {[Closed(k) EXCEPT !.answers = left] : left \in Remains(Closed(k).answers)}
  ELSE {conn[k]}

Crash ==
  /\ up /\ run < MaxCrash
  /\ up' = FALSE
  /\ run' = run + 1
  /\ outage' = [c \in Call |-> outage[c] \/ UnderWay(c)]
  /\ \E orphans \in [Conn -> UNION {Orphans(k) : k \in Conn}] :
       (\A k \in Conn : orphans[k] \in Orphans(k)) /\ conn' = orphans
  /\ UNCHANGED <<executed, pc, outcome, queue, kept, retry>>

Start ==
  /\ ~up
  /\ up' = TRUE
  /\ UNCHANGED <<run, executed, clientVars, conn>>

-----------------------------------------------------------------------------
Step(c) ==
  \/ Acquire(c) \/ Send(c) \/ Receive(c) \/ Lose(c)
  \/ Reconnect(c) \/ Resend(c) \/ ReceiveAgain(c) \/ LoseAgain(c)
Daemon(k) == Serve(k) \/ Respond(k) \/ Refuse(k) \/ NotText(k) \/ EndOfFile(k)

Next ==
  \/ \E c \in Call : Issue(c) \/ Step(c) \/ Cancel(c)
  \/ \E k \in Conn : Daemon(k)
  \/ Crash \/ Start

Spec == Init /\ [][Next]_vars

(* Ready tasks are polled, and a daemon that died is started again.         *)
Fairness ==
  /\ \A c \in Call : WF_vars(Step(c))
  /\ \A k \in Conn : WF_vars(Daemon(k))
  /\ WF_vars(Start)
FairSpec == Spec /\ Fairness

-----------------------------------------------------------------------------
(* Properties                                                               *)

Answered(c) == outcome[c] \notin {None, Failed}

(* The one transparent retry never repeats a command within one run of the  *)
(* daemon, whose streams and counters live as long as the run: the first    *)
(* connection is only given up when the daemon behind it has died, or has   *)
(* left it without taking the line.                                         *)
AtMostOncePerRun ==
  \A c \in Call : \A i, j \in DOMAIN executed[c] : executed[c][i] = executed[c][j] => i = j

(* "Fire a request and await its response": a call never gets the answer to *)
(* another one.                                                             *)
OwnAnswer == \A c \in Call : Answered(c) => outcome[c].to \in {c, Malformed}

(* As long as no caller has given up a call gets the answer to its own      *)
(* request, whatever happens to the connection.                             *)
OwnAnswerUnlessCancelled ==
  (\A c \in Call : pc[c] # "cancelled") => \A c \in Call : Answered(c) => outcome[c].to = c

(* "connection-level failures get one transparent reconnect+retry": a call  *)
(* fails only if the daemon was down for a moment while it was made, never  *)
(* because the connection kept from earlier calls has gone stale.  Half an  *)
(* answer is no connection-level failure and ends a call as well; but for   *)
(* what a cancelled call has left of one, only an outage tears it.          *)
FailureMeansOutage ==
  \A c \in Call :
    /\ outcome[c] = Failed => outage[c]
    /\ Answered(c) /\ outcome[c].says = "torn" =>
         outage[c] \/ \E d \in Call : pc[d] = "cancelled"

(* Every call returns or is cancelled, whatever earlier callers have left   *)
(* on the connection and whenever the daemon dies.                          *)
CallsReturn == \A c \in Call : pc[c] = "waiting" ~> pc[c] \in {"returned", "cancelled"}
=============================================================================
