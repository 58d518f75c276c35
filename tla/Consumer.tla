------------------------------ MODULE Consumer -------------------------------
(***************************************************************************)
(* The consumer process: a goroutine per queue that takes messages off the  *)
(* broker one at a time, the ticket expirer beside them, and the group that *)
(* stops all of them when one fails or the process is told to end. Pods     *)
(* overlap during a rollout and share the queues.                           *)
(*                                                                         *)
(* What a handler does to the database is the subject of OrderLifecycle and *)
(* Settlement; here it ends without an error, with one, or by panicking.    *)
(***************************************************************************)
EXTENDS Naturals

CONSTANTS
  Pods,
  Messages,
  Queues,
  QueueOf,      \* the queue a message is published to
  Registered,   \* the queues a pod has a handler for
  MaxFaults,    \* bounds the failures, losses, signals and crashes
  NoPod, NoMessage

ASSUME ConsumerAssumption ==
  /\ QueueOf \in [Messages -> Queues]
  /\ Registered \in [Pods -> SUBSET Queues]
  /\ MaxFaults \in Nat
  /\ NoPod \notin Pods
  /\ NoMessage \notin Messages

VARIABLES
  place,     \* where a message is: a pod it was sent to has it among its
             \* msgs until it is taken from there
  holder,    \* the pod whose connection holds it
  finished,  \* messages a handler has returned from without an error
  broken,    \* messages a handler has panicked on
  faults,
  process,   \* a pod's process
  link,      \* its connection to the broker
  context,   \* the context of its group
  start,     \* Consumer.Start, which waits for one report of the queues
  stopper,   \* the group's second goroutine, which stops the expirer
  expirer,   \* the expirer's own goroutine
  pc,        \* consumeQueue, for each queue of a pod
  work       \* the delivery it handles

broker == <<place, holder>>
group == <<process, link, context, start, stopper, expirer>>
vars == <<place, holder, finished, broken, faults, process, link, context,
          start, stopper, expirer, pc, work>>

TypeOK ==
  /\ place \in [Messages -> {"ready", "sent", "taken", "acked", "rejected"}]
  /\ holder \in [Messages -> Pods \union {NoPod}]
  /\ finished \subseteq Messages
  /\ broken \subseteq Messages
  /\ faults \in Nat
  /\ process \in [Pods -> {"down", "up"}]
  /\ link \in [Pods -> {"open", "lost"}]
  /\ context \in [Pods -> {"live", "canceled"}]
  /\ start \in [Pods -> {"receiving", "returned"}]
  /\ stopper \in [Pods -> {"waiting", "stopping", "returned"}]
  /\ expirer \in [Pods -> {"idle", "running", "ended"}]
  /\ pc \in [Pods -> [Queues -> {"setup", "select", "handle", "ack", "requeue",
                                 "reject", "failed", "canceled", "ended"}]]
  /\ work \in [Pods -> [Queues -> Messages \union {NoMessage}]]

Init ==
  /\ place = [m \in Messages |-> "ready"]
  /\ holder = [m \in Messages |-> NoPod]
  /\ finished = {} /\ broken = {}
  /\ faults = 0
  /\ process = [p \in Pods |-> "down"]
  /\ link = [p \in Pods |-> "open"]
  /\ context = [p \in Pods |-> "live"]
  /\ start = [p \in Pods |-> "receiving"]
  /\ stopper = [p \in Pods |-> "waiting"]
  /\ expirer = [p \in Pods |-> "idle"]
  /\ pc = [p \in Pods |-> [q \in Queues |-> "setup"]]
  /\ work = [p \in Pods |-> [q \in Queues |-> NoMessage]]

Fault == faults < MaxFaults /\ faults' = faults + 1

Step(p, q, next) == pc' = [pc EXCEPT ![p][q] = next]

HeldBy(p, q) == {m \in Messages : holder[m] = p /\ QueueOf[m] = q}

(* The broker takes back what was not acknowledged on a channel that ended. *)
GiveBack(S) ==
  /\ place' = [m \in Messages |-> IF m \in S THEN "ready" ELSE place[m]]
  /\ holder' = [m \in Messages |-> IF m \in S THEN NoPod ELSE holder[m]]

GiveBackAll(p) == GiveBack(UNION {HeldBy(p, q) : q \in Queues})

-----------------------------------------------------------------------------
(* main, NewConsumer and Run: the deployment starts a pod that has ended.   *)
StartProcess(p) ==
  /\ process[p] = "down"
  /\ process' = [process EXCEPT ![p] = "up"]
  /\ UNCHANGED <<broker, finished, broken, faults, link, context, start, stopper, expirer, pc, work>>

(* Nothing of a process is left when it ends: the next one begins afresh.   *)
EndProcess(p) ==
  /\ process[p] = "up"
  /\ process' = [process EXCEPT ![p] = "down"]
  /\ GiveBackAll(p)
  /\ link' = [link EXCEPT ![p] = "open"]
  /\ context' = [context EXCEPT ![p] = "live"]
  /\ start' = [start EXCEPT ![p] = "receiving"]
  /\ stopper' = [stopper EXCEPT ![p] = "waiting"]
  /\ expirer' = [expirer EXCEPT ![p] = "idle"]
  /\ pc' = [pc EXCEPT ![p] = [q \in Queues |-> "setup"]]
  /\ work' = [work EXCEPT ![p] = [q \in Queues |-> NoMessage]]
  /\ UNCHANGED <<finished, broken>>

(* Run returns when both goroutines of the group have, and main with it;    *)
(* handlers that are under way end where they are.                          *)
Exit(p) ==
  /\ start[p] = "returned" /\ stopper[p] = "returned"
  /\ EndProcess(p)
  /\ UNCHANGED faults

Crash(p) == Fault /\ EndProcess(p)

Signal(p) ==
  /\ process[p] = "up" /\ context[p] = "live"
  /\ Fault
  /\ context' = [context EXCEPT ![p] = "canceled"]
  /\ UNCHANGED <<place, holder, finished, broken, process, link, start, stopper, expirer, pc, work>>

LoseConnection(p) ==
  /\ process[p] = "up" /\ link[p] = "open"
  /\ Fault
  /\ link' = [link EXCEPT ![p] = "lost"]
  /\ GiveBackAll(p)
  /\ UNCHANGED <<finished, broken, process, context, start, stopper, expirer, pc, work>>

-----------------------------------------------------------------------------
(* Channel, QueueDeclare, Qos and Consume: any of them fails on a lost      *)
(* connection, and may fail on one that is open.                            *)
SetUp(p, q) ==
  /\ process[p] = "up" /\ q \in Registered[p] /\ pc[p][q] = "setup"
  /\ \/ link[p] = "open" /\ Step(p, q, "select") /\ UNCHANGED faults
     \/ link[p] = "open" /\ Step(p, q, "failed") /\ Fault
     \/ link[p] = "lost" /\ Step(p, q, "failed") /\ UNCHANGED faults
  /\ UNCHANGED <<broker, finished, broken, group, work>>

Subscribed(p, q) == process[p] = "up" /\ link[p] = "open" /\ pc[p][q] \notin {"setup", "failed", "ended"}

(* Qos(1): the broker sends a message when none is unacknowledged. *)
Deliver(p, m) ==
  /\ Subscribed(p, QueueOf[m])
  /\ place[m] = "ready" /\ HeldBy(p, QueueOf[m]) = {}
  /\ place' = [place EXCEPT ![m] = "sent"]
  /\ holder' = [holder EXCEPT ![m] = p]
  /\ UNCHANGED <<finished, broken, faults, group, pc, work>>

(* The case msgs of the select. The library closes msgs with the            *)
(* connection, and a closed channel yields empty deliveries without end.    *)
Receive(p, q) ==
  /\ process[p] = "up" /\ pc[p][q] = "select"
  /\ \/ \E m \in HeldBy(p, q) :
          /\ place[m] = "sent"
          /\ place' = [place EXCEPT ![m] = "taken"]
          /\ work' = [work EXCEPT ![p][q] = m]
     \/ link[p] = "lost" /\ UNCHANGED <<place, work>>
  /\ Step(p, q, "handle")
  /\ UNCHANGED <<holder, finished, broken, faults, group>>

(* The handler gets the context of the group: it may fail when that is      *)
(* canceled. An error may hide that the transaction went through. An empty  *)
(* delivery does not parse, which the handlers take for a poison pill.      *)
Handle(p, q) ==
  LET m == work[p][q]
  IN  /\ process[p] = "up" /\ pc[p][q] = "handle"
      /\ \/ /\ Step(p, q, "ack")
            /\ finished' = IF m = NoMessage THEN finished ELSE finished \union {m}
            /\ UNCHANGED <<broken, faults>>
         \/ /\ m # NoMessage
            /\ Step(p, q, "requeue")
            /\ finished' \in {finished, finished \union {m}}
            /\ Fault \/ (context[p] = "canceled" /\ UNCHANGED faults)
            /\ UNCHANGED broken
         \/ /\ m # NoMessage
            /\ Step(p, q, "reject")
            /\ broken' = broken \union {m}
            /\ Fault
            /\ UNCHANGED finished
      /\ UNCHANGED <<broker, group, work>>

(* Mutant: whatever goes wrong, the message is not put back. *)
Mutant_PlaceAfter(answer) == IF answer = "ack" THEN "acked" ELSE "rejected"

(* Ack(false), Nack(false, true) and Nack(false, false). On a connection    *)
(* that is lost they return an error nobody looks at.                       *)
PlaceAfter(answer) ==
  CASE answer = "ack" -> "acked" [] answer = "requeue" -> "ready" [] OTHER -> "rejected"

(* Mutant: an error is logged, and the message stays with the consumer. *)
Mutant_Answer(p, q) ==
  LET m == work[p][q]
  IN  /\ process[p] = "up" /\ pc[p][q] \in {"ack", "requeue", "reject"}
      /\ IF m # NoMessage /\ m \in HeldBy(p, q) /\ pc[p][q] # "requeue"
         THEN /\ place' = [place EXCEPT ![m] = PlaceAfter(pc[p][q])]
              /\ holder' = [holder EXCEPT ![m] = NoPod]
         ELSE UNCHANGED broker
      /\ Step(p, q, "select")
      /\ work' = [work EXCEPT ![p][q] = NoMessage]
      /\ UNCHANGED <<finished, broken, faults, group>>

(* Mutant: a delivery is answered without looking at its Acknowledger. *)
Mutant_AnswerAnything(p, q) ==
  LET m == work[p][q]
  IN  /\ process[p] = "up" /\ pc[p][q] \in {"ack", "requeue", "reject"}
      /\ place' = [n \in DOMAIN place \union {m} |->
                     IF n = m THEN PlaceAfter(pc[p][q]) ELSE place[n]]
      /\ holder' = [holder EXCEPT ![m] = NoPod]
      /\ Step(p, q, "select")
      /\ work' = [work EXCEPT ![p][q] = NoMessage]
      /\ UNCHANGED <<finished, broken, faults, group>>

Answer(p, q) ==
  LET m == work[p][q]
  IN  /\ process[p] = "up" /\ pc[p][q] \in {"ack", "requeue", "reject"}
      /\ IF m # NoMessage /\ m \in HeldBy(p, q)
         THEN /\ place' = [place EXCEPT ![m] = PlaceAfter(pc[p][q])]
              /\ holder' = [holder EXCEPT ![m] = NoPod]
         ELSE UNCHANGED broker
      /\ Step(p, q, "select")
      /\ work' = [work EXCEPT ![p][q] = NoMessage]
      /\ UNCHANGED <<finished, broken, faults, group>>

(* The case ctx.Done of the select. *)
Quit(p, q) ==
  /\ process[p] = "up" /\ context[p] = "canceled" /\ pc[p][q] = "select"
  /\ Step(p, q, "canceled")
  /\ UNCHANGED <<broker, finished, broken, faults, group, work>>

(* Mutant: the group does not cancel its context on an error. *)
Mutant_Report(p, q) ==
  /\ process[p] = "up" /\ start[p] = "receiving"
  /\ pc[p][q] \in {"failed", "canceled"}
  /\ Step(p, q, "ended")
  /\ start' = [start EXCEPT ![p] = "returned"]
  /\ GiveBack(HeldBy(p, q))
  /\ UNCHANGED <<finished, broken, faults, process, link, context, stopper, expirer, work>>

(* done is unbuffered and Start receives from it once: one goroutine gets   *)
(* its report through and closes its channel, the others keep theirs. What  *)
(* Start returns cancels the group, unless that was canceled already.       *)
Report(p, q) ==
  /\ process[p] = "up" /\ start[p] = "receiving"
  /\ pc[p][q] \in {"failed", "canceled"}
  /\ Step(p, q, "ended")
  /\ start' = [start EXCEPT ![p] = "returned"]
  /\ context' = [context EXCEPT ![p] = "canceled"]
  /\ GiveBack(HeldBy(p, q))
  /\ UNCHANGED <<finished, broken, faults, process, link, stopper, expirer, work>>

-----------------------------------------------------------------------------
(* The expirer's goroutine runs its task in the context of nobody, and      *)
(* receives from its done channel only between two runs.                    *)
RunExpirer(p) ==
  /\ process[p] = "up"
  /\ expirer[p] = "idle" /\ stopper[p] = "waiting"
  /\ expirer' = [expirer EXCEPT ![p] = "running"]
  /\ UNCHANGED <<broker, finished, broken, faults, process, link, context, start, stopper, pc, work>>

ExpirerDone(p) ==
  /\ process[p] = "up"
  /\ expirer[p] = "running"
  /\ expirer' = [expirer EXCEPT ![p] = "idle"]
  /\ UNCHANGED <<broker, finished, broken, faults, process, link, context, start, stopper, pc, work>>

StopTicker(p) ==
  /\ process[p] = "up" /\ context[p] = "canceled" /\ stopper[p] = "waiting"
  /\ stopper' = [stopper EXCEPT ![p] = "stopping"]
  /\ UNCHANGED <<broker, finished, broken, faults, process, link, context, start, expirer, pc, work>>

StopExpirer(p) ==
  /\ process[p] = "up" /\ stopper[p] = "stopping" /\ expirer[p] = "idle"
  /\ stopper' = [stopper EXCEPT ![p] = "returned"]
  /\ expirer' = [expirer EXCEPT ![p] = "ended"]
  /\ UNCHANGED <<broker, finished, broken, faults, process, link, context, start, pc, work>>

-----------------------------------------------------------------------------
Serve(p, q) == SetUp(p, q) \/ Receive(p, q) \/ Handle(p, q) \/ Answer(p, q) \/ Report(p, q)

Stop(p) == StopTicker(p) \/ StopExpirer(p)

Restart(p) == Exit(p) \/ StartProcess(p)

Next ==
  \E p \in Pods :
    \/ Restart(p) \/ Stop(p)
    \/ RunExpirer(p) \/ ExpirerDone(p)
    \/ Crash(p) \/ Signal(p) \/ LoseConnection(p)
    \/ \E q \in Queues : Serve(p, q) \/ Quit(p, q)
    \/ \E m \in Messages : Deliver(p, m)

Spec == Init /\ [][Next]_vars

(* Handlers, the task of the expirer and the broker answer in the end, and  *)
(* a pod that has ended is started again. A select with two cases ready     *)
(* takes each of them sooner or later.                                      *)
FairSpec ==
  /\ Spec
  /\ \A p \in Pods : WF_vars(Restart(p)) /\ WF_vars(Stop(p)) /\ WF_vars(ExpirerDone(p))
  /\ \A p \in Pods, q \in Queues : WF_vars(Serve(p, q)) /\ SF_vars(Quit(p, q))
  /\ \A m \in Messages : SF_vars(\E p \in Pods : Deliver(p, m))

-----------------------------------------------------------------------------
(* Whatever fails, whoever crashes and however often a message is sent      *)
(* again, it leaves its queue only finished, or broken by a panic: the      *)
(* consumer implements the queue of tasks its publishers count on.          *)
Tasks == INSTANCE WorkQueue
           WITH place <- [m \in Messages |-> IF place[m] \in {"sent", "taken"}
                                             THEN "unacked" ELSE place[m]]
ImplementsWorkQueue == Tasks!Spec

(* A process that was told to end, or one of whose queues could not be set  *)
(* up, ends, though one report is received of all its queues, a handler may *)
(* be under way and the expirer may be in the middle of a run.              *)
ShutdownCompletes ==
  \A p \in Pods :
    context[p] = "canceled" \/ (\E q \in Queues : pc[p][q] = "failed") ~> process[p] = "down"

(* Every message is settled, also when a handler failed on it or the pod    *)
(* that held it has gone, unless each pod has lost its connection: a        *)
(* consumer never connects again.                                           *)
EveryMessageSettled ==
  \A m \in Messages :
    <>(place[m] \in {"acked", "rejected"} \/ \A p \in Pods : link[p] = "lost")
=============================================================================
