---------------------------- MODULE ConsumerProofs ----------------------------
(***************************************************************************)
(* For any pods, queues and messages, and any number of failures, losses,   *)
(* signals and crashes: the consumer implements the queue of tasks.         *)
(*                                                                         *)
(* The inductive invariant says that a connection holds only what was sent  *)
(* to its pod and not answered, and that a goroutine about to acknowledge   *)
(* or to reject a message has seen it finished, or has broken on it.        *)
(***************************************************************************)
EXTENDS Consumer, TLAPS

HeldIsUnanswered ==
  \A m \in Messages : holder[m] \in Pods => place[m] \in {"sent", "taken"}

AnswersAreJust ==
  \A p \in Pods, q \in Queues :
    /\ pc[p][q] = "ack" /\ work[p][q] # NoMessage => work[p][q] \in finished
    /\ pc[p][q] = "reject" /\ work[p][q] # NoMessage => work[p][q] \in broken

IInv == TypeOK /\ HeldIsUnanswered /\ AnswersAreJust

LEMMA InitHolds == Init => IInv
  BY ConsumerAssumption DEF Init, IInv, TypeOK, HeldIsUnanswered, AnswersAreJust

-----------------------------------------------------------------------------
(* A channel that ends: what it held is ready again.                        *)
LEMMA GivingBack ==
  ASSUME TypeOK, HeldIsUnanswered, NEW S \in SUBSET Messages, GiveBack(S)
  PROVE  /\ place' \in [Messages -> {"ready", "sent", "taken", "acked", "rejected"}]
         /\ holder' \in [Messages -> Pods \union {NoPod}]
         /\ HeldIsUnanswered'
  BY ConsumerAssumption DEF GiveBack, TypeOK, HeldIsUnanswered

LEMMA HeldAreMessages ==
  ASSUME NEW p \in Pods
  PROVE  /\ \A q \in Queues : HeldBy(p, q) \in SUBSET Messages
         /\ UNION {HeldBy(p, q) : q \in Queues} \in SUBSET Messages
  BY DEF HeldBy

(* A step of one goroutine keeps the types of pc and work, and what the     *)
(* others are about to answer stays just.                                   *)
LEMMA GoroutineSteps ==
  ASSUME IInv, NEW p \in Pods, NEW q \in Queues,
         NEW next \in {"setup", "select", "handle", "ack", "requeue",
                       "reject", "failed", "canceled", "ended"},
         NEW m \in Messages \union {NoMessage},
         pc' = [pc EXCEPT ![p][q] = next],
         work' = [work EXCEPT ![p][q] = m],
         finished' \in SUBSET Messages, finished \subseteq finished',
         broken' \in SUBSET Messages, broken \subseteq broken',
         next = "ack" /\ m # NoMessage => m \in finished',
         next = "reject" /\ m # NoMessage => m \in broken'
  PROVE  /\ AnswersAreJust'
         /\ pc' \in [Pods -> [Queues -> {"setup", "select", "handle", "ack", "requeue",
                                         "reject", "failed", "canceled", "ended"}]]
         /\ work' \in [Pods -> [Queues -> Messages \union {NoMessage}]]
<1>0. TypeOK /\ AnswersAreJust
  BY DEF IInv
<1>1. pc'[p][q] = next /\ work'[p][q] = m
  BY <1>0 DEF TypeOK
<1>2. \A r \in Pods, s \in Queues :
        r # p \/ s # q => pc'[r][s] = pc[r][s] /\ work'[r][s] = work[r][s]
  BY <1>0 DEF TypeOK
<1>3. AnswersAreJust'
  BY <1>0, <1>1, <1>2 DEF AnswersAreJust
<1> QED
  BY <1>0, <1>3 DEF TypeOK

LEMMA StayingPut ==
  ASSUME TypeOK, NEW p \in Pods, NEW q \in Queues
  PROVE  work = [work EXCEPT ![p][q] = work[p][q]] /\ work[p][q] \in Messages \union {NoMessage}
  BY DEF TypeOK

-----------------------------------------------------------------------------
LEMMA EndingKeeps ==
  ASSUME IInv, NEW p \in Pods, EndProcess(p), faults' \in Nat PROVE IInv'
<1>0. TypeOK /\ HeldIsUnanswered /\ AnswersAreJust
  BY DEF IInv
<1>1. /\ place' \in [Messages -> {"ready", "sent", "taken", "acked", "rejected"}]
      /\ holder' \in [Messages -> Pods \union {NoPod}]
      /\ HeldIsUnanswered'
  BY <1>0, GivingBack, HeldAreMessages DEF EndProcess, GiveBackAll
<1>2. TypeOK'
  BY <1>0, <1>1 DEF EndProcess, TypeOK
<1>3. AnswersAreJust'
  BY <1>0 DEF EndProcess, AnswersAreJust, TypeOK
<1> QED
  BY <1>1, <1>2, <1>3 DEF IInv

LEMMA GroupKeeps ==
  ASSUME IInv, NEW p \in Pods,
         \/ StartProcess(p) \/ Signal(p) \/ StopTicker(p) \/ StopExpirer(p)
         \/ RunExpirer(p) \/ ExpirerDone(p)
  PROVE  IInv'
<1>0. TypeOK /\ HeldIsUnanswered /\ AnswersAreJust
  BY DEF IInv
<1>1. UNCHANGED <<place, holder, finished, broken, pc, work>>
  BY DEF StartProcess, Signal, StopTicker, StopExpirer, RunExpirer, ExpirerDone, broker
<1>2. ASSUME StartProcess(p) PROVE TypeOK'
  BY <1>0, <1>1, <1>2 DEF TypeOK, StartProcess
<1>3. ASSUME Signal(p) PROVE TypeOK'
  BY <1>0, <1>1, <1>3 DEF TypeOK, Signal, Fault
<1>4. ASSUME StopTicker(p) PROVE TypeOK'
  BY <1>0, <1>1, <1>4 DEF TypeOK, StopTicker
<1>5. ASSUME StopExpirer(p) PROVE TypeOK'
  BY <1>0, <1>1, <1>5 DEF TypeOK, StopExpirer
<1>6. ASSUME RunExpirer(p) PROVE TypeOK'
  BY <1>0, <1>1, <1>6 DEF TypeOK, RunExpirer
<1>7. ASSUME ExpirerDone(p) PROVE TypeOK'
  BY <1>0, <1>1, <1>7 DEF TypeOK, ExpirerDone
<1>8. TypeOK'
  BY <1>2, <1>3, <1>4, <1>5, <1>6, <1>7
<1> QED
  BY <1>0, <1>1, <1>8 DEF IInv, HeldIsUnanswered, AnswersAreJust

LEMMA LosingKeeps ==
  ASSUME IInv, NEW p \in Pods, LoseConnection(p) PROVE IInv'
<1>0. TypeOK /\ HeldIsUnanswered /\ AnswersAreJust
  BY DEF IInv
<1>1. /\ place' \in [Messages -> {"ready", "sent", "taken", "acked", "rejected"}]
      /\ holder' \in [Messages -> Pods \union {NoPod}]
      /\ HeldIsUnanswered'
  BY <1>0, GivingBack, HeldAreMessages DEF LoseConnection, GiveBackAll
<1>2. TypeOK'
  BY <1>0, <1>1 DEF LoseConnection, TypeOK, Fault
<1> QED
  BY <1>0, <1>1, <1>2 DEF LoseConnection, IInv, AnswersAreJust

LEMMA SetUpKeeps ==
  ASSUME IInv, NEW p \in Pods, NEW q \in Queues, SetUp(p, q) \/ Quit(p, q) PROVE IInv'
<1>0. TypeOK /\ HeldIsUnanswered
  BY DEF IInv
<1>1. /\ UNCHANGED <<place, holder, finished, broken, work, process, link, context,
                     start, stopper, expirer>>
      /\ faults' \in Nat
  BY <1>0 DEF SetUp, Quit, Fault, broker, group, TypeOK
<1>5. PICK next \in {"select", "failed", "canceled"} : pc' = [pc EXCEPT ![p][q] = next]
  BY DEF SetUp, Quit, Step
<1>2. work' = [work EXCEPT ![p][q] = work[p][q]]
  BY <1>0, <1>1, StayingPut
<1>3. /\ AnswersAreJust'
      /\ pc' \in [Pods -> [Queues -> {"setup", "select", "handle", "ack", "requeue",
                                      "reject", "failed", "canceled", "ended"}]]
  <2>1. /\ work[p][q] \in Messages \union {NoMessage}
        /\ finished' = finished /\ finished \in SUBSET Messages
        /\ broken' = broken /\ broken \in SUBSET Messages
    BY <1>0, <1>1, StayingPut DEF TypeOK
  <2> QED
    BY <1>2, <1>5, <2>1, GoroutineSteps
<1> QED
  BY <1>0, <1>1, <1>3 DEF IInv, TypeOK, HeldIsUnanswered

LEMMA DeliverKeeps ==
  ASSUME IInv, NEW p \in Pods, NEW m \in Messages, Deliver(p, m) PROVE IInv'
  BY DEF IInv, Deliver, TypeOK, HeldIsUnanswered, AnswersAreJust, group

LEMMA ReceiveKeeps ==
  ASSUME IInv, NEW p \in Pods, NEW q \in Queues, Receive(p, q) PROVE IInv'
<1>0. TypeOK /\ HeldIsUnanswered
  BY DEF IInv
<1>1. PICK m \in Messages \union {NoMessage} : work' = [work EXCEPT ![p][q] = m]
  BY <1>0, StayingPut DEF Receive, HeldBy
<1>2. /\ AnswersAreJust'
      /\ pc' \in [Pods -> [Queues -> {"setup", "select", "handle", "ack", "requeue",
                                      "reject", "failed", "canceled", "ended"}]]
      /\ work' \in [Pods -> [Queues -> Messages \union {NoMessage}]]
  BY <1>0, <1>1, GoroutineSteps DEF Receive, Step, TypeOK
<1>3. /\ place' \in [Messages -> {"ready", "sent", "taken", "acked", "rejected"}]
      /\ HeldIsUnanswered'
  <2>1. CASE place' = place
    BY <1>0, <2>1 DEF Receive, TypeOK, HeldIsUnanswered
  <2>2. ASSUME NEW m2 \in Messages, place' = [place EXCEPT ![m2] = "taken"]
        PROVE  /\ place' \in [Messages -> {"ready", "sent", "taken", "acked", "rejected"}]
               /\ HeldIsUnanswered'
    BY <1>0, <2>2 DEF Receive, TypeOK, HeldIsUnanswered
  <2> QED
    BY <2>1, <2>2 DEF Receive, HeldBy
<1> QED
  BY <1>0, <1>2, <1>3 DEF Receive, IInv, TypeOK, group

LEMMA HandleKeeps ==
  ASSUME IInv, NEW p \in Pods, NEW q \in Queues, Handle(p, q) PROVE IInv'
<1>0. TypeOK /\ HeldIsUnanswered
  BY DEF IInv
<1>1. /\ UNCHANGED <<place, holder, work, process, link, context, start, stopper, expirer>>
      /\ faults' \in Nat
      /\ finished' \in SUBSET Messages /\ finished \subseteq finished'
      /\ broken' \in SUBSET Messages /\ broken \subseteq broken'
  BY <1>0, StayingPut DEF Handle, Fault, broker, group, TypeOK
<1>2. PICK next \in {"ack", "requeue", "reject"} :
        /\ pc' = [pc EXCEPT ![p][q] = next]
        /\ next = "ack" /\ work[p][q] # NoMessage => work[p][q] \in finished'
        /\ next = "reject" /\ work[p][q] # NoMessage => work[p][q] \in broken'
  BY DEF Handle, Step
<1>3. work' = [work EXCEPT ![p][q] = work[p][q]]
  BY <1>0, <1>1, StayingPut
<1>4. /\ AnswersAreJust'
      /\ pc' \in [Pods -> [Queues -> {"setup", "select", "handle", "ack", "requeue",
                                      "reject", "failed", "canceled", "ended"}]]
  BY <1>0, <1>1, <1>2, <1>3, StayingPut, GoroutineSteps, ZenonT(60)
<1> QED
  BY <1>0, <1>1, <1>4 DEF IInv, TypeOK, HeldIsUnanswered

LEMMA AnswerKeeps ==
  ASSUME IInv, NEW p \in Pods, NEW q \in Queues, Answer(p, q) PROVE IInv'
<1>0. TypeOK /\ HeldIsUnanswered
  BY DEF IInv
<1>1. /\ AnswersAreJust'
      /\ pc' \in [Pods -> [Queues -> {"setup", "select", "handle", "ack", "requeue",
                                      "reject", "failed", "canceled", "ended"}]]
      /\ work' \in [Pods -> [Queues -> Messages \union {NoMessage}]]
  BY <1>0, GoroutineSteps DEF Answer, Step, TypeOK
<1>2. /\ place' \in [Messages -> {"ready", "sent", "taken", "acked", "rejected"}]
      /\ holder' \in [Messages -> Pods \union {NoPod}]
      /\ HeldIsUnanswered'
  <2>1. PlaceAfter(pc[p][q]) \in {"ready", "acked", "rejected"}
    BY DEF PlaceAfter
  <2>2. CASE UNCHANGED broker
    BY <1>0, <2>2 DEF broker, TypeOK, HeldIsUnanswered
  <2>3. ASSUME NEW m \in Messages, NEW new \in {"ready", "acked", "rejected"},
               place' = [place EXCEPT ![m] = new], holder' = [holder EXCEPT ![m] = NoPod]
        PROVE  /\ place' \in [Messages -> {"ready", "sent", "taken", "acked", "rejected"}]
               /\ holder' \in [Messages -> Pods \union {NoPod}]
               /\ HeldIsUnanswered'
    BY <1>0, <2>3, ConsumerAssumption DEF TypeOK, HeldIsUnanswered
  <2> QED
    BY <2>1, <2>2, <2>3 DEF Answer, HeldBy
<1> QED
  BY <1>0, <1>1, <1>2 DEF Answer, IInv, TypeOK, group

LEMMA ReportKeeps ==
  ASSUME IInv, NEW p \in Pods, NEW q \in Queues, Report(p, q) PROVE IInv'
<1>0. TypeOK /\ HeldIsUnanswered
  BY DEF IInv
<1>1. work' = [work EXCEPT ![p][q] = work[p][q]]
  BY <1>0, StayingPut DEF Report
<1>2. /\ AnswersAreJust'
      /\ pc' \in [Pods -> [Queues -> {"setup", "select", "handle", "ack", "requeue",
                                      "reject", "failed", "canceled", "ended"}]]
  <2>1. pc' = [pc EXCEPT ![p][q] = "ended"] /\ finished' = finished /\ broken' = broken
    BY DEF Report, Step
  <2>2. work[p][q] \in Messages \union {NoMessage}
    BY <1>0, StayingPut
  <2>3. finished' \in SUBSET Messages /\ broken' \in SUBSET Messages
    BY <1>0, <2>1 DEF TypeOK
  <2> QED
    BY <1>1, <2>1, <2>2, <2>3, GoroutineSteps
<1>3. /\ place' \in [Messages -> {"ready", "sent", "taken", "acked", "rejected"}]
      /\ holder' \in [Messages -> Pods \union {NoPod}]
      /\ HeldIsUnanswered'
  BY <1>0, GivingBack, HeldAreMessages DEF Report
<1> QED
  BY <1>0, <1>2, <1>3 DEF Report, IInv, TypeOK

LEMMA StepKeeps == IInv /\ [Next]_vars => IInv'
<1> SUFFICES ASSUME IInv, [Next]_vars PROVE IInv'
  OBVIOUS
<1>1. ASSUME NEW p \in Pods, Restart(p) \/ Crash(p) PROVE IInv'
  BY <1>1, EndingKeeps, GroupKeeps DEF Restart, Exit, Crash, Fault, IInv, TypeOK
<1>2. ASSUME NEW p \in Pods, Stop(p) \/ RunExpirer(p) \/ ExpirerDone(p) \/ Signal(p) PROVE IInv'
  BY <1>2, GroupKeeps DEF Stop
<1>3. ASSUME NEW p \in Pods, NEW q \in Queues, Serve(p, q) \/ Quit(p, q) PROVE IInv'
  BY <1>3, SetUpKeeps, ReceiveKeeps, HandleKeeps, AnswerKeeps, ReportKeeps DEF Serve
<1>4. CASE UNCHANGED vars
  BY <1>4 DEF vars, IInv, TypeOK, HeldIsUnanswered, AnswersAreJust
<1> QED
  BY <1>1, <1>2, <1>3, <1>4, LosingKeeps, DeliverKeeps DEF Next

(* Every reachable state satisfies the inductive invariant.                 *)
THEOREM InvariantHolds == Spec => []IInv
  BY InitHolds, StepKeeps, PTL DEF Spec

(* The variables of the consumer keep their types; above all, an empty      *)
(* delivery of a lost connection is never answered.                         *)
THEOREM TypeCorrect == Spec => []TypeOK
  BY InvariantHolds, PTL DEF IInv

-----------------------------------------------------------------------------
(* The refinement: a delivery takes a message, an answer completes, returns *)
(* or discards it, a channel that ends returns what it held.                *)

LEMMA InitRefines == Init => Tasks!Init
  BY DEF Init, Tasks!Init

LEMMA GivingBackReturns ==
  ASSUME IInv, NEW S \in SUBSET Messages, \A m \in S : holder[m] \in Pods,
         GiveBack(S), UNCHANGED <<finished, broken>>
  PROVE  Tasks!Next
<1>1. Tasks!Return(S)
  BY DEF GiveBack, IInv, TypeOK, HeldIsUnanswered, Tasks!Return
<1> QED
  BY <1>1 DEF Tasks!Next

LEMMA EndingReturns ==
  ASSUME IInv, NEW p \in Pods, GiveBackAll(p), UNCHANGED <<finished, broken>>
  PROVE  Tasks!Next
<1>1. \A m \in UNION {HeldBy(p, q) : q \in Queues} : holder[m] \in Pods
  BY DEF HeldBy
<1> QED
  BY <1>1, GivingBackReturns, HeldAreMessages DEF GiveBackAll

LEMMA AnswerRefines ==
  ASSUME IInv, NEW p \in Pods, NEW q \in Queues, Answer(p, q)
  PROVE  Tasks!Next \/ UNCHANGED Tasks!vars
<1>1. CASE UNCHANGED broker
  BY <1>1 DEF Answer, broker, Tasks!vars
<1>2. ASSUME NEW m \in Messages, m = work[p][q], m # NoMessage, m \in HeldBy(p, q),
             place' = [place EXCEPT ![m] = PlaceAfter(pc[p][q])]
      PROVE  Tasks!Next
  <2>0. place[m] \in {"sent", "taken"} /\ UNCHANGED <<finished, broken>>
    BY <1>2 DEF HeldBy, IInv, HeldIsUnanswered, Answer
  <2>1. CASE pc[p][q] = "ack"
    <3>1. m \in finished
      BY <1>2, <2>1 DEF IInv, AnswersAreJust
    <3>2. Tasks!Complete(m)
      BY <1>2, <2>0, <2>1, <3>1, ZenonT(60) DEF PlaceAfter, IInv, TypeOK, Tasks!Complete
    <3> QED
      BY <3>2 DEF Tasks!Next
  <2>2. CASE pc[p][q] = "requeue"
    <3>1. Tasks!Return({m})
      BY <1>2, <2>0, <2>2 DEF PlaceAfter, IInv, TypeOK, Tasks!Return
    <3> QED
      BY <3>1 DEF Tasks!Next
  <2>3. CASE pc[p][q] = "reject"
    <3>1. m \in broken
      BY <1>2, <2>3 DEF IInv, AnswersAreJust
    <3>2. PlaceAfter(pc[p][q]) = "rejected"
      BY <2>3 DEF PlaceAfter
    <3>3. Tasks!Discard(m)
      BY <1>2, <2>0, <3>1, <3>2, ZenonT(60) DEF IInv, TypeOK, Tasks!Discard
    <3> QED
      BY <3>3 DEF Tasks!Next
  <2> QED
    BY <2>1, <2>2, <2>3 DEF Answer
<1> QED
  BY <1>1, <1>2 DEF Answer, HeldBy

LEMMA HandleRefines ==
  ASSUME IInv, NEW p \in Pods, NEW q \in Queues, Handle(p, q)
  PROVE  Tasks!Next \/ UNCHANGED Tasks!vars
<1>1. place' = place
  BY DEF Handle, broker
<1>2. CASE finished' = finished /\ broken' = broken
  BY <1>1, <1>2 DEF Tasks!vars
<1>3. ASSUME NEW m \in Messages, finished' = finished \union {m}, broken' = broken
      PROVE  Tasks!Next
  BY <1>1, <1>3 DEF Tasks!Finish, Tasks!Next
<1>4. ASSUME NEW m \in Messages, broken' = broken \union {m}, finished' = finished
      PROVE  Tasks!Next
  BY <1>1, <1>4 DEF Tasks!Break, Tasks!Next
<1>5. work[p][q] \in Messages \union {NoMessage}
  BY DEF IInv, TypeOK
<1> QED
  BY <1>2, <1>3, <1>4, <1>5 DEF Handle

LEMMA StepRefines == IInv /\ [Next]_vars => [Tasks!Next]_(Tasks!vars)
<1> SUFFICES ASSUME IInv, [Next]_vars PROVE [Tasks!Next]_(Tasks!vars)
  OBVIOUS
<1>1. ASSUME NEW p \in Pods, Exit(p) \/ Crash(p) \/ LoseConnection(p) PROVE Tasks!Next
  BY <1>1, EndingReturns DEF Exit, Crash, EndProcess, LoseConnection
<1>2. ASSUME NEW p \in Pods,
             \/ StartProcess(p) \/ Stop(p) \/ RunExpirer(p) \/ ExpirerDone(p) \/ Signal(p)
      PROVE  UNCHANGED Tasks!vars
  BY <1>2 DEF StartProcess, Stop, StopTicker, StopExpirer, RunExpirer, ExpirerDone, Signal,
              broker, Tasks!vars
<1>3. ASSUME NEW p \in Pods, NEW q \in Queues, SetUp(p, q) \/ Quit(p, q)
      PROVE  UNCHANGED Tasks!vars
  BY <1>3 DEF SetUp, Quit, broker, Tasks!vars
<1>4. ASSUME NEW p \in Pods, NEW q \in Queues, Receive(p, q)
      PROVE  UNCHANGED Tasks!vars
  BY <1>4 DEF Receive, HeldBy, IInv, TypeOK, Tasks!vars
<1>5. ASSUME NEW p \in Pods, NEW q \in Queues, Report(p, q)
      PROVE  Tasks!Next
  BY <1>5, GivingBackReturns, HeldAreMessages DEF Report, HeldBy
<1>6. ASSUME NEW p \in Pods, NEW m \in Messages, Deliver(p, m) PROVE Tasks!Next
  <2>1. Tasks!Take(m)
    BY <1>6 DEF Deliver, IInv, TypeOK, Tasks!Take
  <2> QED
    BY <2>1 DEF Tasks!Next
<1>7. CASE UNCHANGED vars
  BY <1>7 DEF vars, Tasks!vars
<1> QED
  BY <1>1, <1>2, <1>3, <1>4, <1>5, <1>6, <1>7, AnswerRefines, HandleRefines
  DEF Next, Restart, Serve

(* The consumer implements WorkQueue: whatever fails, a message leaves its  *)
(* queue only after a handler has finished it or has panicked on it.        *)
THEOREM ConsumerImplementsWorkQueue == Spec => ImplementsWorkQueue
  BY InvariantHolds, InitRefines, StepRefines, PTL
  DEF Spec, ImplementsWorkQueue, Tasks!Spec
=============================================================================
