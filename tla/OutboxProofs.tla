---------------------------- MODULE OutboxProofs ----------------------------
(***************************************************************************)
(* For any number of events and processors, any batch size and any faults:  *)
(* an event is held by one processor at a time, the broker gets one copy    *)
(* more than there were retries at most, and the outbox implements          *)
(* EventDelivery.                                                           *)
(*                                                                         *)
(* The inductive invariant says what a claim means: an event in a batch is  *)
(* PROCESSING, so that no other processor can claim it, and the extra copy  *)
(* is sent while its holder has it in hand, or after it is out of reach.    *)
(***************************************************************************)
EXTENDS Outbox, TLAPS

(* An event with the claim id of a running processor is PROCESSING.         *)
Holding == \A p \in Processors : \A e \in batch[p] : status[e] = "PROCESSING"

InHand(p, e) == pc[p] \in {"sent", "failed"} /\ current[p] = e

(* The event in hand belongs to the batch, and was sent if that succeeded.  *)
HandInBatch ==
  \A p \in Processors :
    /\ pc[p] \in {"sent", "failed"} => current[p] \in batch[p]
    /\ pc[p] = "sent" => sent[current[p]] > 0

(* Before an event is taken in hand, its retries account for every copy.    *)
Counted ==
  /\ \A e \in Events : status[e] \in {"none", "PENDING"} => sent[e] <= retries[e]
  /\ \A p \in Processors : \A e \in batch[p] : ~InHand(p, e) => sent[e] <= retries[e]

IInv == TypeOK /\ Holding /\ OneHolder /\ HandInBatch /\ Counted /\ CopiesWithinRetries

LEMMA InitHolds == Init => IInv
  BY OutboxAssumption
  DEF Init, IInv, TypeOK, Holding, OneHolder, HandInBatch, Counted, InHand,
      CopiesWithinRetries

(* A processor that leaves the loop, by a failure or a restart, only loses  *)
(* sight of its events.                                                     *)
LEMMA LettingGo ==
  ASSUME IInv, NEW p \in Processors,
         pc' = [pc EXCEPT ![p] = "idle"],
         candidates' = [candidates EXCEPT ![p] = {}],
         batch' = [batch EXCEPT ![p] = {}],
         current' \in [Processors -> Events \union {NoEvent}],
         \A q \in Processors \ {p} : current'[q] = current[q],
         cancelled' \in [Processors -> BOOLEAN],
         UNCHANGED <<status, retries, sent>>
  PROVE  IInv'
<1> USE DEF IInv
<1>1. TypeOK'
  BY DEF TypeOK
<1>2. Holding' /\ OneHolder'
  BY DEF TypeOK, Holding, OneHolder
<1>3. HandInBatch' /\ Counted'
  BY DEF TypeOK, HandInBatch, Counted, InHand
<1>4. CopiesWithinRetries'
  BY DEF CopiesWithinRetries
<1> QED
  BY <1>1, <1>2, <1>3, <1>4

(* Done with the event in hand: whatever its status becomes, the invariant  *)
(* asks that its retries account for its copies if it is pending again.     *)
LEMMA Advancing ==
  ASSUME IInv, NEW p \in Processors, pc[p] \in {"sent", "failed"}, Advance(p),
         NEW new \in {"PENDING", "PROCESSING", "PROCESSED"},
         status' = [status EXCEPT ![current[p]] = new],
         retries' \in [Events -> Nat],
         \A e \in Events : retries'[e] >= retries[e],
         new = "PENDING" => retries'[current[p]] = retries[current[p]] + 1
  PROVE  IInv'
<1> USE DEF IInv
<1> DEFINE c == current[p]
<1>0. c \in batch[p] /\ c \in Events
  BY DEF HandInBatch, TypeOK
<1>1. TypeOK'
  BY <1>0 DEF TypeOK, Advance
<1>2. \A q \in Processors : q # p => c \notin batch[q]
  BY <1>0 DEF OneHolder
<1>3. \A q \in Processors : batch'[q] = batch[q] \ {c}
  <2> TAKE q \in Processors
  <2>1. CASE q = p
    BY <2>1 DEF Advance, TypeOK
  <2>2. CASE q # p
    BY <2>2, <1>2 DEF Advance, TypeOK
  <2> QED
    BY <2>1, <2>2
<1>4. \A e \in Events : e # c => status'[e] = status[e]
  BY DEF TypeOK
<1>5. Holding' /\ OneHolder'
  BY <1>3, <1>4 DEF Holding, OneHolder, TypeOK
<1>6. \A q \in Processors : q # p => pc'[q] = pc[q] /\ current'[q] = current[q]
  BY DEF Advance, TypeOK
<1>7. pc'[p] \in {"idle", "publishing"}
  BY DEF Advance, TypeOK
<1>8. sent' = sent
  BY DEF Advance
<1>12. \A e \in Events : /\ sent[e] \in Nat /\ retries[e] \in Nat /\ retries'[e] \in Nat
                           /\ retries[e] <= retries'[e]
  BY DEF TypeOK
<1>9. HandInBatch'
  <2> SUFFICES ASSUME NEW q \in Processors, pc'[q] \in {"sent", "failed"}
               PROVE  current'[q] \in batch'[q] /\ (pc'[q] = "sent" => sent[current'[q]] > 0)
    BY <1>8 DEF HandInBatch
  <2>1. q # p
    BY <1>7
  <2> QED
    BY <2>1, <1>2, <1>3, <1>6 DEF HandInBatch
<1>10. Counted'
  <2>1. ASSUME NEW e \in Events, status'[e] \in {"none", "PENDING"}
        PROVE  sent[e] <= retries'[e]
    <3>1. CASE e # c
      <4>1. sent[e] <= retries[e]
        BY <3>1, <2>1, <1>4 DEF Counted
      <4> QED
        BY <4>1, <1>12
    <3>2. CASE e = c
      <4>1. new = "PENDING"
        BY <3>2, <2>1, <1>0 DEF TypeOK
      <4> QED
        BY <3>2, <4>1, <1>0 DEF CopiesWithinRetries, TypeOK
    <3> QED
      BY <3>1, <3>2
  <2>2. ASSUME NEW q \in Processors, NEW e \in batch'[q], ~InHand(q, e)'
        PROVE  sent[e] <= retries'[e]
    <3>1. e \in batch[q] /\ e # c /\ e \in Events
      BY <1>3 DEF TypeOK
    <3>2. ~InHand(q, e)
      BY <2>2, <3>1, <1>6 DEF InHand
    <3>3. sent[e] <= retries[e]
      BY <3>1, <3>2 DEF Counted
    <3> QED
      BY <3>1, <3>3, <1>12
  <2> QED
    BY <2>1, <2>2, <1>8 DEF Counted
<1>11. CopiesWithinRetries'
  <2> SUFFICES ASSUME NEW e \in Events PROVE sent[e] <= retries'[e] + 1
    BY <1>8 DEF CopiesWithinRetries
  <2>1. sent[e] <= retries[e] + 1
    BY DEF CopiesWithinRetries
  <2> QED
    BY <2>1, <1>12
<1> QED
  BY <1>1, <1>5, <1>9, <1>10, <1>11

(* Taking an event in hand: at most one copy more is sent.                  *)
LEMMA TakingInHand ==
  ASSUME IInv, NEW p \in Processors, NEW e \in batch[p],
         pc[p] = "publishing",
         NEW to \in {"sent", "failed"},
         \/ sent' = [sent EXCEPT ![e] = @ + 1]
         \/ to = "failed" /\ sent' = sent,
         pc' = [pc EXCEPT ![p] = to],
         current' = [current EXCEPT ![p] = e],
         UNCHANGED <<status, retries, candidates, batch, cancelled>>
  PROVE  IInv'
<1> USE DEF IInv
<1>0. e \in Events /\ ~InHand(p, e) /\ sent[e] <= retries[e]
  BY DEF TypeOK, InHand, Counted
<1>1. TypeOK'
  BY <1>0 DEF TypeOK
<1>2. Holding' /\ OneHolder'
  BY DEF Holding, OneHolder
<1>3. \A f \in Events : /\ f # e => sent'[f] = sent[f]
                        /\ sent'[f] >= sent[f]
  BY <1>0 DEF TypeOK
<1>4. HandInBatch'
  <2> SUFFICES ASSUME NEW q \in Processors, pc'[q] \in {"sent", "failed"}
               PROVE  current'[q] \in batch[q] /\ (pc'[q] = "sent" => sent'[current'[q]] > 0)
    BY DEF HandInBatch
  <2>1. CASE q = p
    <3>1. current'[q] = e /\ pc'[q] = to
      BY <2>1 DEF TypeOK
    <3>2. to = "sent" => sent'[e] = sent[e] + 1
      BY <1>0 DEF TypeOK
    <3> QED
      BY <2>1, <3>1, <3>2, <1>0 DEF TypeOK
  <2>2. CASE q # p
    <3>1. current'[q] = current[q] /\ pc'[q] = pc[q]
      BY <2>2 DEF TypeOK
    <3>2. current[q] \in batch[q] /\ (pc[q] = "sent" => sent[current[q]] > 0)
      BY <3>1 DEF HandInBatch
    <3>3. current[q] \in Events
      BY <3>2 DEF TypeOK
    <3> QED
      BY <3>1, <3>2, <3>3, <1>1, <1>3 DEF TypeOK
  <2> QED
    BY <2>1, <2>2
<1>5. Counted'
  <2>1. ASSUME NEW f \in Events, status[f] \in {"none", "PENDING"}
        PROVE  sent'[f] <= retries[f]
    <3>1. f # e
      BY <2>1 DEF Holding
    <3> QED
      BY <2>1, <3>1, <1>3 DEF Counted
  <2>2. ASSUME NEW q \in Processors, NEW f \in batch[q], ~InHand(q, f)'
        PROVE  sent'[f] <= retries[f]
    <3>1. f # e
      <4>1. CASE q = p
        BY <2>2, <4>1 DEF InHand, TypeOK
      <4>2. CASE q # p
        BY <4>2 DEF OneHolder
      <4> QED
        BY <4>1, <4>2
    <3>2. ~InHand(q, f)
      BY <2>2 DEF InHand, TypeOK
    <3>3. f \in Events
      BY DEF TypeOK
    <3> QED
      BY <3>1, <3>2, <3>3, <1>3 DEF Counted
  <2> QED
    BY <2>1, <2>2 DEF Counted
<1>6. CopiesWithinRetries'
  BY <1>0, <1>3 DEF CopiesWithinRetries, TypeOK
<1> QED
  BY <1>1, <1>2, <1>4, <1>5, <1>6

(* Claiming an event: nobody holds one that is pending.                     *)
LEMMA Claiming ==
  ASSUME IInv, NEW p \in Processors, NEW e \in Events, ClaimEvent(p, e)
  PROVE  IInv'
<1> USE DEF IInv, ClaimEvent
<1>1. TypeOK'
  BY DEF TypeOK
<1>2. CASE status[e] # "PENDING"
  BY <1>1, <1>2 DEF Holding, OneHolder, HandInBatch, Counted, InHand, CopiesWithinRetries
<1>3. CASE status[e] = "PENDING"
  <2>1. \A q \in Processors : e \notin batch[q]
    BY <1>3 DEF Holding
  <2>2. \A q \in Processors :
          batch'[q] = IF q = p THEN batch[q] \union {e} ELSE batch[q]
    BY <1>3 DEF TypeOK
  <2>3. \A f \in Events : status'[f] = IF f = e THEN "PROCESSING" ELSE status[f]
    BY <1>3 DEF TypeOK
  <2>4. Holding' /\ OneHolder'
    BY <2>1, <2>2, <2>3 DEF Holding, OneHolder, TypeOK
  <2>5. HandInBatch'
    BY <2>2 DEF HandInBatch
  <2>6. sent[e] <= retries[e]
    BY <1>3 DEF Counted
  <2>7. Counted'
    BY <2>2, <2>3, <2>6 DEF Counted, InHand, TypeOK
  <2> QED
    BY <1>1, <2>4, <2>5, <2>7 DEF CopiesWithinRetries
<1> QED
  BY <1>2, <1>3

LEMMA StepKeeps == IInv /\ [Next]_vars => IInv'
<1> SUFFICES ASSUME IInv, [Next]_vars PROVE IInv'
  OBVIOUS
<1> USE DEF IInv
<1>1. ASSUME NEW e \in Events, Create(e) PROVE IInv'
  <2>1. TypeOK'
    BY <1>1 DEF Create, TypeOK
  <2>2. \A f \in Events : status'[f] = IF f = e THEN "PENDING" ELSE status[f]
    BY <1>1 DEF Create, TypeOK
  <2>3. \A p \in Processors : e \notin batch[p]
    BY <1>1 DEF Create, Holding
  <2>4. Holding' /\ OneHolder'
    BY <1>1, <2>2, <2>3 DEF Create, Holding, OneHolder, TypeOK
  <2>5. Counted'
    BY <1>1, <2>2 DEF Create, Counted, InHand, TypeOK
  <2> QED
    BY <1>1, <2>1, <2>4, <2>5 DEF Create, HandInBatch, CopiesWithinRetries
<1>2. ASSUME NEW p \in Processors, FindCandidates(p) PROVE IInv'
  <2>1. TypeOK'
    BY <1>2 DEF FindCandidates, Pending, TypeOK
  <2> QED
    BY <1>2, <2>1
    DEF FindCandidates, Holding, OneHolder, HandInBatch, Counted, InHand, TypeOK,
        CopiesWithinRetries
<1>3. ASSUME NEW p \in Processors, FetchClaimed(p) PROVE IInv'
  <2>1. TypeOK'
    BY <1>3 DEF FetchClaimed, TypeOK
  <2> QED
    BY <1>3, <2>1
    DEF FetchClaimed, Holding, OneHolder, HandInBatch, Counted, InHand, TypeOK,
        CopiesWithinRetries
<1>4. ASSUME NEW p \in Processors, ClaimFails(p) PROVE IInv'
  BY <1>4, LettingGo DEF ClaimFails, TypeOK
<1>5. ASSUME NEW p \in Processors, NEW e \in Events, ClaimEvent(p, e) PROVE IInv'
  BY <1>5, Claiming
<1>6. ASSUME NEW p \in Processors, NEW e \in Events, Publish(p, e) PROVE IInv'
  BY <1>6, TakingInHand DEF Publish
<1>7. ASSUME NEW p \in Processors, NEW e \in Events, PublishFails(p, e) PROVE IInv'
  BY <1>7, TakingInHand DEF PublishFails
<1>8. ASSUME NEW p \in Processors, pc[p] \in {"sent", "failed"} PROVE current[p] \in Events
  BY <1>8 DEF HandInBatch, TypeOK
<1>16. retries \in [Events -> Nat] /\ \A e \in Events : retries[e] >= retries[e]
  BY DEF TypeOK
<1>9. ASSUME NEW p \in Processors, MarkAsProcessed(p) PROVE IInv'
  <2>1. /\ pc[p] \in {"sent", "failed"} /\ Advance(p) /\ retries' = retries
        /\ status' = [status EXCEPT ![current[p]] = "PROCESSED"]
    BY <1>9 DEF MarkAsProcessed
  <2>2. retries' \in [Events -> Nat] /\ \A e \in Events : retries'[e] >= retries[e]
    BY <2>1, <1>16
  <2> QED
    BY <2>1, <2>2, Advancing
<1>10. ASSUME NEW p \in Processors, MarkFails(p) \/ IncrementRetryFails(p) PROVE IInv'
  <2>1. pc[p] \in {"sent", "failed"} /\ Advance(p) /\ UNCHANGED <<status, retries>>
    BY <1>10 DEF MarkFails, IncrementRetryFails
  <2>2. status[current[p]] = "PROCESSING"
    BY <2>1 DEF HandInBatch, Holding
  <2>3. status' = [status EXCEPT ![current[p]] = "PROCESSING"]
    BY <2>1, <2>2, <1>8 DEF TypeOK
  <2>4. retries' \in [Events -> Nat] /\ \A e \in Events : retries'[e] >= retries[e]
    BY <2>1, <1>16
  <2> QED
    BY <2>1, <2>3, <2>4, Advancing
<1>11. ASSUME NEW p \in Processors, IncrementRetry(p) PROVE IInv'
  <2>1. current[p] \in Events
    BY <1>11, <1>8 DEF IncrementRetry
  <2>2. /\ retries' \in [Events -> Nat]
        /\ \A e \in Events : retries'[e] >= retries[e]
        /\ retries'[current[p]] = retries[current[p]] + 1
    BY <1>11, <2>1 DEF IncrementRetry, TypeOK
  <2> QED
    BY <1>11, <2>2, Advancing DEF IncrementRetry
<1>12. ASSUME NEW p \in Processors, Stop(p) PROVE IInv'
  <2>1. TypeOK'
    BY <1>12 DEF Stop, TypeOK
  <2> QED
    BY <1>12, <2>1
    DEF Stop, Holding, OneHolder, HandInBatch, Counted, InHand, TypeOK,
        CopiesWithinRetries
<1>13. ASSUME NEW p \in Processors, Cancel(p) PROVE IInv'
  <2>1. TypeOK'
    BY <1>13 DEF Cancel, TypeOK
  <2> QED
    BY <1>13, <2>1
    DEF Cancel, Holding, OneHolder, HandInBatch, Counted, InHand, CopiesWithinRetries
<1>14. ASSUME NEW p \in Processors, Restart(p) PROVE IInv'
  BY <1>14, LettingGo DEF Restart, TypeOK
<1>15. CASE UNCHANGED vars
  BY <1>15 DEF vars, TypeOK, Holding, OneHolder, HandInBatch, Counted, InHand,
               CopiesWithinRetries
<1> QED
  BY <1>1, <1>2, <1>3, <1>4, <1>5, <1>6, <1>7, <1>9, <1>10, <1>11, <1>12, <1>13, <1>14,
     <1>15
  DEF Next, Step

(* Every reachable state satisfies the inductive invariant.                 *)
THEOREM InvariantHolds == Spec => []IInv
  BY InitHolds, StepKeeps, PTL DEF Spec

(* The variables of the outbox keep their types.                            *)
THEOREM TypeCorrect == Spec => []TypeOK
<1>1. IInv => TypeOK
  BY DEF IInv
<1> QED
  BY <1>1, InvariantHolds, PTL

(* No two processors ever hold the same event, however their three-phase    *)
(* claims overlap.                                                          *)
THEOREM ClaimsAreExclusive == Spec => []OneHolder
<1>1. IInv => OneHolder
  BY DEF IInv
<1> QED
  BY <1>1, InvariantHolds, PTL

(* Duplicates at the broker are bounded by the retries that were counted.   *)
THEOREM DuplicatesAreRetries == Spec => []CopiesWithinRetries
<1>1. IInv => CopiesWithinRetries
  BY DEF IInv
<1> QED
  BY <1>1, InvariantHolds, PTL

-----------------------------------------------------------------------------
(* The refinement: a committed insert, a publication and a mark are the     *)
(* steps of EventDelivery; everything else stutters.                        *)

LEMMA InitRefines == Init => Delivery!Init
  BY DEF Init, Delivery!Init

(* A publication delivers an event that is committed and not done.          *)
LEMMA PublicationDelivers ==
  ASSUME IInv, NEW p \in Processors, NEW e \in batch[p],
         sent' = [sent EXCEPT ![e] = @ + 1], status' = status
  PROVE  Delivery!Next
<1>1. e \in Events /\ status[e] = "PROCESSING"
  BY DEF IInv, TypeOK, Holding
<1>2. Delivery!Deliver(e)
  BY <1>1 DEF Delivery!Deliver
<1> QED
  BY <1>1, <1>2 DEF Delivery!Next

LEMMA StepRefines == IInv /\ [Next]_vars => [Delivery!Next]_(Delivery!vars)
<1> SUFFICES ASSUME IInv, [Next]_vars PROVE [Delivery!Next]_(Delivery!vars)
  OBVIOUS
<1>0. TypeOK
  BY DEF IInv
<1>1. ASSUME NEW e \in Events, Create(e) PROVE Delivery!Next
  <2>1. Delivery!Commit(e)
    BY <1>0, <1>1 DEF Create, TypeOK, Delivery!Commit
  <2> QED
    BY <2>1 DEF Delivery!Next
<1>2. ASSUME NEW p \in Processors, NEW e \in Events, ClaimEvent(p, e)
      PROVE  UNCHANGED Delivery!vars
  BY <1>0, <1>2 DEF ClaimEvent, TypeOK, Delivery!vars
<1>3. ASSUME NEW p \in Processors, NEW e \in Events, Publish(p, e) \/ PublishFails(p, e)
      PROVE  Delivery!Next \/ UNCHANGED Delivery!vars
  <2>1. CASE sent' = [sent EXCEPT ![e] = @ + 1]
    BY <2>1, <1>3, PublicationDelivers DEF Publish, PublishFails
  <2>2. CASE sent' = sent
    BY <2>2, <1>3 DEF Publish, PublishFails, Delivery!vars
  <2> QED
    BY <2>1, <2>2, <1>3 DEF Publish, PublishFails
<1>4. ASSUME NEW p \in Processors, MarkAsProcessed(p) PROVE Delivery!Next
  <2>1. PICK c \in Events : c = current[p] /\ status[c] = "PROCESSING" /\ sent[c] > 0
    BY <1>4 DEF MarkAsProcessed, IInv, TypeOK, HandInBatch, Holding
  <2>2. Delivery!Settle(c)
    BY <2>1, <1>4, <1>0 DEF MarkAsProcessed, Advance, TypeOK, Delivery!Settle
  <2> QED
    BY <2>1, <2>2 DEF Delivery!Next
<1>5. ASSUME NEW p \in Processors, IncrementRetry(p) PROVE UNCHANGED Delivery!vars
  <2>1. current[p] \in Events /\ status[current[p]] = "PROCESSING"
    BY <1>5 DEF IncrementRetry, IInv, TypeOK, HandInBatch, Holding
  <2> QED
    BY <2>1, <1>5, <1>0 DEF IncrementRetry, Advance, TypeOK, Delivery!vars
<1>6. ASSUME NEW p \in Processors,
             \/ FindCandidates(p) \/ FetchClaimed(p) \/ ClaimFails(p) \/ MarkFails(p)
             \/ IncrementRetryFails(p) \/ Stop(p) \/ Cancel(p) \/ Restart(p)
      PROVE  UNCHANGED Delivery!vars
  BY <1>6 DEF FindCandidates, FetchClaimed, ClaimFails, MarkFails, IncrementRetryFails,
              Advance, Stop, Cancel, Restart, Delivery!vars
<1>7. CASE UNCHANGED vars
  BY <1>7 DEF vars, Delivery!vars
<1> QED
  BY <1>1, <1>2, <1>3, <1>4, <1>5, <1>6, <1>7 DEF Next, Step

(* The outbox implements EventDelivery: nothing reaches the broker before   *)
(* its transaction has committed or after it is PROCESSED, and nothing is   *)
(* PROCESSED that has not reached it.                                       *)
THEOREM OutboxImplementsDelivery == Spec => ImplementsDelivery
  BY InvariantHolds, InitRefines, StepRefines, PTL
  DEF Spec, ImplementsDelivery, Delivery!Spec
=============================================================================
