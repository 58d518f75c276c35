------------------------------- MODULE Outbox -------------------------------
(***************************************************************************)
(* The transactional outbox: events are inserted with the transaction they  *)
(* announce, and the processors of the console servers poll the collection, *)
(* claim a batch of pending events in three queries and hand them to the    *)
(* broker one after the other.                                              *)
(*                                                                         *)
(* A processor runs on one goroutine; several servers run one each, if only *)
(* while a new version is rolled out.  Every query is a step of its own, and *)
(* the update of phase 2, atomic per document only, takes a step for each.  *)
(***************************************************************************)
EXTENDS Naturals, FiniteSets

CONSTANTS
  Events,       \* events that may be written
  Processors,   \* running instances of the outbox processor
  CreatedAt,    \* time stamp of an event; events need not commit in its order
  BatchSize,
  MaxRetries,   \* bounds how often publishing an event fails
  Faults,       \* what may go wrong besides: see FaultKinds
  NoEvent

FaultKinds == {"claim", "mark", "retry", "stop", "crash"}

ASSUME OutboxAssumption ==
  /\ CreatedAt \in [Events -> Nat]
  /\ BatchSize \in Nat \ {0}
  /\ MaxRetries \in Nat
  /\ Faults \subseteq FaultKinds
  /\ NoEvent \notin Events

VARIABLES
  status,       \* status of an event in the collection
  retries,      \* its retries column
  sent,         \* how often it was handed to the broker
  pc,           \* where a processor is in processEvents
  candidates,   \* phase 1's ids that phase 2 has not come to yet
  batch,        \* events with the processor's claim id, and still to be handled
  current,      \* the event being published
  cancelled     \* the context of the processor is cancelled

vars == <<status, retries, sent, pc, candidates, batch, current, cancelled>>

TypeOK ==
  /\ status \in [Events -> {"none", "PENDING", "PROCESSING", "PROCESSED"}]
  /\ retries \in [Events -> Nat]
  /\ sent \in [Events -> Nat]
  /\ pc \in [Processors -> {"idle", "claiming", "publishing", "sent", "failed", "stopped"}]
  /\ candidates \in [Processors -> SUBSET Events]
  /\ batch \in [Processors -> SUBSET Events]
  /\ current \in [Processors -> Events \union {NoEvent}]
  /\ cancelled \in [Processors -> BOOLEAN]

Init ==
  /\ status = [e \in Events |-> "none"]
  /\ retries = [e \in Events |-> 0]
  /\ sent = [e \in Events |-> 0]
  /\ pc = [p \in Processors |-> "idle"]
  /\ candidates = [p \in Processors |-> {}]
  /\ batch = [p \in Processors |-> {}]
  /\ current = [p \in Processors |-> NoEvent]
  /\ cancelled = [p \in Processors |-> FALSE]

-----------------------------------------------------------------------------
(* The insert, as part of the transaction the event belongs to.             *)
Create(e) ==
  /\ status[e] = "none"
  /\ status' = [status EXCEPT ![e] = "PENDING"]
  /\ UNCHANGED <<retries, sent, pc, candidates, batch, current, cancelled>>

Pending == {e \in Events : status[e] = "PENDING"}

(* The oldest pending events, as many as fit the batch.                     *)
IsOldest(es) ==
  /\ Cardinality(es) <= BatchSize
  /\ \A e \in es, f \in Pending \ es : CreatedAt[e] <= CreatedAt[f]
  /\ es # Pending => Cardinality(es) = BatchSize

(* Phase 1: the ids of the candidates.                                      *)
FindCandidates(p) ==
  /\ pc[p] = "idle" /\ ~cancelled[p]
  /\ \E es \in SUBSET Pending \ {{}} :
       IsOldest(es) /\ candidates' = [candidates EXCEPT ![p] = es]
  /\ pc' = [pc EXCEPT ![p] = "claiming"]
  /\ UNCHANGED <<status, retries, sent, batch, current, cancelled>>

(* Mutant: the update does not look at the status again. *)
Mutant_ClaimEvent(p, e) ==
  /\ pc[p] = "claiming"
  /\ e \in candidates[p]
  /\ status' = [status EXCEPT ![e] = "PROCESSING"]
  /\ batch' = [batch EXCEPT ![p] = @ \union {e}]
  /\ candidates' = [candidates EXCEPT ![p] = @ \ {e}]
  /\ UNCHANGED <<retries, sent, pc, current, cancelled>>

(* Phase 2, one document of it: claimed only if it is pending still.        *)
ClaimEvent(p, e) ==
  /\ pc[p] = "claiming"
  /\ e \in candidates[p]
  /\ \/ /\ status[e] = "PENDING"
        /\ status' = [status EXCEPT ![e] = "PROCESSING"]
        /\ batch' = [batch EXCEPT ![p] = @ \union {e}]
     \/ /\ status[e] # "PENDING"
        /\ UNCHANGED <<status, batch>>
  /\ candidates' = [candidates EXCEPT ![p] = @ \ {e}]
  /\ UNCHANGED <<retries, sent, pc, current, cancelled>>

(* Phase 3: the claimed documents, in no particular order.                  *)
FetchClaimed(p) ==
  /\ pc[p] = "claiming" /\ ~cancelled[p]
  /\ candidates[p] = {}
  /\ pc' = [pc EXCEPT ![p] = IF batch[p] = {} THEN "idle" ELSE "publishing"]
  /\ UNCHANGED <<status, retries, sent, candidates, batch, current, cancelled>>

Fails(p, fault) == cancelled[p] \/ fault \in Faults

(* Phase 2 or 3 returns an error: what is claimed stays claimed.            *)
ClaimFails(p) ==
  /\ pc[p] = "claiming" /\ Fails(p, "claim")
  /\ pc' = [pc EXCEPT ![p] = "idle"]
  /\ candidates' = [candidates EXCEPT ![p] = {}]
  /\ batch' = [batch EXCEPT ![p] = {}]
  /\ UNCHANGED <<status, retries, sent, current, cancelled>>

-----------------------------------------------------------------------------
(* The loop over the batch, which goes on after the context is cancelled.   *)
Publish(p, e) ==
  /\ pc[p] = "publishing" /\ e \in batch[p]
  /\ sent' = [sent EXCEPT ![e] = @ + 1]
  /\ pc' = [pc EXCEPT ![p] = "sent"]
  /\ current' = [current EXCEPT ![p] = e]
  /\ UNCHANGED <<status, retries, candidates, batch, cancelled>>

(* An error does not say whether the broker has got the message.            *)
PublishFails(p, e) ==
  /\ pc[p] = "publishing" /\ e \in batch[p]
  /\ retries[e] < MaxRetries
  /\ \/ sent' = sent
     \/ sent' = [sent EXCEPT ![e] = @ + 1]
  /\ pc' = [pc EXCEPT ![p] = "failed"]
  /\ current' = [current EXCEPT ![p] = e]
  /\ UNCHANGED <<status, retries, candidates, batch, cancelled>>

(* On to the next event of the batch, or to the next tick.                  *)
Advance(p) ==
  /\ batch' = [batch EXCEPT ![p] = @ \ {current[p]}]
  /\ pc' = [pc EXCEPT ![p] = IF batch[p] = {current[p]} THEN "idle" ELSE "publishing"]
  /\ current' = [current EXCEPT ![p] = NoEvent]
  /\ UNCHANGED <<sent, candidates, cancelled>>

(* Mutant: a failed publication falls through to the mark. *)
Mutant_MarkAsProcessed(p) ==
  /\ pc[p] \in {"sent", "failed"} /\ ~cancelled[p]
  /\ status' = [status EXCEPT ![current[p]] = "PROCESSED"]
  /\ Advance(p)
  /\ UNCHANGED retries

MarkAsProcessed(p) ==
  /\ pc[p] = "sent" /\ ~cancelled[p]
  /\ status' = [status EXCEPT ![current[p]] = "PROCESSED"]
  /\ Advance(p)
  /\ UNCHANGED retries

MarkFails(p) ==
  /\ pc[p] = "sent" /\ Fails(p, "mark")
  /\ Advance(p)
  /\ UNCHANGED <<status, retries>>

(* Mutant: the retry is not counted. *)
Mutant_UncountedRetry(p) ==
  /\ pc[p] = "failed" /\ ~cancelled[p]
  /\ status' = [status EXCEPT ![current[p]] = "PENDING"]
  /\ Advance(p)
  /\ UNCHANGED retries

(* Mutant: a failed publication is given up. *)
Mutant_IncrementRetry(p) ==
  /\ pc[p] = "failed" /\ ~cancelled[p]
  /\ status' = [status EXCEPT ![current[p]] = "FAILED"]
  /\ retries' = [retries EXCEPT ![current[p]] = @ + 1]
  /\ Advance(p)

IncrementRetry(p) ==
  /\ pc[p] = "failed" /\ ~cancelled[p]
  /\ status' = [status EXCEPT ![current[p]] = "PENDING"]
  /\ retries' = [retries EXCEPT ![current[p]] = @ + 1]
  /\ Advance(p)

IncrementRetryFails(p) ==
  /\ pc[p] = "failed" /\ Fails(p, "retry")
  /\ Advance(p)
  /\ UNCHANGED <<status, retries>>

-----------------------------------------------------------------------------
(* A signal cancels the context; the processor notices between two ticks.   *)
Cancel(p) ==
  /\ "stop" \in Faults /\ ~cancelled[p]
  /\ cancelled' = [cancelled EXCEPT ![p] = TRUE]
  /\ UNCHANGED <<status, retries, sent, pc, candidates, batch, current>>

Stop(p) ==
  /\ pc[p] = "idle" /\ cancelled[p]
  /\ pc' = [pc EXCEPT ![p] = "stopped"]
  /\ UNCHANGED <<status, retries, sent, candidates, batch, current, cancelled>>

(* The process dies, or exits without waiting for its processor, and a new  *)
(* one takes its place.                                                     *)
Restart(p) ==
  /\ "crash" \in Faults /\ pc[p] # "idle"
  /\ pc' = [pc EXCEPT ![p] = "idle"]
  /\ candidates' = [candidates EXCEPT ![p] = {}]
  /\ batch' = [batch EXCEPT ![p] = {}]
  /\ current' = [current EXCEPT ![p] = NoEvent]
  /\ cancelled' = [cancelled EXCEPT ![p] = FALSE]
  /\ UNCHANGED <<status, retries, sent>>

-----------------------------------------------------------------------------
Step(p) ==
  \/ FindCandidates(p) \/ FetchClaimed(p) \/ ClaimFails(p)
  \/ \E e \in Events : ClaimEvent(p, e) \/ Publish(p, e) \/ PublishFails(p, e)
  \/ MarkAsProcessed(p) \/ MarkFails(p)
  \/ IncrementRetry(p) \/ IncrementRetryFails(p)
  \/ Stop(p)

Next ==
  \/ \E e \in Events : Create(e)
  \/ \E p \in Processors : Step(p) \/ Cancel(p) \/ Restart(p)

Spec == Init /\ [][Next]_vars

(* The ticker of every processor fires again and again.                     *)
FairSpec == Spec /\ \A p \in Processors : WF_vars(Step(p))

-----------------------------------------------------------------------------
(* However the phases of two processors overlap, no event is in the hands   *)
(* of both.                                                                 *)
OneHolder ==
  \A p, q \in Processors : p # q => batch[p] \intersect batch[q] = {}

(* Whatever fails between publishing an event and noting it, the broker     *)
(* gets one copy of it more than there were retries at most.                *)
CopiesWithinRetries == \A e \in Events : sent[e] <= retries[e] + 1

(* The outbox keeps the promise of EventDelivery.                           *)
Delivery ==
  INSTANCE EventDelivery WITH
    created <- {e \in Events : status[e] # "none"},
    copies  <- sent,
    done    <- {e \in Events : status[e] = "PROCESSED"}

ImplementsDelivery == Delivery!Spec

(* While no claim and no retry is lost and no server goes down, every event *)
(* is published at last, although its mark may fail and publishing may fail *)
(* a number of times.                                                       *)
EventIsPublished ==
  \A e \in Events : status[e] = "PENDING" ~> sent[e] > 0

-----------------------------------------------------------------------------
(* "Process oldest first": an event that waits for its retry is not         *)
(* overtaken by a younger one.                                              *)
OldestFirst ==
  [][\A e, f \in Events :
       CreatedAt[f] < CreatedAt[e] /\ status[f] = "PENDING" /\ retries[f] > 0
         => sent'[e] = sent[e]]_vars

(* "It respects the context for graceful shutdown": a processor that has    *)
(* stopped leaves no event claimed that nobody handles.                     *)
GracefulShutdown ==
  \A p \in Processors : pc[p] = "stopped" =>
    \A e \in Events : status[e] = "PROCESSING" => \E q \in Processors : e \in batch[q]
=============================================================================
