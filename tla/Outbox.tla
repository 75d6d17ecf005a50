------------------------------- MODULE Outbox -------------------------------
(***************************************************************************)
(* The worker's outbox queue (apps/worker/src/main.ts and                  *)
(* jobs/outbox.job.ts) and the events the billing job records.             *)
(* A definition named <name>_<change> is an altered form of <name>, used by *)
(* no action: see Payments.                                                *)
(*                                                                         *)
(* The queue's jobs are the processes: every job names one event, several  *)
(* jobs may name the same one, and up to Concurrency of them run at a time. *)
(* Each await of the handler is a step.  Nothing in the repository puts a   *)
(* job on the queue: whoever does may do so before the event is committed, *)
(* and more than once.                                                     *)
(*                                                                         *)
(* What every module has (Init, Next, ...) carries this module's name here: *)
(* WorkerProofs extends it together with BillGeneration.                   *)
(***************************************************************************)
EXTENDS Naturals, FiniteSets

CONSTANTS
    Events,       \* rows of the outbox_events table that may be created
    MaxJobs,      \* bound: jobs that are ever queued for one event
    Concurrency,  \* jobs the worker runs at a time
    MaxFaults     \* bound: steps that throw, stops of the worker, early jobs

ASSUME OutboxAssumption ==
    /\ MaxJobs \in Nat
    /\ Concurrency \in Nat \ {0}
    /\ MaxFaults \in Nat

Jobs == Events \X (1 .. MaxJobs)

VARIABLES
    event,      \* the row of each event: its status and its attempts
    job,        \* how far each job has come
    delivered,  \* how often an event's side effect has happened
    faults      \* faults so far

outboxVars == <<event, job, delivered, faults>>

Statuses == {"ABSENT", "pending", "processing", "sent", "failed"}

Places == {"none", "waiting", "seen", "claimed", "delivered", "ended"}

Underway == {"seen", "claimed", "delivered"}

OutboxTypeOK ==
    /\ event \in [Events -> [status : Statuses, attempts : Nat]]
    /\ job \in [Jobs -> Places]
    /\ delivered \in [Events -> Nat]
    /\ faults \in 0 .. MaxFaults

OutboxInit ==
    /\ event = [e \in Events |-> [status |-> "ABSENT", attempts |-> 0]]
    /\ job = [j \in Jobs |-> "none"]
    /\ delivered = [e \in Events |-> 0]
    /\ faults = 0

Moves(j, place) == job' = [job EXCEPT ![j] = place]

Fault ==
    /\ faults < MaxFaults
    /\ faults' = faults + 1

(* The transaction that creates a bill creates its event.                  *)
Record(e) ==
    /\ event[e].status = "ABSENT"
    /\ event' = [event EXCEPT ![e].status = "pending"]
    /\ UNCHANGED <<job, delivered, faults>>

(* Somebody queues a job for an event that is there.                       *)
Enqueue(j) ==
    /\ job[j] = "none"
    /\ event[j[1]].status # "ABSENT"
    /\ Moves(j, "waiting")
    /\ UNCHANGED <<event, delivered, faults>>

(* Somebody queues a job before the event's transaction commits.           *)
EnqueueEarly(j) ==
    /\ job[j] = "none"
    /\ event[j[1]].status = "ABSENT"
    /\ Fault
    /\ Moves(j, "waiting")
    /\ UNCHANGED <<event, delivered>>

FreeSlot == Cardinality({j \in Jobs : job[j] \in Underway}) < Concurrency

(* Altered: an event that is sent is delivered again.                      *)
Take_SentToo(j) ==
    /\ job[j] = "waiting"
    /\ FreeSlot
    /\ Moves(j, IF event[j[1]].status = "ABSENT" THEN "ended" ELSE "seen")
    /\ UNCHANGED <<event, delivered, faults>>

(* Altered: an event that is being processed is somebody else's.           *)
Take_Locked(j) ==
    /\ job[j] = "waiting"
    /\ FreeSlot
    /\ Moves(j, IF event[j[1]].status \in {"ABSENT", "sent", "processing"}
                THEN "ended"
                ELSE "seen")
    /\ UNCHANGED <<event, delivered, faults>>

(* The worker takes a job and reads its event: one that is missing or sent  *)
(* is skipped.                                                             *)
Take(j) ==
    /\ job[j] = "waiting"
    /\ FreeSlot
    /\ Moves(j, IF event[j[1]].status \in {"ABSENT", "sent"} THEN "ended"
                ELSE "seen")
    /\ UNCHANGED <<event, delivered, faults>>

(* Altered: only the first claim of an event counts as an attempt.         *)
Claim_CountsFirst(j) ==
    /\ job[j] = "seen"
    /\ event' = [event EXCEPT ![j[1]] = [status |-> "processing", attempts |-> 1]]
    /\ Moves(j, "claimed")
    /\ UNCHANGED <<delivered, faults>>

(* Altered: a status the column takes, being a string, but nobody knows.    *)
Claim_Locked(j) ==
    /\ job[j] = "seen"
    /\ event' = [event EXCEPT ![j[1]] =
                   [status |-> "locked", attempts |-> @.attempts + 1]]
    /\ Moves(j, "claimed")
    /\ UNCHANGED <<delivered, faults>>

(* The update asks for no status: it claims the event whatever happened to  *)
(* it since the read.                                                      *)
Claim(j) ==
    /\ job[j] = "seen"
    /\ event' = [event EXCEPT ![j[1]] =
                   [status |-> "processing", attempts |-> @.attempts + 1]]
    /\ Moves(j, "claimed")
    /\ UNCHANGED <<delivered, faults>>

Deliver(j) ==
    /\ job[j] = "claimed"
    /\ delivered' = [delivered EXCEPT ![j[1]] = @ + 1]
    /\ Moves(j, "delivered")
    /\ UNCHANGED <<event, faults>>

(* Altered: the event is marked before it is delivered.                    *)
MarkSent_First(j) ==
    /\ job[j] = "claimed"
    /\ event' = [event EXCEPT ![j[1]].status = "sent"]
    /\ Moves(j, "ended")
    /\ UNCHANGED <<delivered, faults>>

MarkSent(j) ==
    /\ job[j] = "delivered"
    /\ event' = [event EXCEPT ![j[1]].status = "sent"]
    /\ Moves(j, "ended")
    /\ UNCHANGED <<delivered, faults>>

(* What the try block does throws: the event fails and the job with it.     *)
MarkFailed(j) ==
    /\ job[j] \in {"claimed", "delivered"}
    /\ Fault
    /\ event' = [event EXCEPT ![j[1]].status = "failed"]
    /\ Moves(j, "ended")
    /\ UNCHANGED delivered

(* An update outside the try block throws: the event stays as it is.        *)
Lose(j) ==
    /\ job[j] \in Underway
    /\ Fault
    /\ Moves(j, "ended")
    /\ UNCHANGED <<event, delivered>>

(* The worker stops; the queue gives the jobs it was running to the next   *)
(* one, which starts them over.                                            *)
Crash ==
    /\ \E j \in Jobs : job[j] \in Underway
    /\ Fault
    /\ job' = [j \in Jobs |-> IF job[j] \in Underway THEN "waiting" ELSE job[j]]
    /\ UNCHANGED <<event, delivered>>

Advance(j) == Take(j) \/ Claim(j) \/ Deliver(j) \/ MarkSent(j)

OutboxNext ==
    \/ \E e \in Events : Record(e)
    \/ \E j \in Jobs :
         Enqueue(j) \/ EnqueueEarly(j) \/ Advance(j) \/ MarkFailed(j) \/ Lose(j)
    \/ Crash

OutboxSpec == OutboxInit /\ [][OutboxNext]_outboxVars

(* The queue runs its jobs, and whoever fills it asks again for an event.   *)
OutboxFairSpec ==
    /\ OutboxSpec
    /\ \A j \in Jobs : WF_outboxVars(Enqueue(j)) /\ WF_outboxVars(Advance(j))
-----------------------------------------------------------------------------
(* Properties.                                                             *)

(* The attempts counted in the database are never fewer than the           *)
(* deliveries that happened, whatever jobs overlap, fail or start over     *)
(* (attempts: { increment: 1 } before the delivery).                       *)
DeliveriesCounted == \A e \in Events : delivered[e] <= event[e].attempts

(* An event is marked sent only when its side effect has happened, whoever  *)
(* marks it.                                                               *)
SentWasDelivered ==
    \A e \in Events : event[e].status = "sent" => delivered[e] > 0

Settled(e) ==
    /\ event[e].status = "sent"
    /\ \A j \in Jobs : j[1] = e => job[j] \notin Underway

(* An event that is sent and that no running job has read before stays so:  *)
(* jobs that are queued for it again leave it alone.                       *)
SentIsLeftAlone == [][\A e \in Events : Settled(e) => Settled(e)']_outboxVars

Promise == INSTANCE AtLeastOnce WITH
    recorded  <- {e \in Events : event[e].status # "ABSENT"},
    performed <- {e \in Events : delivered[e] > 0}

(* The queue implements the promise of the outbox: no side effect before    *)
(* its event is committed, and every committed event has its side effect   *)
(* in the end, as long as somebody asks for it more often than faults      *)
(* happen.                                                                 *)
ImplementsPromise == Promise!Spec
=============================================================================
