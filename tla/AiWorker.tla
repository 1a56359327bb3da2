------------------------------- MODULE AiWorker -------------------------------
(***************************************************************************)
(* The AI worker processes of ai/worker.py: claim an event and commit the  *)
(* invocation row before any I/O, load the work and the policy, call the   *)
(* provider once under a live lease, and finalize operation, event,        *)
(* invocation, budget, claim and run in one fenced commit.  A claim that   *)
(* finds an invocation calls nothing: the outcome is unknown.              *)
(***************************************************************************)
EXTENDS AiStore

CONSTANTS
    Worker,    \* worker processes; each has one process_once under way
    MaxUsage   \* bound: the largest usage a provider reports

VARIABLES
    worker,   \* where each process is in process_once
    sent      \* provider requests sent for a preparation: what left the program

aiWorkerVars == <<worker, sent>>

(* How process_once leaves its try block: with an order; with a failure of *)
(* which it knows that nothing was sent (refused), with a tool call it     *)
(* does not allow (badtool), with a ValueError of the call (garbled), or   *)
(* with any other error, of the provider or not (ambiguous).               *)
Outcome == {"order", "badtool", "refused", "garbled", "ambiguous"}
Answered == {"order", "badtool"}

ASSUME AiWorkerAssumption == None \notin Worker \cup Outcome /\ MaxUsage \in Nat

WorkerPc == {"idle", "claimed", "loaded", "ready", "calling", "answered"}

Resting == [pc |-> "idle", prep |-> None, version |-> 0, valid |-> FALSE,
            outcome |-> None, used |-> None]

EventRow == [status : EventStatus \cup {"none"}, owner : Worker \cup {None},
             live : BOOLEAN, version : Nat]

AiWorkerTypeOK ==
    /\ event \in [Preparation -> EventRow]
    /\ worker \in [Worker -> [pc : WorkerPc, prep : Preparation \cup {None}, version : Nat,
                              valid : BOOLEAN, outcome : Outcome \cup {None},
                              used : Nat \cup {None}]]
    /\ sent \in [Preparation -> Nat]
    /\ \A w \in Worker : /\ worker[w].pc # "idle" => worker[w].prep \in Preparation
                         /\ worker[w].pc = "answered" => worker[w].outcome \in Outcome
                         /\ worker[w].outcome \in Answered => worker[w].used \in Nat

AiWorkerInit ==
    /\ worker = [w \in Worker |-> Resting]
    /\ sent = [p \in Preparation |-> 0]

(* The offline provider answers every order it does not refuse; the        *)
(* Responses adapter may fail in every way: json.loads of a body that is   *)
(* not UTF-8 raises a ValueError that is no JSONDecodeError.               *)
OutcomesOf(provider) ==
    IF provider = "fake" THEN {"order"} ELSE Outcome \ {"refused"}

Rest(w) == worker' = [worker EXCEPT ![w] = Resting]
Drop(w) == Rest(w) /\ UNCHANGED <<aiStoreVars, sent>>

-------------------------------------------------------------------------------
(* _claim_one.  The code takes the oldest claimable event; here any.       *)
Claimable_NoReclaim(p) == event[p].status = "queued"
Claimable(p) ==
    \/ event[p].status = "queued"
    \/ event[p].status = "processing" /\ ~event[p].live

(* A prior worker has committed the invocation row, and may have called.   *)
Invoked_Ignored(p) == FALSE
Invoked(p) == inv[p] # "none"

(* A first claim commits the invocation row before any I/O.                *)
ClaimFirst(w, p) ==
    /\ worker[w].pc = "idle" /\ Claimable(p) /\ ~Invoked(p)
    /\ event' = [event EXCEPT ![p] = [status |-> "processing", owner |-> w, live |-> TRUE,
                                      version |-> @.version + 1]]
    /\ prep' = [prep EXCEPT ![p].status = "processing"]
    /\ inv' = [inv EXCEPT ![p] = "started"]
    /\ AuditedAs(p, "ai_preparation_started")
    /\ worker' = [worker EXCEPT ![w] = [Resting EXCEPT !.pc = "claimed", !.prep = p,
                                          !.version = event[p].version + 1]]
    /\ UNCHANGED <<policy, bucket, claim, proposed, idem, today, sent>>

(* A later claim closes the preparation as unknown and keeps its           *)
(* reservation, in one commit.                                             *)
KeepReservation(p) == UNCHANGED bucket

InvocationUnknown_Forgotten(p) == UNCHANGED inv
InvocationUnknown(p) == inv' = [inv EXCEPT ![p] = "unknown"]

ClaimAgain(w, p) ==
    /\ worker[w].pc = "idle" /\ Claimable(p) /\ Invoked(p)
    /\ event' = [event EXCEPT ![p] = [status |-> "unknown", owner |-> None, live |-> FALSE,
                                      version |-> @.version + 1]]
    /\ prep' = [prep EXCEPT ![p].status = "unknown"]
    /\ InvocationUnknown(p)
    /\ AuditedAs(p, "ai_preparation_unknown")
    /\ KeepReservation(p)
    /\ UNCHANGED <<policy, claim, proposed, idem, today, aiWorkerVars>>

(* The event is still processing under this claim of this worker; a lease  *)
(* that ran out but was not claimed again still fences.                    *)
Owns_Unfenced(w) == TRUE
Owns(w) ==
    LET e == event[worker[w].prep] IN
    e.status = "processing" /\ e.owner = w /\ e.version = worker[w].version

(* _load_work: only under a live lease; the policy is read here, once.     *)
LoadWork(w) ==
    LET p == worker[w].prep IN
    /\ worker[w].pc = "claimed" /\ Owns(w) /\ event[p].live
    /\ worker' = [worker EXCEPT ![w].pc = "loaded",
                     ![w].valid = /\ policy # None /\ policy.enabled
                                  /\ policy.provider = prep[p].provider]
    /\ UNCHANGED <<aiStoreVars, sent>>

(* Sealed input, prompt, input bound, policy or provider configuration do  *)
(* not allow the call: nothing is sent.  The provider may also refuse the  *)
(* request itself before it sends it.  Any other error on the way, one of  *)
(* the database say, counts as an unknown outcome although nothing is sent.*)
Refuse(w) ==
    /\ worker[w].pc \in {"loaded", "ready"}
    /\ \E outcome \in {"refused", "ambiguous"} :
          worker' = [worker EXCEPT ![w].pc = "answered", ![w].outcome = outcome]
    /\ UNCHANGED <<aiStoreVars, sent>>

(* _record_input_hash: the compare-and-set under a live lease right before *)
(* the call.                                                               *)
LeaseHolds(w) ==
    Owns(w) /\ event[worker[w].prep].live /\ inv[worker[w].prep] = "started"

RecordInputHash(w) ==
    /\ worker[w].pc = "loaded" /\ worker[w].valid /\ LeaseHolds(w)
    /\ worker' = [worker EXCEPT ![w].pc = "ready"]
    /\ UNCHANGED <<aiStoreVars, sent>>

(* Work whose lease is gone is left alone, before the load or the call.    *)
Leave(w) ==
    /\ \/ worker[w].pc = "claimed" /\ ~(Owns(w) /\ event[worker[w].prep].live)
       \/ worker[w].pc = "loaded" /\ worker[w].valid /\ ~LeaseHolds(w)
    /\ Drop(w)

(* provider.invoke sends the request, and returns or raises.               *)
Invoke(w) ==
    /\ worker[w].pc = "ready"
    /\ sent' = [sent EXCEPT ![worker[w].prep] = @ + 1]
    /\ worker' = [worker EXCEPT ![w].pc = "calling"]
    /\ UNCHANGED aiStoreVars

Return(w) ==
    /\ worker[w].pc = "calling"
    /\ \E outcome \in OutcomesOf(prep[worker[w].prep].provider) :
         \E used \in IF outcome \in Answered THEN 0..MaxUsage ELSE {None} :
            worker' = [worker EXCEPT ![w].pc = "answered", ![w].outcome = outcome,
                                     ![w].used = used]
    /\ UNCHANGED <<aiStoreVars, sent>>

-------------------------------------------------------------------------------
(* _settle_usage and _release_usage: the reservation leaves the bucket of  *)
(* the day it was made on, the usage enters it.                            *)
CanSettle(p) == bucket[prep[p].day].reserved >= prep[p].reserved

SettledDay_Today(p) == today
SettledDay(p) == prep[p].day

SettleUsage(p, used) ==
    bucket' = [bucket EXCEPT ![SettledDay(p)] =
                  [used |-> @.used + used, reserved |-> @.reserved - prep[p].reserved]]

EventOf(status) ==
    CASE status = "completed" -> "ai_preparation_completed"
      [] status = "failed" -> "ai_preparation_failed"
      [] status = "unknown" -> "ai_preparation_unknown"

(* The event's own vocabulary for an outcome: ck_ai_outbox_status.         *)
EventOutcome_SameWord(status) == status
EventOutcome(status) == IF status = "completed" THEN "processed" ELSE status

(* What every finalization writes to the event, the invocation and the     *)
(* audit trail.                                                            *)
Close(p, status) ==
    /\ event' = [event EXCEPT ![p] = [@ EXCEPT !.status = EventOutcome(status), !.owner = None,
                                               !.live = FALSE]]
    /\ inv' = [inv EXCEPT ![p] = status]
    /\ AuditedAs(p, EventOf(status))

Overrun(w) == worker[w].outcome \in Answered /\ worker[w].used > prep[worker[w].prep].reserved

(* An order within its reservation.                                        *)
HasOrder(w) == worker[w].outcome = "order" /\ ~Overrun(w)

(* What a finalization asks of the rows before it commits.                 *)
ClaimIsOpen(p) == claim[prep[p].source] = [prep |-> p, run |-> FALSE]
Finalizable(w) ==
    LET p == worker[w].prep IN
    /\ Owns(w)
    /\ worker[w].outcome # "ambiguous" => CanSettle(p)
    /\ HasOrder(w) => ClaimIsOpen(p)

(* _finalize_success: the run is proposed and the claim names it.          *)
FinalizeSuccess(w) ==
    LET p == worker[w].prep
        s == prep[p].source IN
    /\ worker[w].pc = "answered" /\ HasOrder(w) /\ Finalizable(w)
    /\ claim' = [claim EXCEPT ![s].run = TRUE]
    /\ proposed' = [proposed EXCEPT ![s] = @ + 1]
    /\ SettleUsage(p, worker[w].used)
    /\ prep' = [prep EXCEPT ![p] = [@ EXCEPT !.status = "completed", !.used = worker[w].used]]
    /\ Close(p, "completed")
    /\ Rest(w)
    /\ UNCHANGED <<policy, idem, today, sent>>

(* _finalize_failure with an outcome that counts as known: usage beyond    *)
(* the reservation and a bad tool call settle what the provider reports,   *)
(* so does an order that cannot become a run; all else settles nothing.    *)
FinalizeFailed(w) ==
    LET p == worker[w].prep
        used == IF worker[w].outcome \in Answered THEN worker[w].used ELSE 0 IN
    /\ worker[w].pc = "answered" /\ worker[w].outcome # "ambiguous" /\ Finalizable(w)
    /\ SettleUsage(p, used)
    /\ prep' = [prep EXCEPT ![p] = [@ EXCEPT !.status = "failed", !.used = used]]
    /\ Close(p, "failed")
    /\ Rest(w)
    /\ UNCHANGED <<policy, claim, proposed, idem, today, sent>>

(* _finalize_failure with outcome_unknown: the reservation stays.          *)
FinalizeUnknown(w) ==
    LET p == worker[w].prep IN
    /\ worker[w].pc = "answered" /\ worker[w].outcome = "ambiguous" /\ Finalizable(w)
    /\ KeepReservation(p)
    /\ prep' = [prep EXCEPT ![p] = [@ EXCEPT !.status = "unknown"]]
    /\ Close(p, "unknown")
    /\ Rest(w)
    /\ UNCHANGED <<policy, claim, proposed, idem, today, sent>>

(* A finalization that lost its claim on the event rolls back.             *)
Discard(w) == worker[w].pc = "answered" /\ ~Finalizable(w) /\ Drop(w)

-------------------------------------------------------------------------------
(* The process dies: its event stays processing until the lease runs out.  *)
Crash(w) == worker[w].pc # "idle" /\ Drop(w)

(* lease_until passes, whether or not the owner is still at work.          *)
LeaseExpire(p) ==
    /\ event[p].live
    /\ event' = [event EXCEPT ![p].live = FALSE]
    /\ UNCHANGED <<policy, bucket, prep, inv, claim, proposed, audit, idem, today, aiWorkerVars>>

Claim(w, p) == ClaimFirst(w, p) \/ ClaimAgain(w, p)
Prepare(w) == LoadWork(w) \/ Refuse(w) \/ RecordInputHash(w) \/ Leave(w)
Finalize(w) == FinalizeSuccess(w) \/ FinalizeFailed(w) \/ FinalizeUnknown(w) \/ Discard(w)
Work(w) == Prepare(w) \/ Invoke(w) \/ Return(w) \/ Finalize(w)

AiWorkerNext ==
    \/ \E w \in Worker : Work(w) \/ Crash(w) \/ \E p \in Preparation : Claim(w, p)
    \/ \E p \in Preparation : LeaseExpire(p)
===============================================================================
