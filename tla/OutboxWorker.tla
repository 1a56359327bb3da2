----------------------------- MODULE OutboxWorker -----------------------------
(***************************************************************************)
(* The worker processes of worker.py: claim an outbox event under a lease, *)
(* commit, call the connector outside any transaction, and finalize the    *)
(* run, the operation, the event, the audit trail and the recorded answer  *)
(* of the execute request in one commit fenced by the lease's owner.       *)
(*                                                                         *)
(* Time is what the conditions on it tell apart: outbox[r].live stands for *)
(* lease_until >= now and outbox[r].due for available_at <= now.           *)
(***************************************************************************)
EXTENDS RunStore

CONSTANTS
    Worker,       \* worker processes; each has one process_once under way
    MaxAttempts,  \* settings.outbox_max_attempts
    MaxClaims     \* bound: claims of an event after which no lease is lost any more

ASSUME WorkerAssumption == None \notin Worker
ASSUME AttemptsAssumption == /\ MaxAttempts \in Nat \ {0} /\ MaxClaims \in Nat
                             /\ MaxClaims >= MaxAttempts

VARIABLES
    worker,   \* where each process is in process_once
    calls     \* connector.execute calls made for a run: what left the program

workerVars == <<worker, calls>>

Outcome == {"ok", "retryable", "failure", "error"}
WorkerPc == {"idle", "claimed", "calling", "answered"}
Resting == [pc |-> "idle", run |-> None, outcome |-> None]

EventRow == [status : OutboxStatus \cup {"none"}, attempts : Nat,
             owner : Worker \cup {None}, live : BOOLEAN, due : BOOLEAN]

WorkerTypeOK ==
    /\ outbox \in [Run -> EventRow]
    /\ worker \in [Worker -> [pc : WorkerPc, run : Run \cup {None},
                              outcome : Outcome \cup {None}]]
    /\ calls \in [Run -> Nat]
    /\ \A w \in Worker : worker[w].pc # "idle" => worker[w].run \in Run
    /\ \A w \in Worker : worker[w].pc = "answered" => worker[w].outcome \in Outcome

WorkerInit ==
    /\ worker = [w \in Worker |-> Resting]
    /\ calls = [r \in Run |-> 0]

(* What connector.execute may return or raise: the simulated ERP accepts   *)
(* every action a workflow version may name; the M365 reader also raises   *)
(* RetryableConnectorError, ConnectorExecutionError and, on answers it     *)
(* does not expect, errors of its libraries.                               *)
OutcomesOf(connector) ==
    IF connector = "simulated_erp" THEN {"ok"} ELSE Outcome

-------------------------------------------------------------------------------
Claimable_NoReclaim(r) == outbox[r].status \in {"pending", "retry"} /\ outbox[r].due
Claimable(r) ==
    \/ outbox[r].status \in {"pending", "retry"} /\ outbox[r].due
    \/ outbox[r].status = "processing" /\ ~outbox[r].live

(* _claim_one.  The code takes the oldest claimable event; here any.       *)
Claim(w, r) ==
    /\ worker[w].pc = "idle"
    /\ Claimable(r)
    /\ outbox' = [outbox EXCEPT ![r].status = "processing", ![r].attempts = @ + 1,
                                ![r].owner = w, ![r].live = TRUE]
    /\ op' = [op EXCEPT ![r] = IF @ = "pending" THEN "executing" ELSE @]
    /\ worker' = [worker EXCEPT ![w] = [pc |-> "claimed", run |-> r, outcome |-> None]]
    /\ UNCHANGED <<run, claims, audit, idem, calls>>

(* connector.execute is called: process_once does not look at its lease    *)
(* again before the call.                                                  *)
Call(w) ==
    /\ worker[w].pc = "claimed"
    /\ calls' = [calls EXCEPT ![worker[w].run] = @ + 1]
    /\ worker' = [worker EXCEPT ![w].pc = "calling"]
    /\ UNCHANGED storeVars

(* The call returns or raises.                                             *)
Return(w) ==
    /\ worker[w].pc = "calling"
    /\ \E outcome \in OutcomesOf(run[worker[w].run].connector) :
          worker' = [worker EXCEPT ![w].pc = "answered", ![w].outcome = outcome]
    /\ UNCHANGED <<storeVars, calls>>

-------------------------------------------------------------------------------
(* _fence_outbox: the event is still processing under this worker's lease. *)
(* A lease that ran out but was not claimed again still fences.            *)
Owns_Unfenced(w, r) == TRUE
Owns(w, r) == outbox[r].status = "processing" /\ outbox[r].owner = w

Release(r, status) ==
    outbox' = [outbox EXCEPT ![r].status = status, ![r].owner = None,
                             ![r].live = FALSE, ![r].due = @ /\ status # "retry"]

SettledEvent(status) ==
    IF status = "executed" THEN "execution_completed"
    ELSE IF status = "failed" THEN "execution_failed" ELSE "execution_unknown"

(* _update_execute_replay: the execute record of the run's operation now   *)
(* answers with its outcome.                                               *)
UpdateReplay_Forgotten(r, code) == UNCHANGED idem
UpdateReplay(r, code) ==
    idem' = [k \in Scope |->
               IF k[2] = "run.execute" /\ idem[k] # None /\ idem[k].resource = r
               THEN [idem[k] EXCEPT !.code = code] ELSE idem[k]]

(* The event's own vocabulary for an outcome: ck_outbox_events_status.     *)
EventOutcome_SameWord(status) == status
EventOutcome(status) == IF status = "executed" THEN "processed" ELSE status

(* The rows a finalization settles: the run, its operation, the event, the *)
(* audit trail and the recorded answer.                                    *)
Settle(r, status, code) ==
    /\ Release(r, EventOutcome(status))
    /\ op' = [op EXCEPT ![r] = status]
    /\ run' = [run EXCEPT ![r].status = status]
    /\ Audited(r, SettledEvent(status), None)
    /\ UpdateReplay(r, code)
    /\ UNCHANGED <<claims, calls>>

Rest(w) == worker' = [worker EXCEPT ![w] = Resting]

(* _finalize_success                                                       *)
FinalizeSuccess(w) ==
    LET r == worker[w].run IN
    /\ worker[w].pc = "answered" /\ worker[w].outcome = "ok" /\ Owns(w, r)
    /\ Settle(r, "executed", 200)
    /\ Rest(w)

(* _finalize_error while attempts are left: the event waits retry_after.   *)
RetryLeft_OneMore(w, r) == worker[w].outcome = "retryable" /\ outbox[r].attempts <= MaxAttempts
RetryLeft(w, r) == worker[w].outcome = "retryable" /\ outbox[r].attempts < MaxAttempts

(* The operation waits again, so that the next claim executes it.          *)
Requeue_StillExecuting(r) == UNCHANGED op
Requeue(r) == op' = [op EXCEPT ![r] = "pending"]

FinalizeRetry(w) ==
    LET r == worker[w].run IN
    /\ worker[w].pc = "answered" /\ RetryLeft(w, r) /\ Owns(w, r)
    /\ Release(r, "retry")
    /\ Requeue(r)
    /\ Audited(r, "execution_retry_scheduled", None)
    /\ Rest(w)
    /\ UNCHANGED <<run, claims, idem, calls>>

(* _finalize_error otherwise: a connector's own failure is known, a        *)
(* retryable error without attempts left or any other error is not.        *)
FinalizeError(w) ==
    LET r == worker[w].run IN
    /\ worker[w].pc = "answered" /\ worker[w].outcome # "ok" /\ ~RetryLeft(w, r)
    /\ Owns(w, r)
    /\ Settle(r, IF worker[w].outcome = "failure" THEN "failed" ELSE "unknown", 502)
    /\ Rest(w)

(* A finalization that finds the lease lost drops the result.              *)
Discard(w) ==
    /\ worker[w].pc = "answered" /\ ~Owns(w, worker[w].run)
    /\ Rest(w)
    /\ UNCHANGED <<storeVars, calls>>

-------------------------------------------------------------------------------
(* The process dies: its event stays processing until the lease runs out.  *)
Crash(w) ==
    /\ worker[w].pc # "idle"
    /\ outbox[worker[w].run].attempts < MaxClaims
    /\ Rest(w)
    /\ UNCHANGED <<storeVars, calls>>

(* lease_until passes, whether or not the owner is still at work.          *)
LeaseExpire(r) ==
    /\ outbox[r].live /\ outbox[r].attempts < MaxClaims
    /\ outbox' = [outbox EXCEPT ![r].live = FALSE]
    /\ UNCHANGED <<run, op, claims, audit, idem, workerVars>>

(* available_at passes.                                                    *)
Due(r) ==
    /\ outbox[r].status = "retry" /\ ~outbox[r].due
    /\ outbox' = [outbox EXCEPT ![r].due = TRUE]
    /\ UNCHANGED <<run, op, claims, audit, idem, workerVars>>

Finalize(w) == FinalizeSuccess(w) \/ FinalizeRetry(w) \/ FinalizeError(w) \/ Discard(w)

WorkerNext ==
    \/ \E w \in Worker : \/ \E r \in Run : Claim(w, r)
                         \/ Call(w) \/ Return(w) \/ Finalize(w) \/ Crash(w)
    \/ \E r \in Run : LeaseExpire(r) \/ Due(r)
===============================================================================
