----------------------------- MODULE RunPlatform ------------------------------
(***************************************************************************)
(* The API processes and the outbox workers over one database: every step  *)
(* is a step of a request handler or of a worker process.                  *)
(***************************************************************************)
EXTENDS RunRequests, OutboxWorker

vars == <<storeVars, req, workerVars>>

Init == StoreInit /\ RequestInit /\ WorkerInit

Next == \/ RequestNext /\ UNCHANGED workerVars
        \/ WorkerNext /\ UNCHANGED req

Spec == Init /\ [][Next]_vars

(* A handler that is not killed runs to its answer; a worker that is not   *)
(* killed finishes process_once, whose connector calls time out; clocks    *)
(* advance.  The polling loop takes the oldest claimable event, so an      *)
(* event that is claimable again and again is claimed.                     *)
Fairness ==
    /\ \A q \in Slot : WF_vars(Handle(q) /\ UNCHANGED workerVars)
    /\ \A w \in Worker : WF_vars((Call(w) \/ Return(w) \/ Finalize(w)) /\ UNCHANGED req)
    /\ \A r \in Run : /\ WF_vars((LeaseExpire(r) \/ Due(r)) /\ UNCHANGED req)
                      /\ SF_vars((\E w \in Worker : Claim(w, r)) /\ UNCHANGED req)

FairSpec == Spec /\ Fairness

-------------------------------------------------------------------------------
(* The shape of every row, of every request handler and of every worker:   *)
(* a handler in flight has its request, a worker at work has its run.      *)
TypeOK == StoreTypeOK /\ RequestTypeOK /\ WorkerTypeOK

(* The run, its operation and its outbox event always tell the same story: *)
(* no operation before execution is requested, a leased event exactly while*)
(* the operation is executing, and one common outcome afterwards, although *)
(* requests and several workers write the three rows.                      *)
Dormant(r) == op[r] = "none" /\ outbox[r] = NoEvent
Waiting(r) == /\ op[r] = "pending" /\ outbox[r].status \in {"pending", "retry"}
              /\ outbox[r].owner = None
Leased(r) == /\ op[r] = "executing" /\ outbox[r].status = "processing"
             /\ outbox[r].owner \in Worker
Closed(r) == /\ op[r] = run[r].status /\ outbox[r].owner = None
             /\ outbox[r].status = IF op[r] = "executed" THEN "processed" ELSE op[r]
StatusAgreement ==
    \A r \in Run :
        /\ run[r].status \in {"absent", "proposed", "approved", "rejected"} => Dormant(r)
        /\ run[r].status = "execution_pending" => Waiting(r) \/ Leased(r)
        /\ run[r].status \in Terminal => Closed(r)

(* Nothing leaves the program for a run that is not eligible or that no    *)
(* owner or approver of the run's own tenant has approved: a worker at     *)
(* work, a call made or a settled outcome all presuppose that decision.    *)
ApprovedBy(r) ==
    /\ run[r].eligible /\ run[r].approver # None /\ run[r].rejecter = None
    /\ TenantOf[run[r].approver] = run[r].tenant
    /\ RolesOf[run[r].approver] \cap {"owner", "approver"} # {}
WriteOnlyAfterApproval ==
    /\ \A r \in Run : calls[r] > 0 \/ run[r].status \in Terminal => ApprovedBy(r)
    /\ \A w \in Worker : worker[w].pc # "idle" => ApprovedBy(worker[w].run)

(* The audit trail read alone gives the run's state: it starts with the    *)
(* proposal, has at most one decision, then the request, the retries and   *)
(* at most one outcome, and its last event is the one of the status.       *)
Last(r) == audit[r][Len(audit[r])].type
AuditTrailTellsStatus ==
    \A r \in Run :
        LET n == Len(audit[r])
            event(i) == audit[r][i].type IN
        /\ n = 0 <=> run[r].status = "absent"
        /\ \A i \in 1..n :
              /\ event(i) = "run_proposed" <=> i = 1
              /\ event(i) \in {"run_approved", "run_rejected"} <=> i = 2
              /\ event(i) = "execution_requested" <=> i = 3
              /\ i < n => event(i) \notin {"run_rejected", "execution_completed",
                                           "execution_failed", "execution_unknown"}
        /\ run[r].status = "proposed" => n = 1
        /\ run[r].status = "approved" => Last(r) = "run_approved"
        /\ run[r].status = "rejected" => Last(r) = "run_rejected"
        /\ run[r].status = "execution_pending" =>
              Last(r) \in {"execution_requested", "execution_retry_scheduled"}
        /\ run[r].status \in Terminal => Last(r) = SettledEvent(run[r].status)

(* A client that repeats its execute request is told the outcome the       *)
(* worker reached: the recorded answer is 202 exactly while execution is   *)
(* pending, 200 when the run is executed and 502 when it failed or its     *)
(* outcome is unknown.                                                     *)
ExecuteReplayIsCurrent ==
    \A k \in Scope :
        k[2] = "run.execute" /\ idem[k] # None =>
            LET status == run[idem[k].resource].status IN
            idem[k].code = CASE status = "execution_pending" -> 202
                             [] status = "executed" -> 200
                             [] status \in {"failed", "unknown"} -> 502
                             [] OTHER -> 0

(* Each effect has exactly one recorded request: a run is created, decided *)
(* and sent to execution under one key each, however requests race and are *)
(* sent again.                                                             *)
RecordsOf(r, operations) ==
    {k \in Scope : k[2] \in operations /\ idem[k] # None /\ idem[k].resource = r}
OneRecordPerEffect ==
    \A r \in Run :
        /\ Cardinality(RecordsOf(r, Creation)) = IF run[r].status = "absent" THEN 0 ELSE 1
        /\ Cardinality(RecordsOf(r, {"run.approve"})) = IF run[r].approver = None THEN 0 ELSE 1
        /\ Cardinality(RecordsOf(r, {"run.reject"})) = IF run[r].rejecter = None THEN 0 ELSE 1
        /\ Cardinality(RecordsOf(r, {"run.execute"})) = IF op[r] = "none" THEN 0 ELSE 1

(* An answer that accepts a request is backed by the record of that very   *)
(* request, so that the same request sent again gets the same resource.    *)
AcceptedIsRecorded ==
    \A q \in Slot :
        req[q].pc = "done" /\ req[q].reply.detail = "ok" =>
            LET s == req[q].sub
                rec == idem[ScopeOf(s)] IN
            /\ rec # None /\ rec.actor = s.principal /\ rec.hash = HashOf(s)
            /\ rec.resource = req[q].reply.resource

(* A source message prepares at most one run of its tenant, whatever keys  *)
(* the requests for it carry: every recorded preparation from it names the *)
(* run of the claim, and no two messages share a run.                      *)
OneRunPerSource ==
    /\ \A k \in Scope :
          k[2] = "run.from_mail" /\ idem[k] # None =>
              claims[<<k[1], idem[k].hash.source>>] = idem[k].resource
    /\ \A c, d \in Tenant \X Source : claims[c] # None /\ claims[c] = claims[d] => c = d
    /\ \A c \in Tenant \X Source : claims[c] # None => run[claims[c]].tenant = c[1]

(* An order that does not reconcile with the ERP catalog is never approved *)
(* or executed, whoever decides on the run prepared from it.               *)
BlockedOrdersStayBlocked ==
    \A k \in Scope :
        k[2] = "run.from_mail" /\ idem[k] # None /\ idem[k].hash.body = "mismatched" =>
            run[idem[k].resource].status \in {"proposed", "rejected"}

(* Retries are only scheduled while attempts are left, and no call is made *)
(* without a claim of its own, however leases are lost.                    *)
Retries(r) == Cardinality({i \in DOMAIN audit[r] :
                             audit[r][i].type = "execution_retry_scheduled"})
AttemptsAccountForCalls ==
    \A r \in Run :
        /\ calls[r] + Cardinality({w \in Worker : worker[w].run = r
                                                  /\ worker[w].pc = "claimed"})
              <= outbox[r].attempts
        /\ Retries(r) < MaxAttempts
        /\ run[r].status = "executed" => calls[r] > 0

(* A settled or rejected run never changes again: a worker that lost its   *)
(* lease may still call the connector, but it cannot overwrite the outcome.*)
SettledIsFinal ==
    [][\A r \in Run : run[r].status \in Terminal \cup {"rejected"} =>
          /\ run'[r] = run[r] /\ op'[r] = op[r] /\ audit'[r] = audit[r]
          /\ outbox'[r].status = outbox[r].status]_vars

(* An approved run whose execution was requested reaches an outcome, if    *)
(* leases are lost and processes crash finitely often.                     *)
ExecutionSettles ==
    \A r \in Run : run[r].status = "execution_pending" ~> run[r].status \in Terminal

-------------------------------------------------------------------------------
(* The platform implements the life of a governed run: the status column   *)
(* is the stage, and a run is touched once its connector has been called.  *)
Governed == INSTANCE GovernedRun WITH stage <- [r \in Run |-> run[r].status],
                                      touched <- [r \in Run |-> calls[r] > 0]
ImplementsGovernedRun == Governed!Spec

-------------------------------------------------------------------------------
(* README.md: "una chiave idempotente ripetuta restituisce lo stesso Run": *)
(* a request whose own record exists is never answered with a conflict.    *)
ReplayReturnsSameRun ==
    [][\A q \in Slot :
          LET s == req'[q].sub IN
          (/\ req[q].pc # "done" /\ req'[q].pc = "done"
           /\ s.op \in Creation
           /\ Matches(idem[ScopeOf(s)], s)) => req'[q].reply.code # 409]_vars

(* README.md: "timeout o crash dopo l'invio possono produrre stato unknown *)
(* e richiedono riconciliazione, non un retry cieco": a further call for a *)
(* run is made only after a retry was scheduled for it.                    *)
NoBlindRetry == \A r \in Run : calls[r] <= Retries(r) + 1
===============================================================================
