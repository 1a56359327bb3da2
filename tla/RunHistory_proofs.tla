--------------------------- MODULE RunHistory_proofs --------------------------
(***************************************************************************)
(* Theorems about what the platform records: audit trail, idempotency      *)
(* records, source claims and attempts, for every value of the constants.  *)
(* Every step is first brought to one of eight forms, whose effect on each *)
(* table is plain; each invariant is then shown form by form.              *)
(***************************************************************************)
EXTENDS RunPlatform_proofs, FiniteSetTheorems

(* The commit that takes run z from one status to another writes no row of *)
(* another run and appends one event to the trail of z.                    *)
Moves(z, from, to, type) ==
    /\ z \in Run /\ run[z].status = from /\ run'[z].status = to
    /\ run'[z].eligible \in BOOLEAN
    /\ \A r \in Run \ {z} : /\ run'[r] = run[r] /\ op'[r] = op[r]
                            /\ outbox'[r] = outbox[r] /\ audit'[r] = audit[r]
    /\ \E actor \in Principal \cup {None} :
          audit'[z] = Append(audit[z], [type |-> type, actor |-> actor])

SameOperation(z) == op'[z] = op[z] /\ outbox'[z] = outbox[z]

(* A handler commits its transition with the record of its request.        *)
Recorded(q, code, z) ==
    /\ q \in Slot /\ req[q].pc = "commit" /\ req[q].sub \in Submission
    /\ KeyFree(req[q].sub) /\ Remember(req[q].sub, code, z)
    /\ Answer(q, Accepted(code, z)) /\ UNCHANGED workerVars

Creates(q, z) ==
    LET s == req[q].sub IN
    /\ Recorded(q, 201, z) /\ Moves(z, "absent", "proposed", "run_proposed")
    /\ run'[z].tenant = TenantOfRequest(s)
    /\ run'[z].approver = None /\ run'[z].rejecter = None
    /\ SameOperation(z)
    /\ \/ s.op = "run.dry_run" /\ UNCHANGED claims
       \/ /\ s.op = "run.from_mail" /\ SourceFree(s)
          /\ run'[z].eligible = (s.body = "matched")
          /\ claims' = [claims EXCEPT ![ClaimOf(s)] = z]

Approves(q, z) ==
    LET s == req[q].sub IN
    /\ Recorded(q, 200, z) /\ Moves(z, "proposed", "approved", "run_approved")
    /\ s.op = "run.approve" /\ run[z].eligible
    /\ run'[z].eligible = run[z].eligible /\ run'[z].tenant = run[z].tenant
    /\ run'[z].approver = s.principal /\ run'[z].rejecter = run[z].rejecter
    /\ SameOperation(z) /\ UNCHANGED claims

Rejects(q, z) ==
    LET s == req[q].sub IN
    /\ Recorded(q, 200, z) /\ Moves(z, "proposed", "rejected", "run_rejected")
    /\ s.op = "run.reject"
    /\ run'[z].eligible = run[z].eligible /\ run'[z].tenant = run[z].tenant
    /\ run'[z].approver = run[z].approver /\ run'[z].rejecter = s.principal
    /\ SameOperation(z) /\ UNCHANGED claims

Requests(q, z) ==
    /\ Recorded(q, 202, z)
    /\ Moves(z, "approved", "execution_pending", "execution_requested")
    /\ req[q].sub.op = "run.execute" /\ SameDecision(z)
    /\ op'[z] = "pending" /\ outbox'[z].status = "pending" /\ outbox'[z].attempts = 0
    /\ UNCHANGED claims

(* A worker that owns the event of z finalizes it.                         *)
Owner(w, z) ==
    /\ w \in Worker /\ worker[w].pc = "answered" /\ worker[w].run = z /\ Owns(w, z)
    /\ op[z] = "executing" /\ outbox'[z].attempts = outbox[z].attempts
    /\ Rest(w) /\ UNCHANGED <<claims, calls, req>>

Settles(w, z, status) ==
    /\ Owner(w, z) /\ status \in Terminal
    /\ Moves(z, "execution_pending", status, SettledEvent(status)) /\ SameDecision(z)
    /\ op'[z] = status /\ outbox'[z].status = EventOutcome(status)
    /\ UpdateReplay(z, IF status = "executed" THEN 200 ELSE 502)

Retrying(w, z) ==
    /\ Owner(w, z) /\ outbox[z].attempts < MaxAttempts
    /\ Moves(z, "execution_pending", "execution_pending", "execution_retry_scheduled")
    /\ op'[z] = "pending" /\ outbox'[z].status = "retry" /\ UNCHANGED <<run, idem>>

Claiming(w, z) ==
    /\ w \in Worker /\ z \in Run /\ worker[w].pc = "idle"
    /\ run[z].status = "execution_pending" /\ op[z] # "none" /\ op'[z] # "none"
    /\ outbox'[z].status = "processing" /\ outbox'[z].attempts = outbox[z].attempts + 1
    /\ \A r \in Run \ {z} : op'[r] = op[r] /\ outbox'[r] = outbox[r]
    /\ worker' = [worker EXCEPT ![w] = [pc |-> "claimed", run |-> z, outcome |-> None]]
    /\ UNCHANGED <<run, claims, audit, idem, calls, req>>

(* Neither the clocks nor a step that writes no table touch more than the  *)
(* clocks of an event.                                                     *)
Quiet ==
    /\ UNCHANGED <<run, op, claims, audit, idem>>
    /\ \A r \in Run : /\ outbox'[r].status = outbox[r].status
                      /\ outbox'[r].attempts = outbox[r].attempts

StoreStep ==
    \/ \E q \in Slot, z \in Run : Creates(q, z) \/ Approves(q, z) \/ Rejects(q, z) \/ Requests(q, z)
    \/ \E w \in Worker, z \in Run : \/ \E status \in Terminal : Settles(w, z, status)
                                    \/ Retrying(w, z) \/ Claiming(w, z)
    \/ Quiet

(* The event a commit appends.                                             *)
LEMMA AuditedAppends ==
    ASSUME TypeOK, NEW z \in Run, NEW type, NEW actor \in Principal \cup {None},
           Audited(z, type, actor)
    PROVE  /\ audit'[z] = Append(audit[z], [type |-> type, actor |-> actor])
           /\ \A r \in Run \ {z} : audit'[r] = audit[r]
BY DEF TypeOK, StoreTypeOK, Audited

(* Every step of a handler that writes a table has one of four forms.      *)
LEMMA HandlerForms ==
    ASSUME TypeOK, NEW q \in Slot, UNCHANGED workerVars,
           \/ CommitDryRun(q) \/ CommitFromMail(q)
           \/ CommitApprove(q) \/ CommitReject(q) \/ CommitExecute(q)
    PROVE  \E z \in Run : Creates(q, z) \/ Approves(q, z) \/ Rejects(q, z) \/ Requests(q, z)
<1> DEFINE s == req[q].sub
<1>t. /\ run \in [Run -> RunRow] /\ op \in [Run -> OpStatus \cup {"none"}]
      /\ outbox \in [Run -> EventRow]
  BY DEF TypeOK, StoreTypeOK, WorkerTypeOK
<1>s. s \in Submission /\ s.principal \in Principal
  <2>1. s \in Submission
    BY DEF TypeOK, RequestTypeOK, CommitDryRun, CommitFromMail, CommitApprove, CommitReject,
           CommitExecute
  <2> QED BY <2>1, SubmissionAssumption
<1>1. ASSUME NEW z \in Run, NEW eligible \in BOOLEAN, run[z].status = "absent",
             Proposed(s, z, eligible), UNCHANGED <<op, outbox>>
      PROVE  /\ Moves(z, "absent", "proposed", "run_proposed") /\ SameOperation(z)
             /\ run'[z].tenant = TenantOfRequest(s) /\ run'[z].eligible = eligible
             /\ run'[z].approver = None /\ run'[z].rejecter = None
  <2>1. /\ run'[z].status = "proposed" /\ run'[z].tenant = TenantOfRequest(s)
        /\ run'[z].eligible = eligible /\ run'[z].approver = None /\ run'[z].rejecter = None
        /\ \A r \in Run \ {z} : run'[r] = run[r]
    BY <1>1, <1>t DEF Proposed, NoRun
  <2>2. Audited(z, "run_proposed", s.principal)
    BY <1>1 DEF Proposed
  <2> QED BY <1>1, <1>s, <2>1, <2>2, AuditedAppends DEF Moves, SameOperation
<1>2. CASE CommitDryRun(q)
  <2>1. PICK z \in Run : /\ run[z].status = "absent" /\ Proposed(s, z, TRUE)
                         /\ Remember(s, 201, z) /\ Answer(q, Accepted(201, z))
    BY <1>2 DEF CommitDryRun
  <2>2. Recorded(q, 201, z)
    BY <1>2, <1>s, <2>1 DEF CommitDryRun, Recorded
  <2>3. s.op = "run.dry_run" /\ UNCHANGED <<op, outbox, claims>>
    BY <1>2 DEF CommitDryRun
  <2> QED BY <1>1, <2>1, <2>2, <2>3 DEF Creates
<1>3. CASE CommitFromMail(q)
  <2>1. PICK z \in Run : /\ run[z].status = "absent" /\ Proposed(s, z, MailEligible(s))
                         /\ claims' = [claims EXCEPT ![ClaimOf(s)] = z]
                         /\ Remember(s, 201, z) /\ Answer(q, Accepted(201, z))
    BY <1>3 DEF CommitFromMail
  <2>2. Recorded(q, 201, z)
    BY <1>3, <1>s, <2>1 DEF CommitFromMail, Recorded
  <2>3. s.op = "run.from_mail" /\ SourceFree(s) /\ UNCHANGED <<op, outbox>>
    BY <1>3 DEF CommitFromMail
  <2>4. MailEligible(s) = (s.body = "matched") /\ MailEligible(s) \in BOOLEAN
    BY DEF MailEligible
  <2> QED BY <1>1, <2>1, <2>2, <2>3, <2>4 DEF Creates
<1>4. CASE CommitApprove(q)
  <2>0. PICK z \in Run : z = s.target
    BY <1>4, TransitionTarget
  <2>1. run[z] \in RunRow
    BY <1>t
  <2>2. Recorded(q, 200, z)
    BY <1>4, <2>0, <1>s DEF CommitApprove, Recorded
  <2>3. /\ run[z].status = "proposed" /\ run[z].eligible
        /\ s.op = "run.approve" /\ UNCHANGED <<op, outbox, claims>>
    BY <1>4, <2>0 DEF CommitApprove, CasHolds
  <2>4. /\ run'[z].status = "approved" /\ run'[z].approver = s.principal
        /\ run'[z].eligible = run[z].eligible /\ run'[z].tenant = run[z].tenant
        /\ run'[z].rejecter = run[z].rejecter
        /\ \A r \in Run \ {z} : run'[r] = run[r]
    BY <1>4, <2>0, <1>t, <2>1 DEF CommitApprove, RunRow
  <2>5. Moves(z, "proposed", "approved", "run_approved")
    <3>1. Audited(z, "run_approved", s.principal)
      BY <1>4, <2>0 DEF CommitApprove
    <3>2. /\ \E actor \in Principal \cup {None} :
                audit'[z] = Append(audit[z], [type |-> "run_approved", actor |-> actor])
          /\ \A r \in Run \ {z} : audit'[r] = audit[r]
      BY <1>s, <2>1, <3>1, AuditedAppends
    <3>3. run'[z].eligible \in BOOLEAN
      BY <2>1, <2>4 DEF RunRow
    <3> QED BY <2>1, <2>3, <2>4, <3>2, <3>3 DEF Moves
  <2> QED BY <2>1, <2>2, <2>3, <2>4, <2>5 DEF Approves, SameOperation
<1>5. CASE CommitReject(q)
  <2>0. PICK z \in Run : z = s.target
    BY <1>5, TransitionTarget
  <2>1. run[z] \in RunRow
    BY <1>t
  <2>2. Recorded(q, 200, z)
    BY <1>5, <2>0, <1>s DEF CommitReject, Recorded
  <2>3. run[z].status = "proposed" /\ s.op = "run.reject" /\ UNCHANGED <<op, outbox, claims>>
    BY <1>5, <2>0 DEF CommitReject, CasHolds
  <2>4. /\ run'[z].status = "rejected" /\ run'[z].rejecter = s.principal
        /\ run'[z].eligible = run[z].eligible /\ run'[z].tenant = run[z].tenant
        /\ run'[z].approver = run[z].approver
        /\ \A r \in Run \ {z} : run'[r] = run[r]
    BY <1>5, <2>0, <1>t, <2>1 DEF CommitReject, RunRow
  <2>5. Moves(z, "proposed", "rejected", "run_rejected")
    <3>1. Audited(z, "run_rejected", s.principal)
      BY <1>5, <2>0 DEF CommitReject
    <3>2. /\ \E actor \in Principal \cup {None} :
                audit'[z] = Append(audit[z], [type |-> "run_rejected", actor |-> actor])
          /\ \A r \in Run \ {z} : audit'[r] = audit[r]
      BY <1>s, <2>1, <3>1, AuditedAppends
    <3>3. run'[z].eligible \in BOOLEAN
      BY <2>1, <2>4 DEF RunRow
    <3> QED BY <2>1, <2>3, <2>4, <3>2, <3>3 DEF Moves
  <2> QED BY <2>1, <2>2, <2>3, <2>4, <2>5 DEF Rejects, SameOperation
<1>6. CASE CommitExecute(q)
  <2>0. PICK z \in Run : z = s.target
    BY <1>6, TransitionTarget
  <2>1. run[z] \in RunRow
    BY <1>t
  <2>2. Recorded(q, 202, z)
    BY <1>6, <2>0, <1>s DEF CommitExecute, Recorded
  <2>3. run[z].status = "approved" /\ s.op = "run.execute" /\ UNCHANGED claims
    BY <1>6, <2>0 DEF CommitExecute, CasHolds
  <2>4. /\ run'[z].status = "execution_pending" /\ SameDecision(z)
        /\ \A r \in Run \ {z} : run'[r] = run[r]
    BY <1>6, <2>0, <1>t, <2>1 DEF CommitExecute, RunRow, SameDecision
  <2>5. /\ op'[z] = "pending" /\ outbox'[z].status = "pending" /\ outbox'[z].attempts = 0
        /\ \A r \in Run \ {z} : op'[r] = op[r] /\ outbox'[r] = outbox[r]
    BY <1>6, <2>0, <1>t, <2>1 DEF CommitExecute, NoEvent
  <2>6. Moves(z, "approved", "execution_pending", "execution_requested")
    <3>1. Audited(z, "execution_requested", s.principal)
      BY <1>6, <2>0 DEF CommitExecute
    <3>2. /\ \E actor \in Principal \cup {None} :
                audit'[z] = Append(audit[z], [type |-> "execution_requested", actor |-> actor])
          /\ \A r \in Run \ {z} : audit'[r] = audit[r]
      BY <1>s, <2>1, <3>1, AuditedAppends
    <3>3. run'[z].eligible \in BOOLEAN
      BY <2>1, <2>4 DEF RunRow, SameDecision
    <3> QED BY <2>1, <2>3, <2>4, <2>5, <3>2, <3>3 DEF Moves
  <2> QED BY <2>1, <2>2, <2>3, <2>4, <2>5, <2>6 DEF Requests
<1> QED BY <1>2, <1>3, <1>4, <1>5, <1>6

(* A step of a worker that writes a table has one of three forms.          *)
LEMMA WorkerForms ==
    ASSUME TypeOK, StatusAgreement, NEW w \in Worker, UNCHANGED req,
           \/ \E r \in Run : Claim(w, r)
           \/ FinalizeSuccess(w) \/ FinalizeRetry(w) \/ FinalizeError(w)
    PROVE  \E z \in Run : \/ \E status \in Terminal : Settles(w, z, status)
                          \/ Retrying(w, z) \/ Claiming(w, z)
<1>t. /\ run \in [Run -> RunRow] /\ op \in [Run -> OpStatus \cup {"none"}]
      /\ outbox \in [Run -> EventRow]
  BY DEF TypeOK, StoreTypeOK, WorkerTypeOK
<1>1. ASSUME NEW z \in Run, Claim(w, z) PROVE Claiming(w, z)
  <2>1. run[z].status = "execution_pending" /\ op[z] \in {"pending", "executing"}
    BY <1>1, ClaimableIsPending DEF Claim
  <2>2. /\ outbox'[z].status = "processing" /\ outbox'[z].attempts = outbox[z].attempts + 1
        /\ \A r \in Run \ {z} : outbox'[r] = outbox[r]
    BY <1>1, <1>t DEF Claim, EventRow
  <2>3. op'[z] # "none" /\ \A r \in Run \ {z} : op'[r] = op[r]
    BY <1>1, <1>t, <2>1 DEF Claim
  <2> QED BY <1>1, <2>1, <2>2, <2>3 DEF Claim, Claiming
<1>2. ASSUME NEW z \in Run, z = worker[w].run, NEW word, Release(z, word)
      PROVE  /\ outbox'[z].status = word /\ outbox'[z].attempts = outbox[z].attempts
             /\ \A r \in Run \ {z} : outbox'[r] = outbox[r]
  <2>1. outbox' = [outbox EXCEPT ![z] = [outbox[z] EXCEPT !.status = word, !.owner = None,
                                            !.live = FALSE, !.due = @ /\ word # "retry"]]
    BY <1>2, <1>t DEF Release
  <2>2. outbox[z] \in EventRow
    BY <1>t
  <2>3. outbox'[z] = [outbox[z] EXCEPT !.status = word, !.owner = None,
                                      !.live = FALSE, !.due = @ /\ word # "retry"]
    BY <1>t, <2>1
  <2>4. outbox'[z].status = word /\ outbox'[z].attempts = outbox[z].attempts
    BY <2>2, <2>3 DEF EventRow
  <2> QED BY <1>t, <2>1, <2>4
<1>3. ASSUME NEW z \in Run, z = worker[w].run, worker[w].pc = "answered", Owns(w, z), Rest(w),
             NEW status \in Terminal,
             Settle(z, status, IF status = "executed" THEN 200 ELSE 502)
      PROVE  Settles(w, z, status)
  <2>1. run[z].status = "execution_pending" /\ op[z] = "executing" /\ run[z] \in RunRow
    BY <1>3, <1>t, OwnedIsPending
  <2>2. /\ run'[z].status = status /\ SameDecision(z) /\ run'[z].eligible \in BOOLEAN
        /\ \A r \in Run \ {z} : run'[r] = run[r]
    BY <1>3, <1>t, <2>1 DEF Settle, RunRow, SameDecision
  <2>3. op'[z] = status /\ \A r \in Run \ {z} : op'[r] = op[r]
    BY <1>3, <1>t DEF Settle
  <2>4. /\ outbox'[z].status = EventOutcome(status) /\ outbox'[z].attempts = outbox[z].attempts
        /\ \A r \in Run \ {z} : outbox'[r] = outbox[r]
    BY <1>2, <1>3 DEF Settle
  <2>5. Audited(z, SettledEvent(status), None)
    BY <1>3 DEF Settle
  <2>6. /\ audit'[z] = Append(audit[z], [type |-> SettledEvent(status), actor |-> None])
        /\ \A r \in Run \ {z} : audit'[r] = audit[r]
    BY <2>5, AuditedAppends
  <2>7. Moves(z, "execution_pending", status, SettledEvent(status))
    BY <2>1, <2>2, <2>3, <2>4, <2>6 DEF Moves
  <2>8. Owner(w, z)
    BY <1>3, <2>1, <2>4 DEF Owner, Settle
  <2>9. UpdateReplay(z, IF status = "executed" THEN 200 ELSE 502)
    BY <1>3 DEF Settle
  <2> QED BY <2>2, <2>3, <2>4, <2>7, <2>8, <2>9 DEF Settles
<1>4. CASE FinalizeSuccess(w)
  <2>1. PICK z \in Run : z = worker[w].run
    BY <1>4, Finalized DEF Finalize
  <2>2. Settles(w, z, "executed")
    BY <1>3, <1>4, <2>1 DEF FinalizeSuccess, Terminal
  <2> QED BY <2>2 DEF Terminal
<1>5. CASE FinalizeError(w)
  <2>1. PICK z \in Run : z = worker[w].run
    BY <1>5, Finalized DEF Finalize
  <2>2. PICK status \in {"failed", "unknown"} : Settle(z, status, 502)
    BY <1>5, <2>1 DEF FinalizeError
  <2>3. Settles(w, z, status)
    BY <1>3, <1>5, <2>1, <2>2 DEF FinalizeError, Terminal
  <2> QED BY <2>2, <2>3 DEF Terminal
<1>6. CASE FinalizeRetry(w)
  <2>1. PICK z \in Run : z = worker[w].run
    BY <1>6, Finalized DEF Finalize
  <2>2. Owns(w, z) /\ worker[w].pc = "answered" /\ Release(z, "retry") /\ Requeue(z)
    BY <1>6, <2>1 DEF FinalizeRetry
  <2>3. run[z].status = "execution_pending" /\ op[z] = "executing" /\ run[z] \in RunRow
    BY <2>2, <1>t, OwnedIsPending
  <2>4. op'[z] = "pending" /\ \A r \in Run \ {z} : op'[r] = op[r]
    BY <2>2, <1>t DEF Requeue
  <2>5. /\ outbox'[z].status = "retry" /\ outbox'[z].attempts = outbox[z].attempts
        /\ \A r \in Run \ {z} : outbox'[r] = outbox[r]
    BY <1>2, <2>1, <2>2
  <2>6. Audited(z, "execution_retry_scheduled", None)
    BY <1>6, <2>1 DEF FinalizeRetry
  <2>7. /\ audit'[z] = Append(audit[z], [type |-> "execution_retry_scheduled", actor |-> None])
        /\ \A r \in Run \ {z} : audit'[r] = audit[r]
    BY <2>6, AuditedAppends
  <2>8. UNCHANGED <<run, idem, claims, calls>> /\ Rest(w) /\ outbox[z].attempts < MaxAttempts
    BY <1>6, <2>1 DEF FinalizeRetry, RetryLeft
  <2>9. Moves(z, "execution_pending", "execution_pending", "execution_retry_scheduled")
    BY <2>3, <2>4, <2>5, <2>7, <2>8 DEF Moves, RunRow
  <2>10. Owner(w, z)
    BY <2>1, <2>2, <2>3, <2>5, <2>8 DEF Owner
  <2> QED BY <2>4, <2>5, <2>8, <2>9, <2>10 DEF Retrying
<1> QED BY <1>1, <1>4, <1>5, <1>6

(* Every step of the platform has one of the eight forms.                  *)
LEMMA StoreSteps ==
    ASSUME TypeOK, StatusAgreement, [Next]_vars
    PROVE  StoreStep
<1>u. ASSUME UNCHANGED storeVars PROVE Quiet
  BY <1>u DEF storeVars, Quiet
<1>1. CASE RequestNext /\ UNCHANGED workerVars
  <2>1. PICK q \in Slot : Begin(q) \/ Handle(q) \/ Respond(q) \/ Abort(q)
    BY <1>1 DEF RequestNext
  <2>2. CASE \/ CommitDryRun(q) \/ CommitFromMail(q)
             \/ CommitApprove(q) \/ CommitReject(q) \/ CommitExecute(q)
    BY <1>1, <2>2, HandlerForms DEF StoreStep
  <2> QED BY <1>u, <2>1, <2>2, QuietRequest DEF Handle, StoreStep
<1>2. CASE WorkerNext /\ UNCHANGED req
  <2>1. ASSUME NEW w \in Worker, (\E r \in Run : Claim(w, r)) \/ Finalize(w) PROVE StoreStep
    <3>1. CASE Discard(w)
      BY <1>u, <3>1 DEF Discard, StoreStep
    <3> QED BY <1>2, <2>1, <3>1, WorkerForms DEF Finalize, StoreStep
  <2>2. ASSUME NEW w \in Worker, Call(w) \/ Return(w) \/ Crash(w) PROVE StoreStep
    BY <1>u, <2>2 DEF Call, Return, Crash, storeVars, StoreStep
  <2>3. ASSUME NEW r \in Run, LeaseExpire(r) \/ Due(r) PROVE StoreStep
    <3>1. outbox \in [Run -> EventRow]
      BY DEF TypeOK, WorkerTypeOK
    <3>2. \A z \in Run : /\ outbox'[z].status = outbox[z].status
                         /\ outbox'[z].attempts = outbox[z].attempts
      BY <2>3, <3>1 DEF LeaseExpire, Due, EventRow
    <3> QED BY <2>3, <3>2 DEF LeaseExpire, Due, Quiet, StoreStep
  <2> QED BY <1>2, <2>1, <2>2, <2>3 DEF WorkerNext
<1>3. CASE UNCHANGED vars
  BY <1>u, <1>3 DEF vars, StoreStep
<1> QED BY <1>1, <1>2, <1>3 DEF Next

-------------------------------------------------------------------------------
(* The moves of the status of a run, with the event each is audited as.    *)
Advance(from, to, type) ==
    \/ from = "absent" /\ to = "proposed" /\ type = "run_proposed"
    \/ from = "proposed" /\ to = "approved" /\ type = "run_approved"
    \/ from = "proposed" /\ to = "rejected" /\ type = "run_rejected"
    \/ from = "approved" /\ to = "execution_pending" /\ type = "execution_requested"
    \/ from = "execution_pending" /\ to = "execution_pending" /\ type = "execution_retry_scheduled"
    \/ from = "execution_pending" /\ to \in Terminal /\ type = SettledEvent(to)

Still(r) ==
    /\ run'[r] = run[r] /\ audit'[r] = audit[r]
    /\ \/ op'[r] = op[r] /\ outbox'[r].status = outbox[r].status
       \/ run[r].status = "execution_pending"

(* Each step leaves a run still or advances its status with its event.     *)
LEMMA RunAdvances ==
    ASSUME StoreStep, NEW r \in Run
    PROVE  Still(r) \/ \E from, to, type : Advance(from, to, type) /\ Moves(r, from, to, type)
<1>1. ASSUME NEW z \in Run, NEW from, NEW to, NEW type, Moves(z, from, to, type),
             Advance(from, to, type)
      PROVE  Still(r) \/ \E f, t, y : Advance(f, t, y) /\ Moves(r, f, t, y)
  <2>1. CASE r = z
    BY <1>1, <2>1
  <2>2. CASE r # z
    BY <1>1, <2>2 DEF Moves, Still
  <2> QED BY <2>1, <2>2
<1>2. ASSUME NEW q \in Slot, NEW z \in Run,
             Creates(q, z) \/ Approves(q, z) \/ Rejects(q, z) \/ Requests(q, z)
      PROVE  Still(r) \/ \E f, t, y : Advance(f, t, y) /\ Moves(r, f, t, y)
  <2>1. \/ Moves(z, "absent", "proposed", "run_proposed")
        \/ Moves(z, "proposed", "approved", "run_approved")
        \/ Moves(z, "proposed", "rejected", "run_rejected")
        \/ Moves(z, "approved", "execution_pending", "execution_requested")
    BY <1>2 DEF Creates, Approves, Rejects, Requests
  <2> QED BY <1>1, <2>1 DEF Advance
<1>3. ASSUME NEW w \in Worker, NEW z \in Run, NEW status \in Terminal, Settles(w, z, status)
      PROVE  Still(r) \/ \E f, t, y : Advance(f, t, y) /\ Moves(r, f, t, y)
  <2>1. Moves(z, "execution_pending", status, SettledEvent(status))
    BY <1>3 DEF Settles
  <2> QED BY <1>1, <2>1 DEF Advance
<1>4. ASSUME NEW w \in Worker, NEW z \in Run, Retrying(w, z)
      PROVE  Still(r) \/ \E f, t, y : Advance(f, t, y) /\ Moves(r, f, t, y)
  <2>1. Moves(z, "execution_pending", "execution_pending", "execution_retry_scheduled")
    BY <1>4 DEF Retrying
  <2> QED BY <1>1, <2>1 DEF Advance
<1>5. ASSUME NEW w \in Worker, NEW z \in Run, Claiming(w, z) PROVE Still(r)
  <2>1. CASE r = z
    BY <1>5, <2>1 DEF Claiming, Still
  <2>2. CASE r # z
    BY <1>5, <2>2 DEF Claiming, Still
  <2> QED BY <2>1, <2>2
<1>6. Quiet => Still(r)
  BY DEF Quiet, Still
<1> QED BY <1>2, <1>3, <1>4, <1>5, <1>6 DEF StoreStep

(* A run that was rejected or reached an outcome keeps its row, operation, *)
(* event and trail: no late worker overwrites them.                        *)
THEOREM OutcomesAreFinal == Spec => SettledIsFinal
<1>1. TypeOK /\ StatusAgreement /\ [Next]_vars =>
         [\A r \in Run : run[r].status \in Terminal \cup {"rejected"} =>
             /\ run'[r] = run[r] /\ op'[r] = op[r] /\ audit'[r] = audit[r]
             /\ outbox'[r].status = outbox[r].status]_vars
  <2> SUFFICES ASSUME TypeOK, StatusAgreement, [Next]_vars, NEW r \in Run,
                      run[r].status \in Terminal \cup {"rejected"}
               PROVE  /\ run'[r] = run[r] /\ op'[r] = op[r] /\ audit'[r] = audit[r]
                      /\ outbox'[r].status = outbox[r].status
    OBVIOUS
  <2>1. ASSUME NEW from, NEW to, NEW type, Advance(from, to, type), Moves(r, from, to, type)
        PROVE  FALSE
    BY <2>1 DEF Advance, Moves, Terminal
  <2>2. Still(r)
    BY <2>1, StoreSteps, RunAdvances
  <2> QED BY <2>2 DEF Still, Terminal
<1> QED BY <1>1, TypeCorrect, StatusesAgree, PTL DEF Spec, SettledIsFinal

-------------------------------------------------------------------------------
(* A trail and the status it tells of a run.                               *)
Ends == {"run_rejected", "execution_completed", "execution_failed", "execution_unknown"}
Tells(trail, status) ==
    /\ Len(trail) = 0 <=> status = "absent"
    /\ \A i \in 1..Len(trail) :
          /\ trail[i].type = "run_proposed" <=> i = 1
          /\ trail[i].type \in {"run_approved", "run_rejected"} <=> i = 2
          /\ trail[i].type = "execution_requested" <=> i = 3
          /\ i < Len(trail) => trail[i].type \notin Ends
    /\ status = "proposed" => Len(trail) = 1
    /\ status = "approved" => trail[Len(trail)].type = "run_approved"
    /\ status = "rejected" => trail[Len(trail)].type = "run_rejected"
    /\ status = "execution_pending" =>
          trail[Len(trail)].type \in {"execution_requested", "execution_retry_scheduled"}
    /\ status \in Terminal => trail[Len(trail)].type = SettledEvent(status)

LEMMA TrailIsTold == AuditTrailTellsStatus <=> \A r \in Run : Tells(audit[r], run[r].status)
BY DEF AuditTrailTellsStatus, Tells, Last, Ends

(* An advance appends the event that the trail of the new status ends with.*)
LEMMA AdvanceTells ==
    ASSUME NEW trail \in Seq(AuditEvent), NEW from, NEW to, NEW e, Tells(trail, from),
           Advance(from, to, e.type)
    PROVE  Tells(Append(trail, e), to)
<1> DEFINE n == Len(trail)
           new == Append(trail, e)
<1>1. /\ n \in Nat /\ Len(new) = n + 1 /\ new[n + 1] = e
      /\ \A i \in 1..n : new[i] = trail[i]
  OBVIOUS
<1>2. \A i \in 1..n : trail[i].type \notin Ends
  <2>1. n \in 1..n => trail[n].type \notin Ends
    <3>1. from \in {"absent", "proposed", "approved", "execution_pending"}
      BY DEF Advance
    <3>2. CASE from = "absent"
      BY <1>1, <3>2 DEF Tells
    <3>3. CASE from = "proposed"
      BY <1>1, <3>3 DEF Tells, Ends
    <3>4. CASE from \in {"approved", "execution_pending"}
      BY <3>4 DEF Tells, Ends
    <3> QED BY <3>1, <3>2, <3>3, <3>4
  <2>2. \A i \in 1..n : i < n => trail[i].type \notin Ends
    BY DEF Tells
  <2> QED BY <1>1, <2>1, <2>2
<1>3. /\ from = "absent" <=> n = 0
      /\ from = "proposed" => n = 1
      /\ from = "approved" => n = 2
      /\ from = "execution_pending" => n >= 3
  <2>1. from = "absent" <=> n = 0
    BY DEF Tells
  <2>2. from = "proposed" => n = 1
    BY DEF Tells
  <2>3. n # 0 => /\ trail[n].type = "run_proposed" <=> n = 1
                 /\ trail[n].type \in {"run_approved", "run_rejected"} <=> n = 2
    <3>1. n # 0 => n \in 1..n
      BY <1>1
    <3> QED BY <3>1 DEF Tells
  <2>4. from = "approved" => n = 2
    <3>1. from = "approved" => trail[n].type = "run_approved" /\ n # 0
      BY <2>1 DEF Tells
    <3> QED BY <2>3, <3>1
  <2>5. from = "execution_pending" => n >= 3
    <3>1. from = "execution_pending" =>
             n # 0 /\ trail[n].type \in {"execution_requested", "execution_retry_scheduled"}
      BY <2>1 DEF Tells
    <3>2. from = "execution_pending" => n # 0 /\ n # 1 /\ n # 2
      BY <2>3, <3>1
    <3>3. n \in Nat
      BY <1>1
    <3> HIDE DEF n
    <3> QED BY <3>2, <3>3
  <2> HIDE DEF n
  <2> QED BY <2>1, <2>2, <2>4, <2>5
<1>4. /\ e.type = "run_proposed" <=> n + 1 = 1
      /\ e.type \in {"run_approved", "run_rejected"} <=> n + 1 = 2
      /\ e.type = "execution_requested" <=> n + 1 = 3
  <2> HIDE DEF n, new
  <2>1. CASE from = "absent" /\ e.type = "run_proposed" /\ n = 0
    BY <2>1
  <2>2. CASE from = "proposed" /\ e.type \in {"run_approved", "run_rejected"} /\ n = 1
    BY <2>2
  <2>3. CASE from = "approved" /\ e.type = "execution_requested" /\ n = 2
    BY <2>3
  <2>4. CASE /\ from = "execution_pending" /\ n >= 3
             /\ e.type \in {"execution_retry_scheduled", "execution_completed",
                            "execution_failed", "execution_unknown"}
    BY <1>1, <2>4
  <2>5. SettledEvent(to) \in {"execution_completed", "execution_failed", "execution_unknown"}
    BY DEF SettledEvent
  <2> QED BY <1>3, <2>1, <2>2, <2>3, <2>4, <2>5 DEF Advance
<1>5. \A i \in 1..Len(new) :
          /\ new[i].type = "run_proposed" <=> i = 1
          /\ new[i].type \in {"run_approved", "run_rejected"} <=> i = 2
          /\ new[i].type = "execution_requested" <=> i = 3
          /\ i < Len(new) => new[i].type \notin Ends
  <2> SUFFICES ASSUME NEW i \in 1..(n + 1)
               PROVE  /\ new[i].type = "run_proposed" <=> i = 1
                      /\ new[i].type \in {"run_approved", "run_rejected"} <=> i = 2
                      /\ new[i].type = "execution_requested" <=> i = 3
                      /\ i < n + 1 => new[i].type \notin Ends
    BY <1>1
  <2> HIDE DEF new
  <2>1. CASE i \in 1..n
    BY <1>1, <1>2, <2>1 DEF Tells
  <2>2. CASE i = n + 1
    BY <1>1, <1>4, <2>2
  <2> QED BY <1>1, <2>1, <2>2
<1>6. /\ to = "proposed" => Len(new) = 1
      /\ to = "approved" => e.type = "run_approved"
      /\ to = "rejected" => e.type = "run_rejected"
      /\ to = "execution_pending" => e.type \in {"execution_requested", "execution_retry_scheduled"}
      /\ to \in Terminal => e.type = SettledEvent(to)
      /\ to # "absent"
  BY <1>1, <1>3 DEF Advance, Terminal
<1> HIDE DEF new
<1> QED BY <1>1, <1>5, <1>6 DEF Tells, n

LEMMA TrailsStay ==
    ASSUME TypeOK, AuditTrailTellsStatus, StoreStep
    PROVE  AuditTrailTellsStatus'
<1>1. ASSUME NEW r \in Run PROVE Tells(audit'[r], run'[r].status)
  <2>1. Tells(audit[r], run[r].status) /\ audit[r] \in Seq(AuditEvent)
    BY TrailIsTold DEF TypeOK, StoreTypeOK
  <2>2. CASE Still(r)
    BY <2>1, <2>2 DEF Still
  <2>3. ASSUME NEW from, NEW to, NEW type, Advance(from, to, type), Moves(r, from, to, type)
        PROVE  Tells(audit'[r], run'[r].status)
    <3>1. PICK actor : audit'[r] = Append(audit[r], [type |-> type, actor |-> actor])
      BY <2>3 DEF Moves
    <3>2. run[r].status = from /\ run'[r].status = to
      BY <2>3 DEF Moves
    <3> DEFINE e == [type |-> type, actor |-> actor]
    <3>3. e.type = type
      OBVIOUS
    <3> HIDE DEF e
    <3>4. ASSUME NEW trail \in Seq(AuditEvent), Tells(trail, from) PROVE Tells(Append(trail, e), to)
      BY <2>3, <3>3, <3>4, AdvanceTells
    <3>5. Tells(Append(audit[r], e), to)
      BY <2>1, <3>2, <3>4
    <3> QED BY <3>1, <3>2, <3>5 DEF e
  <2> QED BY <2>2, <2>3, RunAdvances
<1>2. AuditTrailTellsStatus' <=> \A r \in Run : Tells(audit'[r], run'[r].status)
  BY DEF AuditTrailTellsStatus, Tells, Last, Ends
<1> QED BY <1>1, <1>2

(* The audit trail of a run, read alone, tells its status.                 *)
THEOREM TrailIsComplete == Spec => []AuditTrailTellsStatus
<1>1. Init => AuditTrailTellsStatus
  BY DEF Init, StoreInit, NoRun, AuditTrailTellsStatus, Terminal
<1>2. TypeOK /\ StatusAgreement /\ AuditTrailTellsStatus /\ [Next]_vars => AuditTrailTellsStatus'
  BY StoreSteps, TrailsStay
<1> QED BY <1>1, <1>2, TypeCorrect, StatusesAgree, PTL DEF Spec

-------------------------------------------------------------------------------
(* The record k is new and every other one stays as it is.                 *)
NewRecord(k, rec) ==
    /\ k \in Scope /\ rec \in IdemRecord /\ rec # None
    /\ idem[k] = None /\ idem'[k] = rec
    /\ \A j \in Scope \ {k} : idem'[j] = idem[j]

RecordOf(s, code, z) ==
    [actor |-> s.principal, hash |-> HashOf(s), code |-> code, resource |-> z]

(* A commit of a handler records the request it serves, under a free key.  *)
LEMMA RecordedAdds ==
    ASSUME TypeOK, NEW q, NEW code \in Code, NEW z \in Run, Recorded(q, code, z)
    PROVE  \E s \in Submission : /\ s = req[q].sub
                                 /\ NewRecord(ScopeOf(s), RecordOf(s, code, z))
                                 /\ ScopeOf(s)[1] = TenantOfRequest(s) /\ ScopeOf(s)[2] = s.op
<1>1. PICK s \in Submission : s = req[q].sub
  BY DEF Recorded
<1>2. /\ ScopeOf(s) \in Scope /\ HashOf(s) \in Hash /\ s.principal \in Principal
      /\ ScopeOf(s)[1] = TenantOfRequest(s) /\ ScopeOf(s)[2] = s.op
  BY ScopeType, SubmissionAssumption DEF ScopeOf
<1>3. RecordOf(s, code, z) \in IdemRecord
  BY <1>2 DEF RecordOf, IdemRecord
<1>4. RecordOf(s, code, z) # None
  BY <1>3, RecordAssumption
<1>5. idem[ScopeOf(s)] = None /\ idem' = [idem EXCEPT ![ScopeOf(s)] = RecordOf(s, code, z)]
  BY <1>1 DEF Recorded, KeyFree, Remember, RecordOf
<1>6. idem \in [Scope -> IdemRecord \cup {None}]
  BY DEF TypeOK, StoreTypeOK
<1> QED BY <1>1, <1>2, <1>3, <1>4, <1>5, <1>6 DEF NewRecord

LEMMA RecordFields ==
    ASSUME NEW s, NEW code, NEW z
    PROVE  /\ RecordOf(s, code, z).actor = s.principal /\ RecordOf(s, code, z).hash = HashOf(s)
           /\ RecordOf(s, code, z).code = code /\ RecordOf(s, code, z).resource = z
BY DEF RecordOf

(* A finalization changes the answer of a record and nothing else of it.   *)
LEMMA UpdatedReplay ==
    ASSUME TypeOK, NEW z \in Run, NEW code \in Code, UpdateReplay(z, code), NEW k \in Scope
    PROVE  /\ idem'[k] = None <=> idem[k] = None
           /\ idem[k] # None => /\ idem'[k].actor = idem[k].actor
                                /\ idem'[k].hash = idem[k].hash
                                /\ idem'[k].resource = idem[k].resource
           /\ idem[k] # None /\ k[2] = "run.execute" /\ idem[k].resource = z
                 => idem'[k].code = code
           /\ k[2] # "run.execute" \/ idem[k].resource # z => idem'[k] = idem[k]
<1>1. idem[k] \in IdemRecord \cup {None}
  BY DEF TypeOK, StoreTypeOK
<1>2. idem'[k] = IF k[2] = "run.execute" /\ idem[k] # None /\ idem[k].resource = z
                 THEN [idem[k] EXCEPT !.code = code] ELSE idem[k]
  BY DEF UpdateReplay
<1>3. CASE k[2] = "run.execute" /\ idem[k] # None /\ idem[k].resource = z
  <2>1. idem[k] \in IdemRecord
    BY <1>1, <1>3
  <2>2. /\ idem'[k] \in IdemRecord /\ idem'[k].code = code /\ idem'[k].actor = idem[k].actor
        /\ idem'[k].hash = idem[k].hash /\ idem'[k].resource = idem[k].resource
    BY <1>2, <1>3, <2>1 DEF IdemRecord
  <2> QED BY <1>3, <2>2, RecordAssumption
<1>4. CASE ~(k[2] = "run.execute" /\ idem[k] # None /\ idem[k].resource = z)
  BY <1>2, <1>4
<1> QED BY <1>3, <1>4

(* What a step may do to the records.                                      *)
RecordStep ==
    \/ UNCHANGED idem
    \/ \E q \in Slot, z \in Run, code \in Code : Recorded(q, code, z)
    \/ \E z \in Run, code \in Code : UpdateReplay(z, code)

LEMMA RecordSteps ==
    ASSUME StoreStep
    PROVE  RecordStep
<1>1. {200, 201, 202, 502} = Code
  BY DEF Code
<1>2. ASSUME NEW q \in Slot, NEW z \in Run,
             Creates(q, z) \/ Approves(q, z) \/ Rejects(q, z) \/ Requests(q, z)
      PROVE  RecordStep
  BY <1>1, <1>2 DEF Creates, Approves, Rejects, Requests, RecordStep
<1>3. ASSUME NEW w \in Worker, NEW z \in Run, NEW status \in Terminal, Settles(w, z, status)
      PROVE  RecordStep
  <2>1. UpdateReplay(z, 200) \/ UpdateReplay(z, 502)
    BY <1>3 DEF Settles
  <2> QED BY <1>1, <2>1 DEF RecordStep
<1>4. ASSUME NEW w \in Worker, NEW z \in Run, Retrying(w, z) \/ Claiming(w, z) PROVE RecordStep
  BY <1>4 DEF Retrying, Claiming, RecordStep
<1> QED BY <1>2, <1>3, <1>4 DEF StoreStep, Quiet, RecordStep

(* A record never goes away and never changes whom and what it answers.    *)
LEMMA RecordsPersist ==
    ASSUME TypeOK, RecordStep, NEW k \in Scope, idem[k] # None
    PROVE  /\ idem'[k] # None /\ idem'[k].actor = idem[k].actor
           /\ idem'[k].hash = idem[k].hash /\ idem'[k].resource = idem[k].resource
<1>1. ASSUME NEW q \in Slot, NEW z \in Run, NEW code \in Code, Recorded(q, code, z)
      PROVE  idem'[k] = idem[k]
  <2>1. PICK s \in Submission : NewRecord(ScopeOf(s), RecordOf(s, code, z))
    BY <1>1, RecordedAdds
  <2> QED BY <2>1 DEF NewRecord
<1>2. ASSUME NEW z \in Run, NEW code \in Code, UpdateReplay(z, code)
      PROVE  /\ idem'[k] # None /\ idem'[k].actor = idem[k].actor
             /\ idem'[k].hash = idem[k].hash /\ idem'[k].resource = idem[k].resource
  BY <1>2, UpdatedReplay
<1> QED BY <1>1, <1>2 DEF RecordStep

-------------------------------------------------------------------------------
(* The answer an execute record must give while the run is in a status.    *)
CodeOf(status) ==
    IF status = "execution_pending" THEN 202
    ELSE IF status = "executed" THEN 200
    ELSE IF status \in {"failed", "unknown"} THEN 502 ELSE 0

LEMMA ReplayByCode ==
    /\ ExecuteReplayIsCurrent <=>
          \A k \in Scope : k[2] = "run.execute" /\ idem[k] # None =>
             idem[k].code = CodeOf(run[idem[k].resource].status)
    /\ ExecuteReplayIsCurrent' <=>
          \A k \in Scope : k[2] = "run.execute" /\ idem'[k] # None =>
             idem'[k].code = CodeOf(run'[idem'[k].resource].status)
<1>1. ASSUME NEW status
      PROVE  CodeOf(status) = CASE status = "execution_pending" -> 202
                                [] status = "executed" -> 200
                                [] status \in {"failed", "unknown"} -> 502
                                [] OTHER -> 0
  BY DEF CodeOf
<1> QED BY <1>1 DEF ExecuteReplayIsCurrent

LEMMA ReplaysStay ==
    ASSUME TypeOK, ExecuteReplayIsCurrent, StoreStep
    PROVE  ExecuteReplayIsCurrent'
<1> DEFINE Current(k) == k[2] = "run.execute" /\ idem[k] # None =>
                            idem[k].code = CodeOf(run[idem[k].resource].status)
           CurrentNow(k) == k[2] = "run.execute" /\ idem'[k] # None =>
                            idem'[k].code = CodeOf(run'[idem'[k].resource].status)
<1>t. idem \in [Scope -> IdemRecord \cup {None}]
  BY DEF TypeOK, StoreTypeOK
<1>c. ASSUME NEW k \in Scope PROVE Current(k)
  BY ReplayByCode
<1> SUFFICES ASSUME NEW k \in Scope PROVE CurrentNow(k)
  BY ReplayByCode
<1>0. ASSUME k[2] = "run.execute", idem[k] # None
      PROVE  /\ idem[k].resource \in Run
             /\ run[idem[k].resource].status \in {"execution_pending"} \cup Terminal
  <2>1. idem[k] \in IdemRecord
    BY <1>t, <1>0
  <2>2. idem[k].code \in Code /\ idem[k].resource \in Run
    BY <2>1 DEF IdemRecord
  <2>3. CodeOf(run[idem[k].resource].status) # 0
    BY <1>0, <1>c, <2>2 DEF Code
  <2> QED BY <2>2, <2>3 DEF CodeOf, Terminal
<1>1. ASSUME idem'[k] = idem[k], NEW z \in Run,
             run[z].status \in {"absent", "proposed", "approved"},
             \A r \in Run \ {z} : run'[r] = run[r]
      PROVE  CurrentNow(k)
  BY <1>0, <1>1, <1>c DEF Terminal
<1>2. ASSUME NEW q \in Slot, NEW z \in Run, NEW from, NEW to, NEW type, NEW code \in Code,
             Recorded(q, code, z), Moves(z, from, to, type),
             from \in {"absent", "proposed", "approved"},
             req[q].sub.op = "run.execute" => code = CodeOf(to)
      PROVE  CurrentNow(k)
  <2>1. PICK s \in Submission : /\ s = req[q].sub
                                /\ NewRecord(ScopeOf(s), RecordOf(s, code, z))
                                /\ ScopeOf(s)[2] = s.op
    BY <1>2, RecordedAdds
  <2>2. CASE k = ScopeOf(s)
    <3>1. idem'[k].code = code /\ idem'[k].resource = z /\ run'[z].status = to
      BY <1>2, <2>1, <2>2, RecordFields DEF NewRecord, Moves
    <3> QED BY <1>2, <2>1, <2>2, <3>1
  <2>3. CASE k # ScopeOf(s)
    <3>1. idem'[k] = idem[k]
      BY <2>1, <2>3 DEF NewRecord
    <3> QED BY <1>1, <1>2, <3>1 DEF Moves
  <2> QED BY <2>2, <2>3
<1>3. ASSUME NEW q \in Slot, NEW z \in Run, Creates(q, z) PROVE CurrentNow(k)
  BY <1>2, <1>3 DEF Creates, Code
<1>4. ASSUME NEW q \in Slot, NEW z \in Run, Approves(q, z) \/ Rejects(q, z) PROVE CurrentNow(k)
  BY <1>2, <1>4 DEF Approves, Rejects, Code
<1>5. ASSUME NEW q \in Slot, NEW z \in Run, Requests(q, z) PROVE CurrentNow(k)
  BY <1>2, <1>5 DEF Requests, Code, CodeOf
<1>6. ASSUME NEW w \in Worker, NEW z \in Run, NEW status \in Terminal, Settles(w, z, status)
      PROVE  CurrentNow(k)
  <2>1. PICK code \in Code : UpdateReplay(z, code) /\ code = CodeOf(status)
    BY <1>6 DEF Settles, Code, CodeOf, Terminal
  <2>2. /\ idem'[k] = None <=> idem[k] = None
        /\ idem[k] # None => idem'[k].resource = idem[k].resource
        /\ idem[k] # None /\ k[2] = "run.execute" /\ idem[k].resource = z => idem'[k].code = code
        /\ idem[k].resource # z => idem'[k] = idem[k]
    BY <2>1, UpdatedReplay
  <2>3. run'[z].status = status /\ \A r \in Run \ {z} : run'[r] = run[r]
    BY <1>6 DEF Settles, Moves
  <2>4. CASE idem[k].resource = z
    BY <2>1, <2>2, <2>3, <2>4
  <2>5. CASE idem[k].resource # z
    BY <1>0, <1>c, <2>2, <2>3, <2>5
  <2> QED BY <2>4, <2>5
<1>7. CASE UNCHANGED <<run, idem>>
  BY <1>c, <1>7
<1> QED BY <1>3, <1>4, <1>5, <1>6, <1>7 DEF StoreStep, Retrying, Claiming, Quiet

(* An execute request that is sent again is answered with what became of   *)
(* the execution, in every reachable state.                                *)
THEOREM ReplaysAreCurrent == Spec => []ExecuteReplayIsCurrent
<1>1. Init => ExecuteReplayIsCurrent
  BY DEF Init, StoreInit, ExecuteReplayIsCurrent
<1>2. TypeOK /\ StatusAgreement /\ ExecuteReplayIsCurrent /\ [Next]_vars => ExecuteReplayIsCurrent'
  BY StoreSteps, ReplaysStay
<1> QED BY <1>1, <1>2, TypeCorrect, StatusesAgree, PTL DEF Spec

-------------------------------------------------------------------------------
(* The record that backs the answer to submission s.                       *)
Backs(rec, s, resource) ==
    rec # None /\ rec.actor = s.principal /\ rec.hash = HashOf(s) /\ rec.resource = resource

(* Only a replay of a matching record, or the commit that writes it, is an *)
(* accepting answer.                                                       *)
LEMMA ReplaysAreBacked ==
    ASSUME NEW s, Replay(s) # None, Replay(s).detail = "ok"
    PROVE  Backs(idem[ScopeOf(s)], s, Replay(s).resource)
<1>1. idem[ScopeOf(s)] # None /\ Matches(idem[ScopeOf(s)], s)
  BY DEF Replay, Refused
<1>2. Replay(s).resource = idem[ScopeOf(s)].resource
  BY <1>1 DEF Replay, Accepted
<1> QED BY <1>1, <1>2 DEF Matches, Backs

LEMMA ReadErrorsRefuse ==
    ASSUME NEW s, ReadError(s) # None
    PROVE  ReadError(s).detail # "ok"
<1>1. StackError(s) # None => StackError(s).detail # "ok"
  BY DEF StackError, Refused
<1>2. DecisionError(s) # None => DecisionError(s).detail # "ok"
  BY DEF DecisionError, Refused
<1>3. ExecuteError(s) # None => ExecuteError(s).detail # "ok"
  BY DEF ExecuteError, Refused
<1> QED BY <1>1, <1>2, <1>3 DEF ReadError, Refused

(* What one step of a handler answers.                                     *)
LEMMA AnswersAreBacked ==
    ASSUME TypeOK, StatusAgreement, [Next]_vars, NEW q \in Slot,
           req'[q].pc = "done", req'[q].reply.detail = "ok"
    PROVE  \/ req'[q] = req[q]
           \/ \E s \in Submission : s = req'[q].sub /\ Backs(idem'[ScopeOf(s)], s, req'[q].reply.resource)
<1> DEFINE Goal == \/ req'[q] = req[q]
                   \/ \E s \in Submission : s = req'[q].sub /\ Backs(idem'[ScopeOf(s)], s, req'[q].reply.resource)
<1>t. req \in [Slot -> [pc : Pc, sub : Submission \cup {None}, reply : Reply \cup {None}]]
  BY DEF TypeOK, RequestTypeOK
<1>1. ASSUME NEW z \in Slot, Begin(z) PROVE Goal
  <2>1. PICK s \in Submission : req' = [req EXCEPT ![z] =
             IF ~Authorized(s)
             THEN [pc |-> "done", sub |-> s, reply |-> Refused(403, "insufficient_role")]
             ELSE IF Replay(s) # None
             THEN [pc |-> "done", sub |-> s, reply |-> Replay(s)]
             ELSE [pc |-> "read", sub |-> s, reply |-> None]]
    BY <1>1 DEF Begin
  <2>2. CASE q # z
    BY <1>t, <2>1, <2>2
  <2>3. CASE q = z
    <3>1. /\ Replay(s) # None /\ req'[q].reply = Replay(s) /\ req'[q].sub = s
      BY <1>t, <2>1, <2>3 DEF Refused
    <3>2. Backs(idem[ScopeOf(s)], s, Replay(s).resource)
      BY <3>1, ReplaysAreBacked
    <3>3. idem' = idem
      BY <1>1 DEF Begin, storeVars
    <3>4. /\ idem'[ScopeOf(s)] # None /\ idem'[ScopeOf(s)].actor = s.principal
          /\ idem'[ScopeOf(s)].hash = HashOf(s)
          /\ idem'[ScopeOf(s)].resource = req'[q].reply.resource
      BY <3>1, <3>2, <3>3 DEF Backs
    <3> QED BY <3>1, <3>4 DEF Backs
  <2> QED BY <2>2, <2>3
<1>2. ASSUME NEW z \in Slot, NEW reply, Answer(z, reply), req[z].sub \in Submission,
             \/ reply.detail # "ok"
             \/ UNCHANGED idem /\ reply # None /\ reply = Replay(req[z].sub)
             \/ \E code \in Code, r \in Run : Recorded(z, code, r) /\ reply = Accepted(code, r)
      PROVE  Goal
  <2>1. CASE q # z
    BY <1>t, <1>2, <2>1 DEF Answer
  <2>2. CASE q = z
    <3>1. PICK s \in Submission : s = req[z].sub
      BY <1>2
    <3>2. req'[q].reply = reply /\ req'[q].sub = s
      BY <1>t, <1>2, <2>2, <3>1 DEF Answer
    <3>3. CASE UNCHANGED idem /\ reply # None /\ reply = Replay(req[z].sub)
      <4>1. Backs(idem[ScopeOf(s)], s, reply.resource)
        BY <3>1, <3>2, <3>3, ReplaysAreBacked
      <4>2. /\ idem'[ScopeOf(s)] # None /\ idem'[ScopeOf(s)].actor = s.principal
            /\ idem'[ScopeOf(s)].hash = HashOf(s)
            /\ idem'[ScopeOf(s)].resource = req'[q].reply.resource
        BY <3>2, <3>3, <4>1 DEF Backs
      <4> QED BY <3>2, <4>2 DEF Backs
    <3>4. ASSUME NEW code \in Code, NEW r \in Run, Recorded(z, code, r),
                 reply = Accepted(code, r)
          PROVE  Goal
      <4>1. NewRecord(ScopeOf(s), RecordOf(s, code, r))
        BY <3>1, <3>4, RecordedAdds
      <4>2. reply.resource = r
        BY <3>4 DEF Accepted
      <4>3. /\ idem'[ScopeOf(s)] # None /\ idem'[ScopeOf(s)].actor = s.principal
            /\ idem'[ScopeOf(s)].hash = HashOf(s)
            /\ idem'[ScopeOf(s)].resource = req'[q].reply.resource
        BY <3>2, <4>1, <4>2, RecordFields DEF NewRecord
      <4> QED BY <3>2, <4>3 DEF Backs
    <3> QED BY <1>2, <3>2, <3>3, <3>4
  <2> QED BY <2>1, <2>2
<1>s. ASSUME NEW z \in Slot, req[z].pc # "idle" PROVE req[z].sub \in Submission
  BY <1>s DEF TypeOK, RequestTypeOK
<1>3. ASSUME NEW z \in Slot, NEW pc \in {"existing", "commit"}, Goto(z, pc) PROVE Goal
  BY <1>t, <1>3 DEF Goto
<1>4. ASSUME NEW z \in Slot, Read(z) \/ ReadExisting(z) PROVE Goal
  <2>1. req[z].sub \in Submission
    BY <1>4, <1>s DEF Read, ReadExisting
  <2>2. CASE Read(z)
    <3>1. \/ Goto(z, "existing") \/ Goto(z, "commit")
          \/ ReadError(req[z].sub) # None /\ Answer(z, ReadError(req[z].sub))
      BY <2>2 DEF Read
    <3>2. ASSUME ReadError(req[z].sub) # None, Answer(z, ReadError(req[z].sub)) PROVE Goal
      <4>1. PICK reply : reply = ReadError(req[z].sub)
        OBVIOUS
      <4>2. reply.detail # "ok"
        BY <3>2, <4>1, ReadErrorsRefuse
      <4> QED BY <1>2, <2>1, <3>2, <4>1, <4>2
    <3> QED BY <1>3, <3>1, <3>2
  <2>3. CASE ReadExisting(z)
    <3>1. \/ Answer(z, Refused(409, "execution_already_claimed")) \/ Goto(z, "commit")
      BY <2>3 DEF ReadExisting
    <3>2. Refused(409, "execution_already_claimed").detail # "ok"
      BY DEF Refused
    <3> QED BY <1>2, <1>3, <2>1, <3>1, <3>2
  <2> QED BY <1>4, <2>2, <2>3
<1>5. ASSUME NEW z \in Slot, UNCHANGED workerVars,
             \/ CommitDryRun(z) \/ CommitFromMail(z)
             \/ CommitApprove(z) \/ CommitReject(z) \/ CommitExecute(z)
      PROVE  Goal
  <2>1. PICK r \in Run : Creates(z, r) \/ Approves(z, r) \/ Rejects(z, r) \/ Requests(z, r)
    BY <1>5, HandlerForms
  <2>2. PICK code \in Code : Recorded(z, code, r)
    BY <2>1 DEF Creates, Approves, Rejects, Requests, Code
  <2>3. Answer(z, Accepted(code, r)) /\ req[z].sub \in Submission
    BY <2>2 DEF Recorded
  <2> QED BY <1>2, <2>2, <2>3
<1>6. ASSUME NEW z \in Slot, CreationConflict(z) \/ TransitionConflict(z) PROVE Goal
  <2>1. req[z].sub \in Submission /\ UNCHANGED idem
    BY <1>6, <1>s DEF CreationConflict, TransitionConflict, storeVars
  <2>2. PICK reply : reply = Replay(req[z].sub)
    OBVIOUS
  <2>3. CASE reply # None
    <3>1. Answer(z, reply)
      BY <1>6, <2>2, <2>3 DEF CreationConflict, TransitionConflict, ReplayOr
    <3> QED BY <1>2, <2>1, <2>2, <2>3, <3>1
  <2>4. CASE reply = None
    <3>1. \/ Answer(z, Refused(409, "order_source_already_claimed"))
          \/ Answer(z, Refused(409, "invalid_state"))
      BY <1>6, <2>2, <2>4 DEF CreationConflict, TransitionConflict, ReplayOr
    <3>2. /\ Refused(409, "order_source_already_claimed").detail # "ok"
          /\ Refused(409, "invalid_state").detail # "ok"
      BY DEF Refused
    <3> QED BY <1>2, <2>1, <3>1, <3>2
  <2> QED BY <2>3, <2>4
<1>7. ASSUME NEW z \in Slot, Respond(z) \/ Abort(z) PROVE Goal
  BY <1>t, <1>7 DEF Respond, Abort, Idle
<1>8. CASE UNCHANGED req
  BY <1>8
<1>9. CASE RequestNext /\ UNCHANGED workerVars
  <2>1. PICK z \in Slot : Begin(z) \/ Handle(z) \/ Respond(z) \/ Abort(z)
    BY <1>9 DEF RequestNext
  <2> QED BY <1>1, <1>4, <1>5, <1>6, <1>7, <1>9, <2>1 DEF Handle
<1> QED BY <1>8, <1>9 DEF Next, vars

LEMMA AnswersStay ==
    ASSUME TypeOK, StatusAgreement, AcceptedIsRecorded, [Next]_vars
    PROVE  AcceptedIsRecorded'
<1> SUFFICES ASSUME NEW q \in Slot, req'[q].pc = "done", req'[q].reply.detail = "ok"
             PROVE  \E s : s = req'[q].sub /\ Backs(idem'[ScopeOf(s)], s, req'[q].reply.resource)
  BY DEF AcceptedIsRecorded, Backs
<1>1. CASE req'[q] = req[q]
  <2>1. PICK s \in Submission : s = req[q].sub
    BY <1>1 DEF TypeOK, RequestTypeOK
  <2>2. /\ idem[ScopeOf(s)] # None /\ idem[ScopeOf(s)].actor = s.principal
        /\ idem[ScopeOf(s)].hash = HashOf(s)
        /\ idem[ScopeOf(s)].resource = req[q].reply.resource
    BY <1>1, <2>1 DEF AcceptedIsRecorded
  <2>3. ScopeOf(s) \in Scope /\ RecordStep
    BY ScopeType, StoreSteps, RecordSteps
  <2>4. /\ idem'[ScopeOf(s)] # None /\ idem'[ScopeOf(s)].actor = s.principal
        /\ idem'[ScopeOf(s)].hash = HashOf(s)
        /\ idem'[ScopeOf(s)].resource = req'[q].reply.resource
    BY <1>1, <2>2, <2>3, RecordsPersist
  <2> QED BY <1>1, <2>1, <2>4 DEF Backs
<1>2. CASE req'[q] # req[q]
  BY <1>2, AnswersAreBacked
<1> QED BY <1>1, <1>2

(* An accepting answer is always backed by the record of that very request.*)
THEOREM AnswersAreRecorded == Spec => []AcceptedIsRecorded
<1>1. Init => AcceptedIsRecorded
  BY DEF Init, RequestInit, Idle, AcceptedIsRecorded
<1>2. TypeOK /\ StatusAgreement /\ AcceptedIsRecorded /\ [Next]_vars => AcceptedIsRecorded'
  BY AnswersStay
<1> QED BY <1>1, <1>2, TypeCorrect, StatusesAgree, PTL DEF Spec

-------------------------------------------------------------------------------
(* A run nobody decided on names nobody, one that is not there no tenant;  *)
(* the row of a run that is there keeps its tenant.                        *)
Undecided ==
    \A r \in Run :
       /\ run[r].status \in {"absent", "proposed"} =>
             run[r].approver = None /\ run[r].rejecter = None
       /\ run[r].status = "absent" => run[r].tenant = None

LEMMA UndecidedStays ==
    ASSUME TypeOK, Undecided, StoreStep
    PROVE  Undecided'
<1> SUFFICES ASSUME NEW r \in Run
             PROVE  /\ run'[r].status \in {"absent", "proposed"} =>
                          run'[r].approver = None /\ run'[r].rejecter = None
                    /\ run'[r].status = "absent" => run'[r].tenant = None
  BY DEF Undecided
<1>1. CASE run'[r] = run[r]
  BY <1>1 DEF Undecided
<1>2. ASSUME NEW q \in Slot, NEW z \in Run, Creates(q, z), run'[r] # run[r]
      PROVE  run'[r].status = "proposed" /\ run'[r].approver = None /\ run'[r].rejecter = None
  BY <1>2 DEF Creates, Moves
<1>3. ASSUME NEW q \in Slot, NEW z \in Run, Approves(q, z) \/ Rejects(q, z) \/ Requests(q, z),
             run'[r] # run[r]
      PROVE  run'[r].status \in {"approved", "rejected", "execution_pending"}
  BY <1>3 DEF Approves, Rejects, Requests, Moves
<1>4. ASSUME NEW w \in Worker, NEW z \in Run, NEW status \in Terminal, Settles(w, z, status),
             run'[r] # run[r]
      PROVE  run'[r].status \in Terminal
  BY <1>4 DEF Settles, Moves
<1>5. Quiet \/ (\E w \in Worker, z \in Run : Retrying(w, z) \/ Claiming(w, z)) => run' = run
  BY DEF Quiet, Retrying, Claiming
<1> QED BY <1>1, <1>2, <1>3, <1>4, <1>5 DEF StoreStep, Terminal

(* One record, or none, for an effect that happened or did not.            *)
RecordsTell(r) ==
    /\ IF run[r].status = "absent" THEN RecordsOf(r, Creation) = {}
       ELSE \E k \in Scope : RecordsOf(r, Creation) = {k}
    /\ IF run[r].approver = None THEN RecordsOf(r, {"run.approve"}) = {}
       ELSE \E k \in Scope : RecordsOf(r, {"run.approve"}) = {k}
    /\ IF run[r].rejecter = None THEN RecordsOf(r, {"run.reject"}) = {}
       ELSE \E k \in Scope : RecordsOf(r, {"run.reject"}) = {k}
    /\ IF op[r] = "none" THEN RecordsOf(r, {"run.execute"}) = {}
       ELSE \E k \in Scope : RecordsOf(r, {"run.execute"}) = {k}

(* A new record is one more record of its run and operation.               *)
LEMMA RecordsAdded ==
    ASSUME NEW k, NEW rec, NewRecord(k, rec), NEW r, NEW operations
    PROVE  RecordsOf(r, operations)' =
              IF rec.resource = r /\ k[2] \in operations
              THEN RecordsOf(r, operations) \cup {k} ELSE RecordsOf(r, operations)
<1>1. \A j \in Scope \ {k} : j \in RecordsOf(r, operations)' <=> j \in RecordsOf(r, operations)
  BY DEF NewRecord, RecordsOf
<1>2. k \notin RecordsOf(r, operations)
  BY DEF NewRecord, RecordsOf
<1>3. k \in RecordsOf(r, operations)' <=> rec.resource = r /\ k[2] \in operations
  BY DEF NewRecord, RecordsOf
<1>4. RecordsOf(r, operations) \subseteq Scope /\ RecordsOf(r, operations)' \subseteq Scope
  BY DEF RecordsOf
<1> QED BY <1>1, <1>2, <1>3, <1>4

(* A run whose effects and records stay the same.                          *)
LEMMA RecordsKept ==
    ASSUME NEW r \in Run, RecordsTell(r),
           \A operations : RecordsOf(r, operations)' = RecordsOf(r, operations),
           run'[r].status = "absent" <=> run[r].status = "absent",
           run'[r].approver = run[r].approver, run'[r].rejecter = run[r].rejecter,
           op'[r] = "none" <=> op[r] = "none"
    PROVE  RecordsTell(r)'
BY DEF RecordsTell

LEMMA RecordsStay ==
    ASSUME TypeOK, StatusAgreement, Undecided, StoreStep, \A r \in Run : RecordsTell(r)
    PROVE  \A r \in Run : RecordsTell(r)'
<1> TAKE r \in Run
<1>a. RecordsTell(r)
  OBVIOUS
<1>1. ASSUME NEW q \in Slot, NEW z \in Run, NEW from, NEW to, NEW type, NEW code \in Code,
             Recorded(q, code, z), Moves(z, from, to, type), r # z
      PROVE  RecordsTell(r)'
  <2>1. PICK s \in Submission : NewRecord(ScopeOf(s), RecordOf(s, code, z))
    BY <1>1, RecordedAdds
  <2>2. \A operations : RecordsOf(r, operations)' = RecordsOf(r, operations)
    BY <1>1, <2>1, RecordsAdded, RecordFields
  <2>3. run'[r] = run[r] /\ op'[r] = op[r]
    BY <1>1 DEF Moves
  <2> QED BY <1>a, <2>2, <2>3, RecordsKept
<1>2. ASSUME NEW q \in Slot, NEW code \in Code, Recorded(q, code, r)
      PROVE  \E k \in Scope :
                \A operations : RecordsOf(r, operations)' =
                   IF req[q].sub.op \in operations THEN RecordsOf(r, operations) \cup {k}
                   ELSE RecordsOf(r, operations)
  <2>1. PICK s \in Submission : /\ s = req[q].sub
                                /\ NewRecord(ScopeOf(s), RecordOf(s, code, r))
                                /\ ScopeOf(s)[2] = s.op
    BY <1>2, RecordedAdds
  <2>2. \A operations : RecordsOf(r, operations)' =
           IF s.op \in operations THEN RecordsOf(r, operations) \cup {ScopeOf(s)}
           ELSE RecordsOf(r, operations)
    BY <2>1, RecordsAdded, RecordFields
  <2> QED BY <2>1, <2>2, ScopeType
<1>3. ASSUME NEW q \in Slot, Creates(q, r) PROVE RecordsTell(r)'
  <2>1. PICK k \in Scope : \A operations : RecordsOf(r, operations)' =
                   IF req[q].sub.op \in operations THEN RecordsOf(r, operations) \cup {k}
                   ELSE RecordsOf(r, operations)
    BY <1>2, <1>3 DEF Creates, Code
  <2>2. /\ run[r].status = "absent" /\ run'[r].status # "absent"
        /\ run'[r].approver = None /\ run'[r].rejecter = None
        /\ run[r].approver = None /\ run[r].rejecter = None
        /\ req[q].sub.op \in Creation /\ op'[r] = op[r]
    BY <1>3 DEF Creates, Moves, Undecided, SameOperation, Creation
  <2>3. /\ RecordsOf(r, Creation)' = {k}
        /\ RecordsOf(r, {"run.approve"})' = {} /\ RecordsOf(r, {"run.reject"})' = {}
        /\ RecordsOf(r, {"run.execute"})' = RecordsOf(r, {"run.execute"})
    BY <1>a, <2>1, <2>2 DEF RecordsTell, Creation
  <2> QED BY <1>a, <2>2, <2>3 DEF RecordsTell
<1>4. ASSUME NEW q \in Slot, Approves(q, r) PROVE RecordsTell(r)'
  <2>1. PICK k \in Scope : \A operations : RecordsOf(r, operations)' =
                   IF req[q].sub.op \in operations THEN RecordsOf(r, operations) \cup {k}
                   ELSE RecordsOf(r, operations)
    BY <1>2, <1>4 DEF Approves, Code
  <2>2. /\ run[r].status # "absent" /\ run'[r].status # "absent"
        /\ run[r].approver = None /\ run'[r].approver = req[q].sub.principal
        /\ run'[r].rejecter = run[r].rejecter
        /\ req[q].sub.op = "run.approve" /\ op'[r] = op[r]
    BY <1>4 DEF Approves, Moves, Undecided, SameOperation
  <2>3. run'[r].approver # None
    <3>1. req[q].sub.principal \in Principal
      BY <1>4, SubmissionAssumption DEF Approves, Recorded
    <3> QED BY <2>2, <3>1, NoneAssumption
  <2>4. /\ RecordsOf(r, {"run.approve"})' = {k}
        /\ RecordsOf(r, Creation)' = RecordsOf(r, Creation)
        /\ RecordsOf(r, {"run.reject"})' = RecordsOf(r, {"run.reject"})
        /\ RecordsOf(r, {"run.execute"})' = RecordsOf(r, {"run.execute"})
    BY <1>a, <2>1, <2>2 DEF RecordsTell, Creation
  <2> QED BY <1>a, <2>2, <2>3, <2>4 DEF RecordsTell
<1>5. ASSUME NEW q \in Slot, Rejects(q, r) PROVE RecordsTell(r)'
  <2>1. PICK k \in Scope : \A operations : RecordsOf(r, operations)' =
                   IF req[q].sub.op \in operations THEN RecordsOf(r, operations) \cup {k}
                   ELSE RecordsOf(r, operations)
    BY <1>2, <1>5 DEF Rejects, Code
  <2>2. /\ run[r].status # "absent" /\ run'[r].status # "absent"
        /\ run[r].rejecter = None /\ run'[r].rejecter = req[q].sub.principal
        /\ run'[r].approver = run[r].approver
        /\ req[q].sub.op = "run.reject" /\ op'[r] = op[r]
    BY <1>5 DEF Rejects, Moves, Undecided, SameOperation
  <2>3. run'[r].rejecter # None
    <3>1. req[q].sub.principal \in Principal
      BY <1>5, SubmissionAssumption DEF Rejects, Recorded
    <3> QED BY <2>2, <3>1, NoneAssumption
  <2>4. /\ RecordsOf(r, {"run.reject"})' = {k}
        /\ RecordsOf(r, Creation)' = RecordsOf(r, Creation)
        /\ RecordsOf(r, {"run.approve"})' = RecordsOf(r, {"run.approve"})
        /\ RecordsOf(r, {"run.execute"})' = RecordsOf(r, {"run.execute"})
    BY <1>a, <2>1, <2>2 DEF RecordsTell, Creation
  <2> QED BY <1>a, <2>2, <2>3, <2>4 DEF RecordsTell
<1>6. ASSUME NEW q \in Slot, Requests(q, r) PROVE RecordsTell(r)'
  <2>1. PICK k \in Scope : \A operations : RecordsOf(r, operations)' =
                   IF req[q].sub.op \in operations THEN RecordsOf(r, operations) \cup {k}
                   ELSE RecordsOf(r, operations)
    BY <1>2, <1>6 DEF Requests, Code
  <2>2. /\ run[r].status # "absent" /\ run'[r].status # "absent"
        /\ run'[r].approver = run[r].approver /\ run'[r].rejecter = run[r].rejecter
        /\ req[q].sub.op = "run.execute" /\ op'[r] # "none"
    BY <1>6 DEF Requests, Moves, SameDecision
  <2>3. op[r] = "none"
    <3>1. run[r].status = "approved"
      BY <1>6 DEF Requests, Moves
    <3> QED BY <3>1 DEF StatusAgreement, Dormant
  <2>4. /\ RecordsOf(r, {"run.execute"})' = {k}
        /\ RecordsOf(r, Creation)' = RecordsOf(r, Creation)
        /\ RecordsOf(r, {"run.approve"})' = RecordsOf(r, {"run.approve"})
        /\ RecordsOf(r, {"run.reject"})' = RecordsOf(r, {"run.reject"})
    BY <1>a, <2>1, <2>2, <2>3 DEF RecordsTell, Creation
  <2> QED BY <1>a, <2>2, <2>4 DEF RecordsTell
<1>7. ASSUME NEW w \in Worker, NEW z \in Run, NEW status \in Terminal, Settles(w, z, status)
      PROVE  RecordsTell(r)'
  <2>1. PICK code \in Code : UpdateReplay(z, code)
    BY <1>7 DEF Settles, Code
  <2>2. ASSUME NEW k \in Scope
        PROVE  /\ idem'[k] = None <=> idem[k] = None
               /\ idem[k] # None => idem'[k].resource = idem[k].resource
    BY <2>1, UpdatedReplay
  <2>3. ASSUME NEW operations PROVE RecordsOf(r, operations)' = RecordsOf(r, operations)
    BY <2>2 DEF RecordsOf
  <2>4. CASE r = z
    <3>1. /\ run[r].status # "absent" /\ run'[r].status # "absent" /\ SameDecision(r)
          /\ op[r] # "none" /\ op'[r] # "none"
      BY <1>7, <2>4 DEF Settles, Owner, Moves, Terminal
    <3> QED BY <1>a, <2>3, <3>1, RecordsKept DEF SameDecision
  <2>5. CASE r # z
    <3>1. run'[r] = run[r] /\ op'[r] = op[r]
      BY <1>7, <2>5 DEF Settles, Moves
    <3> QED BY <1>a, <2>3, <3>1, RecordsKept
  <2> QED BY <2>4, <2>5
<1>8. ASSUME UNCHANGED <<run, idem>>, op'[r] = "none" <=> op[r] = "none" PROVE RecordsTell(r)'
  BY <1>a, <1>8 DEF RecordsTell, RecordsOf
<1>9. ASSUME NEW w \in Worker, NEW z \in Run, Retrying(w, z) \/ Claiming(w, z)
      PROVE  RecordsTell(r)'
  <2>1. UNCHANGED <<run, idem>>
    BY <1>9 DEF Retrying, Claiming
  <2>2. op'[r] = "none" <=> op[r] = "none"
    BY <1>9 DEF Retrying, Claiming, Owner, Moves
  <2> QED BY <1>8, <2>1, <2>2
<1>10. CASE Quiet
  BY <1>8, <1>10 DEF Quiet
<1>11. ASSUME NEW q \in Slot, NEW z \in Run,
              Creates(q, z) \/ Approves(q, z) \/ Rejects(q, z) \/ Requests(q, z)
       PROVE  RecordsTell(r)'
  <2>1. CASE r # z
    BY <1>1, <1>11, <2>1 DEF Creates, Approves, Rejects, Requests, Code
  <2> QED BY <1>3, <1>4, <1>5, <1>6, <1>11, <2>1
<1> QED BY <1>7, <1>9, <1>10, <1>11 DEF StoreStep

LEMMA UndecidedAlways == Spec => [](TypeOK /\ StatusAgreement /\ Undecided)
<1>1. Init => Undecided
  BY DEF Init, StoreInit, NoRun, Undecided
<1>2. TypeOK /\ StatusAgreement /\ Undecided /\ [Next]_vars => Undecided'
  BY StoreSteps, UndecidedStays
<1> QED BY <1>1, <1>2, TypeCorrect, StatusesAgree, PTL DEF Spec

(* A run is created, approved, rejected and sent to execution under one    *)
(* recorded request each.                                                  *)
THEOREM OneRequestPerEffect == Spec => []OneRecordPerEffect
<1> DEFINE Told == \A r \in Run : RecordsTell(r)
<1>1. Init => Told
  BY DEF Init, StoreInit, NoRun, RecordsTell, RecordsOf
<1>2. TypeOK /\ StatusAgreement /\ Undecided /\ Told /\ [Next]_vars => Told'
  BY StoreSteps, RecordsStay
<1>3. Told => OneRecordPerEffect
  <2>1. Cardinality({}) = 0 /\ \A k : Cardinality({k}) = 1
    BY FS_EmptySet, FS_Singleton
  <2> QED BY <2>1 DEF RecordsTell, OneRecordPerEffect
<1> QED BY <1>1, <1>2, <1>3, UndecidedAlways, PTL DEF Spec

-------------------------------------------------------------------------------
(* A step changes claims only with the record of the preparation that      *)
(* takes the source.                                                       *)
LEMMA SourcesStay ==
    ASSUME TypeOK, Undecided, OneRunPerSource, StoreStep
    PROVE  OneRunPerSource'
<1>t. /\ idem \in [Scope -> IdemRecord \cup {None}]
      /\ claims \in [Tenant \X Source -> Run \cup {None}]
  BY DEF TypeOK, StoreTypeOK
<1>n. None \notin Run /\ None \notin Tenant
  BY NoneAssumption
<1>i. ASSUME NEW k \in Scope, idem[k] # None
      PROVE  idem[k].resource \in Run
  BY <1>t, <1>i DEF IdemRecord
<1>1. ASSUME NEW k \in Scope, k[2] = "run.from_mail", idem'[k] # None,
             \A q \in Slot, z \in Run : ~Creates(q, z)
      PROVE  idem[k] # None /\ idem'[k].hash = idem[k].hash /\ idem'[k].resource = idem[k].resource
  <2>1. ASSUME NEW q \in Slot, NEW z \in Run, Approves(q, z) \/ Rejects(q, z) \/ Requests(q, z)
        PROVE  idem'[k] = idem[k]
    <3>1. PICK code \in Code : Recorded(q, code, z)
      BY <2>1 DEF Approves, Rejects, Requests, Code
    <3>2. PICK s \in Submission : /\ s = req[q].sub
                                  /\ NewRecord(ScopeOf(s), RecordOf(s, code, z))
                                  /\ ScopeOf(s)[2] = s.op
      BY <3>1, RecordedAdds
    <3>3. s.op # "run.from_mail"
      BY <2>1, <3>2 DEF Approves, Rejects, Requests
    <3> QED BY <1>1, <3>2, <3>3 DEF NewRecord
  <2>2. ASSUME NEW w \in Worker, NEW z \in Run, NEW status \in Terminal, Settles(w, z, status)
        PROVE  idem'[k] = idem[k]
    <3>1. PICK code \in Code : UpdateReplay(z, code)
      BY <2>2 DEF Settles, Code
    <3> QED BY <1>1, <3>1, UpdatedReplay
  <2>3. UNCHANGED idem => idem'[k] = idem[k]
    OBVIOUS
  <2> QED BY <1>1, <2>1, <2>2, <2>3 DEF StoreStep, Retrying, Claiming, Quiet
<1>2. CASE \A q \in Slot, z \in Run : ~Creates(q, z)
  <2>1. UNCHANGED claims
    BY <1>2 DEF StoreStep, Approves, Rejects, Requests, Settles, Retrying, Owner, Claiming, Quiet
  <2>2. ASSUME NEW r \in Run PROVE run'[r].tenant = run[r].tenant
    <3>1. ASSUME NEW q \in Slot, NEW z \in Run, Approves(q, z) \/ Rejects(q, z) \/ Requests(q, z)
          PROVE  run'[r].tenant = run[r].tenant
      BY <3>1 DEF Approves, Rejects, Requests, Moves, SameDecision
    <3>2. ASSUME NEW w \in Worker, NEW z \in Run, NEW status \in Terminal, Settles(w, z, status)
          PROVE  run'[r].tenant = run[r].tenant
      BY <3>2 DEF Settles, Moves, SameDecision
    <3> QED BY <1>2, <3>1, <3>2 DEF StoreStep, Retrying, Claiming, Quiet
  <2>3. ASSUME NEW k \in Scope, k[2] = "run.from_mail", idem'[k] # None
        PROVE  claims'[<<k[1], idem'[k].hash.source>>] = idem'[k].resource
    BY <1>1, <1>2, <2>1, <2>3 DEF OneRunPerSource
  <2>4. ASSUME NEW c \in Tenant \X Source, claims'[c] # None
        PROVE  run'[claims'[c]].tenant = c[1]
    BY <1>t, <2>1, <2>2, <2>4 DEF OneRunPerSource
  <2>5. \A c, d \in Tenant \X Source : claims'[c] # None /\ claims'[c] = claims'[d] => c = d
    BY <2>1 DEF OneRunPerSource
  <2> QED BY <2>3, <2>4, <2>5 DEF OneRunPerSource
<1>3. ASSUME NEW q \in Slot, NEW z \in Run, Creates(q, z) PROVE OneRunPerSource'
  <2>1. PICK s \in Submission : /\ s = req[q].sub
                                /\ NewRecord(ScopeOf(s), RecordOf(s, 201, z))
                                /\ ScopeOf(s)[1] = TenantOfRequest(s) /\ ScopeOf(s)[2] = s.op
    BY <1>3, RecordedAdds DEF Creates, Code
  <2>2. /\ run[z].status = "absent" /\ run[z].tenant = None
        /\ run'[z].tenant = TenantOfRequest(s) /\ \A r \in Run \ {z} : run'[r] = run[r]
    BY <1>3, <2>1 DEF Creates, Moves, Undecided
  <2>3. \A c \in Tenant \X Source : claims[c] # z
    <3>1. ASSUME NEW c \in Tenant \X Source, claims[c] = z PROVE FALSE
      <4>1. run[z].tenant = c[1] /\ c[1] \in Tenant
        BY <1>n, <3>1 DEF OneRunPerSource
      <4> QED BY <1>n, <2>2, <4>1
    <3> QED BY <3>1
  <2>4. ASSUME NEW k \in Scope, k # ScopeOf(s) PROVE idem'[k] = idem[k]
    BY <2>1, <2>4 DEF NewRecord
  <2>5. CASE s.op = "run.dry_run" /\ UNCHANGED claims
    <3>1. ASSUME NEW k \in Scope, k[2] = "run.from_mail", idem'[k] # None
          PROVE  claims'[<<k[1], idem'[k].hash.source>>] = idem'[k].resource
      <4>1. idem'[k] = idem[k]
        BY <2>1, <2>4, <2>5, <3>1
      <4> QED BY <2>5, <3>1, <4>1 DEF OneRunPerSource
    <3>2. ASSUME NEW c \in Tenant \X Source, claims'[c] # None
          PROVE  run'[claims'[c]].tenant = c[1]
      BY <1>t, <2>2, <2>3, <2>5, <3>2 DEF OneRunPerSource
    <3>3. \A c, d \in Tenant \X Source : claims'[c] # None /\ claims'[c] = claims'[d] => c = d
      BY <2>5 DEF OneRunPerSource
    <3> QED BY <3>1, <3>2, <3>3 DEF OneRunPerSource
  <2>6. CASE /\ s.op = "run.from_mail" /\ SourceFree(s)
             /\ claims' = [claims EXCEPT ![ClaimOf(s)] = z]
    <3> DEFINE c0 == ClaimOf(s)
    <3>1. c0 \in Tenant \X Source /\ c0[1] = TenantOfRequest(s) /\ c0 = <<TenantOfRequest(s), s.source>>
      BY <2>6, ScopeType, TargetAssumption DEF ClaimOf
    <3>2. claims[c0] = None /\ claims'[c0] = z
      BY <1>t, <2>6, <3>1 DEF SourceFree
    <3>3. \A c \in Tenant \X Source : c # c0 => claims'[c] = claims[c]
      BY <1>t, <2>6
    <3>4. ASSUME NEW k \in Scope, k[2] = "run.from_mail", idem'[k] # None
          PROVE  claims'[<<k[1], idem'[k].hash.source>>] = idem'[k].resource
      <4>1. CASE k = ScopeOf(s)
        <5>1. idem'[k].hash = HashOf(s) /\ idem'[k].resource = z /\ k[1] = TenantOfRequest(s)
          BY <2>1, <4>1, RecordFields DEF NewRecord
        <5>2. HashOf(s).source = s.source
          BY DEF HashOf
        <5> QED BY <3>1, <3>2, <5>1, <5>2
      <4>2. CASE k # ScopeOf(s)
        <5> DEFINE c == <<k[1], idem[k].hash.source>>
        <5>1. idem'[k] = idem[k] /\ idem[k] # None
          BY <2>4, <3>4, <4>2
        <5>2. claims[c] = idem[k].resource /\ claims[c] # None
          BY <1>i, <1>n, <3>4, <5>1 DEF OneRunPerSource
        <5> HIDE DEF c
        <5>3. c # c0
          BY <3>2, <5>2
        <5>4. claims'[c] = claims[c]
          BY <1>t, <2>6, <5>3
        <5> QED BY <5>1, <5>2, <5>4 DEF c
      <4> QED BY <4>1, <4>2
    <3>5. ASSUME NEW c \in Tenant \X Source, claims'[c] # None
          PROVE  run'[claims'[c]].tenant = c[1]
      <4>1. CASE c = c0
        BY <2>2, <3>1, <3>2, <4>1
      <4>2. CASE c # c0
        <5>1. claims'[c] = claims[c] /\ claims[c] \in Run \ {z}
          BY <1>t, <2>3, <3>3, <3>5, <4>2
        <5>2. run[claims[c]].tenant = c[1]
          BY <1>n, <5>1 DEF OneRunPerSource
        <5> QED BY <2>2, <5>1, <5>2
      <4> QED BY <4>1, <4>2
    <3>6. ASSUME NEW c \in Tenant \X Source, NEW d \in Tenant \X Source,
                 claims'[c] # None, claims'[c] = claims'[d]
          PROVE  c = d
      <4>1. CASE c # c0 /\ d # c0
        BY <3>3, <3>6, <4>1 DEF OneRunPerSource
      <4>2. CASE (c = c0) # (d = c0)
        BY <2>3, <3>2, <3>3, <3>6, <4>2
      <4> QED BY <4>1, <4>2
    <3> QED BY <3>4, <3>5, <3>6 DEF OneRunPerSource
  <2> QED BY <1>3, <2>1, <2>5, <2>6 DEF Creates
<1> QED BY <1>2, <1>3

(* However clients repeat and race, a source message prepares one run.     *)
THEOREM SourcesPrepareOneRun == Spec => []OneRunPerSource
<1>1. Init => OneRunPerSource
  BY DEF Init, StoreInit, OneRunPerSource
<1>2. TypeOK /\ StatusAgreement /\ Undecided /\ OneRunPerSource /\ [Next]_vars => OneRunPerSource'
  BY StoreSteps, SourcesStay
<1> QED BY <1>1, <1>2, UndecidedAlways, PTL DEF Spec

-------------------------------------------------------------------------------
(* The inductive form of BlockedOrdersStayBlocked: the run prepared from   *)
(* such an order is not eligible either, which is what stops an approval.  *)
BlockedRuns ==
    \A k \in Scope :
        k[2] = "run.from_mail" /\ idem[k] # None /\ idem[k].hash.body = "mismatched" =>
            /\ run[idem[k].resource].status \in {"proposed", "rejected"}
            /\ ~run[idem[k].resource].eligible

LEMMA BlockedStay ==
    ASSUME TypeOK, BlockedRuns, StoreStep
    PROVE  BlockedRuns'
<1>t. idem \in [Scope -> IdemRecord \cup {None}] /\ run \in [Run -> RunRow]
  BY DEF TypeOK, StoreTypeOK
<1> SUFFICES ASSUME NEW k \in Scope, k[2] = "run.from_mail", idem'[k] # None,
                    idem'[k].hash.body = "mismatched"
             PROVE  /\ run'[idem'[k].resource].status \in {"proposed", "rejected"}
                    /\ ~run'[idem'[k].resource].eligible
  BY DEF BlockedRuns
<1> DEFINE Goal == /\ run'[idem'[k].resource].status \in {"proposed", "rejected"}
                   /\ ~run'[idem'[k].resource].eligible
<1>1. ASSUME idem'[k] = idem[k] PROVE Goal
  <2>1. PICK r \in Run : r = idem[k].resource
    BY <1>t, <1>1 DEF IdemRecord
  <2>2. run[r].status \in {"proposed", "rejected"} /\ ~run[r].eligible
    BY <1>1, <2>1 DEF BlockedRuns
  <2>3. ASSUME NEW q \in Slot, NEW z \in Run,
               Creates(q, z) \/ Approves(q, z) \/ Rejects(q, z) \/ Requests(q, z)
        PROVE  \/ run'[r] = run[r]
               \/ run'[r].status = "rejected" /\ run'[r].eligible = run[r].eligible
    BY <2>2, <2>3 DEF Creates, Approves, Rejects, Requests, Moves
  <2>4. ASSUME NEW w \in Worker, NEW z \in Run, NEW status \in Terminal, Settles(w, z, status)
        PROVE  run'[r] = run[r]
    BY <2>2, <2>4 DEF Settles, Moves
  <2>5. \/ run'[r] = run[r]
        \/ run'[r].status = "rejected" /\ run'[r].eligible = run[r].eligible
    BY <2>3, <2>4 DEF StoreStep, Retrying, Claiming, Quiet
  <2> QED BY <1>1, <2>1, <2>2, <2>5
<1>2. ASSUME NEW q \in Slot, NEW z \in Run,
             Creates(q, z) \/ Approves(q, z) \/ Rejects(q, z) \/ Requests(q, z)
      PROVE  Goal
  <2>1. PICK code \in Code : Recorded(q, code, z)
    BY <1>2 DEF Creates, Approves, Rejects, Requests, Code
  <2>2. PICK s \in Submission : /\ s = req[q].sub
                                /\ NewRecord(ScopeOf(s), RecordOf(s, code, z))
                                /\ ScopeOf(s)[2] = s.op
    BY <2>1, RecordedAdds
  <2>3. CASE k # ScopeOf(s)
    BY <1>1, <2>2, <2>3 DEF NewRecord
  <2>4. CASE k = ScopeOf(s)
    <3>1. /\ s.op = "run.from_mail" /\ idem'[k].resource = z /\ idem'[k].hash = HashOf(s)
      BY <2>2, <2>4, RecordFields DEF NewRecord
    <3>2. s.body = "mismatched"
      BY <3>1 DEF HashOf
    <3>3. Creates(q, z)
      BY <1>2, <2>2, <3>1 DEF Approves, Rejects, Requests
    <3>4. run'[z].status = "proposed" /\ run'[z].eligible = FALSE
      BY <2>2, <3>1, <3>2, <3>3 DEF Creates, Moves
    <3> QED BY <3>1, <3>4
  <2> QED BY <2>3, <2>4
<1>3. ASSUME NEW w \in Worker, NEW z \in Run, NEW status \in Terminal, Settles(w, z, status)
      PROVE  Goal
  <2>1. PICK code \in Code : UpdateReplay(z, code)
    BY <1>3 DEF Settles, Code
  <2> QED BY <1>1, <2>1, UpdatedReplay
<1>4. UNCHANGED idem => Goal
  BY <1>1
<1> QED BY <1>2, <1>3, <1>4 DEF StoreStep, Retrying, Claiming, Quiet

(* A run prepared from an order that does not reconcile is never approved. *)
THEOREM MismatchedOrdersStayBlocked == Spec => []BlockedOrdersStayBlocked
<1>1. Init => BlockedRuns
  BY DEF Init, StoreInit, BlockedRuns
<1>2. TypeOK /\ StatusAgreement /\ BlockedRuns /\ [Next]_vars => BlockedRuns'
  BY StoreSteps, BlockedStay
<1>3. BlockedRuns => BlockedOrdersStayBlocked
  BY DEF BlockedRuns, BlockedOrdersStayBlocked
<1> QED BY <1>1, <1>2, <1>3, TypeCorrect, StatusesAgree, PTL DEF Spec

-------------------------------------------------------------------------------
(* The rows of a trail that schedule a retry.                              *)
RetryRows(trail) == {i \in DOMAIN trail : trail[i].type = "execution_retry_scheduled"}

LEMMA RetriesCount ==
    ASSUME NEW trail \in Seq(AuditEvent)
    PROVE  IsFiniteSet(RetryRows(trail)) /\ Cardinality(RetryRows(trail)) \in Nat
<1>1. RetryRows(trail) \subseteq 1..Len(trail)
  BY DEF RetryRows
<1>2. IsFiniteSet(1..Len(trail))
  BY FS_Interval
<1> QED BY <1>1, <1>2, FS_Subset, FS_CardinalityType

LEMMA RetriesAppended ==
    ASSUME NEW trail \in Seq(AuditEvent), NEW e
    PROVE  Cardinality(RetryRows(Append(trail, e))) =
              Cardinality(RetryRows(trail)) + IF e.type = "execution_retry_scheduled" THEN 1 ELSE 0
<1> DEFINE n == Len(trail)
           new == Append(trail, e)
<1>1. /\ n \in Nat /\ DOMAIN trail = 1..n /\ DOMAIN new = 1..(n + 1)
      /\ new[n + 1] = e /\ \A i \in 1..n : new[i] = trail[i]
  OBVIOUS
<1>2. IsFiniteSet(RetryRows(trail)) /\ Cardinality(RetryRows(trail)) \in Nat
  BY RetriesCount
<1> HIDE DEF n, new
<1>3. n + 1 \notin RetryRows(trail)
  BY <1>1 DEF RetryRows
<1>4. CASE e.type = "execution_retry_scheduled"
  <2>1. RetryRows(new) = RetryRows(trail) \cup {n + 1}
    <3>1. \A i \in 1..n : i \in RetryRows(new) <=> i \in RetryRows(trail)
      BY <1>1 DEF RetryRows
    <3>2. n + 1 \in RetryRows(new) /\ RetryRows(new) \subseteq 1..(n + 1)
      BY <1>1, <1>4 DEF RetryRows
    <3>3. RetryRows(trail) \subseteq 1..n
      BY <1>1 DEF RetryRows
    <3> QED BY <1>1, <3>1, <3>2, <3>3
  <2>2. Cardinality(RetryRows(new)) = Cardinality(RetryRows(trail)) + 1
    BY <1>2, <1>3, <2>1, FS_AddElement
  <2> QED BY <1>4, <2>2 DEF new
<1>5. CASE e.type # "execution_retry_scheduled"
  <2>1. RetryRows(new) = RetryRows(trail)
    <3>1. \A i \in 1..n : i \in RetryRows(new) <=> i \in RetryRows(trail)
      BY <1>1 DEF RetryRows
    <3>2. n + 1 \notin RetryRows(new) /\ RetryRows(new) \subseteq 1..(n + 1)
      BY <1>1, <1>5 DEF RetryRows
    <3>3. RetryRows(trail) \subseteq 1..n
      BY <1>1 DEF RetryRows
    <3>4. \A i \in 1..(n + 1) : i = n + 1 \/ i \in 1..n
      BY <1>1
    <3> QED BY <3>1, <3>2, <3>3, <3>4
  <2> QED BY <1>2, <1>5, <2>1 DEF new
<1> QED BY <1>4, <1>5

(* No retry was scheduled for a run that waits for its execute request.    *)
LEMMA ApprovedNeverRetried ==
    ASSUME NEW trail \in Seq(AuditEvent), Tells(trail, "approved")
    PROVE  Cardinality(RetryRows(trail)) = 0
<1>1. Len(trail) # 0 /\ Len(trail) \in Nat
  BY DEF Tells
<1>2. trail[Len(trail)].type = "run_approved"
  BY DEF Tells
<1>3. Len(trail) \in 1..Len(trail)
  BY <1>1
<1>4. Len(trail) = 2
  BY <1>2, <1>3 DEF Tells
<1>5. \A i \in DOMAIN trail : trail[i].type # "execution_retry_scheduled"
  <2>1. DOMAIN trail = {1, 2}
    BY <1>4
  <2>2. \A i \in {1, 2} : /\ trail[i].type = "run_proposed" <=> i = 1
                          /\ trail[i].type \in {"run_approved", "run_rejected"} <=> i = 2
    BY <1>4 DEF Tells
  <2> QED BY <2>1, <2>2
<1>6. RetryRows(trail) = {}
  BY <1>5 DEF RetryRows
<1> QED BY <1>6, FS_EmptySet

-------------------------------------------------------------------------------
(* The inductive form of AttemptsAccountForCalls.  A retry is scheduled by *)
(* the owner of a claim, so a leased event has one claim more than retries.*)
ClaimedOn(r) == {w \in Worker : worker[w].run = r /\ worker[w].pc = "claimed"}
Accounts(r) ==
    /\ IsFiniteSet(ClaimedOn(r))
    /\ calls[r] + Cardinality(ClaimedOn(r)) <= outbox[r].attempts
    /\ Retries(r) + (IF outbox[r].status = "processing" THEN 1 ELSE 0) <= outbox[r].attempts
    /\ Retries(r) < MaxAttempts

(* A step uses up a claim in a call, drops claims, or claims the event.    *)
LEMMA ClaimsUsed ==
    ASSUME TypeOK, [Next]_vars, NEW r \in Run
    PROVE  \/ calls'[r] = calls[r] /\ ClaimedOn(r)' \subseteq ClaimedOn(r)
           \/ \E w \in ClaimedOn(r) : /\ calls'[r] = calls[r] + 1
                                      /\ ClaimedOn(r)' = ClaimedOn(r) \ {w}
           \/ outbox'[r].attempts = outbox[r].attempts + 1
<1> DEFINE Fewer == calls'[r] = calls[r] /\ ClaimedOn(r)' \subseteq ClaimedOn(r)
           Used == \E w \in ClaimedOn(r) : /\ calls'[r] = calls[r] + 1
                                           /\ ClaimedOn(r)' = ClaimedOn(r) \ {w}
<1>t. /\ worker \in [Worker -> [pc : WorkerPc, run : Run \cup {None},
                                outcome : Outcome \cup {None}]]
      /\ calls \in [Run -> Nat] /\ outbox \in [Run -> EventRow]
  BY DEF TypeOK, WorkerTypeOK
<1>u. UNCHANGED workerVars => Fewer
  BY DEF workerVars, ClaimedOn
<1>1. ASSUME NEW w \in Worker, \A v \in Worker \ {w} : worker'[v] = worker[v],
             worker'[w].pc # "claimed" \/ worker'[w].run # r, UNCHANGED calls
      PROVE  Fewer
  BY <1>1 DEF ClaimedOn
<1>2. ASSUME NEW w \in Worker, NEW z \in Run, Claim(w, z)
      PROVE  Fewer \/ outbox'[r].attempts = outbox[r].attempts + 1
  <2>1. CASE z = r
    BY <1>t, <1>2, <2>1 DEF Claim, EventRow
  <2>2. CASE z # r
    <3>1. /\ \A v \in Worker \ {w} : worker'[v] = worker[v]
          /\ worker'[w].run # r /\ UNCHANGED calls
      BY <1>t, <1>2, <2>2 DEF Claim
    <3> QED BY <1>1, <3>1
  <2> QED BY <2>1, <2>2
<1>3. ASSUME NEW w \in Worker, Call(w) PROVE Fewer \/ Used
  <2>1. /\ worker'[w].pc = "calling" /\ worker[w].pc = "claimed"
        /\ \A v \in Worker \ {w} : worker'[v] = worker[v]
        /\ calls' = [calls EXCEPT ![worker[w].run] = @ + 1]
    BY <1>t, <1>3 DEF Call
  <2>2. CASE worker[w].run = r
    <3>1. w \in ClaimedOn(r) /\ ClaimedOn(r)' = ClaimedOn(r) \ {w}
      BY <2>1, <2>2 DEF ClaimedOn
    <3>2. calls'[r] = calls[r] + 1
      BY <1>t, <2>1, <2>2
    <3> QED BY <3>1, <3>2
  <2>3. CASE worker[w].run # r
    <3>1. calls'[r] = calls[r]
      BY <1>t, <2>1, <2>3
    <3>2. ClaimedOn(r)' \subseteq ClaimedOn(r)
      BY <2>1 DEF ClaimedOn
    <3> QED BY <3>1, <3>2
  <2> QED BY <2>2, <2>3
<1>4. ASSUME NEW w \in Worker, Return(w) PROVE Fewer
  <2>1. /\ worker'[w].pc = "answered" /\ UNCHANGED calls
        /\ \A v \in Worker \ {w} : worker'[v] = worker[v]
    BY <1>t, <1>4 DEF Return
  <2> QED BY <1>1, <2>1
<1>5. ASSUME NEW w \in Worker, Finalize(w) \/ Crash(w) PROVE Fewer
  <2>1. Rest(w) /\ UNCHANGED calls
    BY <1>5 DEF Finalize, FinalizeSuccess, FinalizeError, FinalizeRetry, Discard, Settle, Crash
  <2>2. worker'[w].pc = "idle" /\ \A v \in Worker \ {w} : worker'[v] = worker[v]
    BY <1>t, <2>1 DEF Rest, Resting
  <2> QED BY <1>1, <2>1, <2>2
<1>6. ASSUME NEW z \in Run, LeaseExpire(z) \/ Due(z) PROVE Fewer
  BY <1>u, <1>6 DEF LeaseExpire, Due
<1> QED BY <1>u, <1>2, <1>3, <1>4, <1>5, <1>6 DEF Next, WorkerNext, vars

(* What a step does to the attempts, the lease and the retries of a run.   *)
LEMMA AttemptsMove ==
    ASSUME TypeOK, StatusAgreement, AuditTrailTellsStatus, DecisionHistory, StoreStep, NEW r \in Run
    PROVE  \/ /\ outbox'[r].attempts = outbox[r].attempts /\ Retries(r)' = Retries(r)
              /\ outbox'[r].status = "processing" => outbox[r].status = "processing"
           \/ /\ outbox'[r].attempts = 0 /\ outbox'[r].status # "processing"
              /\ Retries(r)' = 0 /\ UNCHANGED workerVars /\ calls[r] = 0 /\ ClaimedOn(r) = {}
           \/ /\ outbox'[r].attempts = outbox[r].attempts /\ Retries(r)' = Retries(r) + 1
              /\ outbox[r].status = "processing" /\ outbox'[r].status # "processing"
              /\ outbox[r].attempts < MaxAttempts
           \/ /\ outbox'[r].attempts = outbox[r].attempts + 1 /\ Retries(r)' = Retries(r)
              /\ \E w \in Worker : Claiming(w, r)
<1> DEFINE Same == /\ outbox'[r].attempts = outbox[r].attempts /\ Retries(r)' = Retries(r)
                   /\ outbox'[r].status = "processing" => outbox[r].status = "processing"
<1>t. audit[r] \in Seq(AuditEvent) /\ Tells(audit[r], run[r].status)
  BY TrailIsTold DEF TypeOK, StoreTypeOK
<1>r. /\ Retries(r) = Cardinality(RetryRows(audit[r])) /\ Retries(r) \in Nat
      /\ Retries(r)' = Cardinality(RetryRows(audit'[r]))
  BY <1>t, RetriesCount DEF Retries, RetryRows
<1>1. ASSUME NEW from, NEW to, NEW type, Moves(r, from, to, type)
      PROVE  Retries(r)' = Retries(r) + IF type = "execution_retry_scheduled" THEN 1 ELSE 0
  <2>1. PICK actor : audit'[r] = Append(audit[r], [type |-> type, actor |-> actor])
    BY <1>1 DEF Moves
  <2> DEFINE e == [type |-> type, actor |-> actor]
  <2>2. e.type = type
    OBVIOUS
  <2> HIDE DEF e
  <2>3. Cardinality(RetryRows(Append(audit[r], e))) =
           Cardinality(RetryRows(audit[r])) + IF e.type = "execution_retry_scheduled" THEN 1 ELSE 0
    BY <1>t, RetriesAppended
  <2> QED BY <1>r, <2>1, <2>2, <2>3 DEF e
<1>2. ASSUME NEW z \in Run, NEW from, NEW to, NEW type, Moves(z, from, to, type), z # r PROVE Same
  BY <1>2 DEF Moves, Retries
<1>3. ASSUME NEW q \in Slot, Creates(q, r) \/ Approves(q, r) \/ Rejects(q, r) PROVE Same
  <2>1. outbox'[r] = outbox[r]
    BY <1>3 DEF Creates, Approves, Rejects, SameOperation
  <2>2. Retries(r)' = Retries(r) + 0
    BY <1>1, <1>3 DEF Creates, Approves, Rejects
  <2> QED BY <1>r, <2>1, <2>2
<1>4. ASSUME NEW q \in Slot, Requests(q, r)
      PROVE  /\ outbox'[r].attempts = 0 /\ outbox'[r].status # "processing"
             /\ Retries(r)' = 0 /\ UNCHANGED workerVars /\ calls[r] = 0 /\ ClaimedOn(r) = {}
  <2>1. /\ Moves(r, "approved", "execution_pending", "execution_requested")
        /\ outbox'[r].attempts = 0 /\ outbox'[r].status # "processing" /\ UNCHANGED workerVars
        /\ run[r].status = "approved"
    BY <1>4 DEF Requests, Recorded, Moves
  <2>2. Retries(r) = 0 /\ Retries(r)' = Retries(r) + 0
    BY <1>t, <1>r, <1>1, <2>1, ApprovedNeverRetried
  <2>3. calls[r] = 0 /\ ClaimedOn(r) = {}
    <3>1. run[r].status \notin Executing
      BY <2>1 DEF Executing, Terminal
    <3>2. calls[r] \in Nat /\ ~(calls[r] > 0)
      BY <3>1 DEF DecisionHistory, TypeOK, WorkerTypeOK
    <3>3. \A w \in Worker : worker[w].run = r => worker[w].pc # "claimed"
      BY <3>1 DEF DecisionHistory
    <3> QED BY <3>2, <3>3 DEF ClaimedOn
  <2> QED BY <2>1, <2>2, <2>3
<1>5. ASSUME NEW w \in Worker, NEW status \in Terminal, Settles(w, r, status) PROVE Same
  <2>1. outbox'[r].attempts = outbox[r].attempts /\ outbox'[r].status # "processing"
    BY <1>5 DEF Settles, Owner, EventOutcome, Terminal
  <2>2. /\ Moves(r, "execution_pending", status, SettledEvent(status))
        /\ SettledEvent(status) # "execution_retry_scheduled"
    BY <1>5 DEF Settles, SettledEvent
  <2>3. Retries(r)' = Retries(r) + 0
    BY <1>1, <2>2
  <2> QED BY <1>r, <2>1, <2>3
<1>6. ASSUME NEW w \in Worker, Retrying(w, r)
      PROVE  /\ outbox'[r].attempts = outbox[r].attempts /\ Retries(r)' = Retries(r) + 1
             /\ outbox[r].status = "processing" /\ outbox'[r].status # "processing"
             /\ outbox[r].attempts < MaxAttempts
  BY <1>1, <1>6 DEF Retrying, Owner, Owns
<1>7. ASSUME NEW w \in Worker, Claiming(w, r)
      PROVE  outbox'[r].attempts = outbox[r].attempts + 1 /\ Retries(r)' = Retries(r)
  BY <1>7 DEF Claiming, Retries
<1>8. ASSUME NEW w \in Worker, NEW z \in Run, z # r, Claiming(w, z) PROVE Same
  BY <1>8 DEF Claiming, Retries
<1>9. CASE Quiet
  BY <1>9 DEF Quiet, Retries
<1>10. ASSUME NEW q \in Slot, NEW z \in Run, z # r,
              Creates(q, z) \/ Approves(q, z) \/ Rejects(q, z) \/ Requests(q, z)
       PROVE  Same
  BY <1>2, <1>10 DEF Creates, Approves, Rejects, Requests
<1>11. ASSUME NEW w \in Worker, NEW z \in Run, z # r,
              Retrying(w, z) \/ \E status \in Terminal : Settles(w, z, status)
       PROVE  Same
  BY <1>2, <1>11 DEF Retrying, Settles
<1> QED BY <1>3, <1>4, <1>5, <1>6, <1>7, <1>8, <1>9, <1>10, <1>11 DEF StoreStep

LEMMA AccountsStay ==
    ASSUME TypeOK, StatusAgreement, AuditTrailTellsStatus, DecisionHistory, StoreStep, [Next]_vars,
           NEW r \in Run, Accounts(r)
    PROVE  Accounts(r)'
<1> DEFINE S == ClaimedOn(r)
           T == ClaimedOn(r)'
<1>t. /\ outbox[r].attempts \in Nat /\ calls[r] \in Nat /\ MaxAttempts \in Nat \ {0}
      /\ IsFiniteSet(S) /\ Cardinality(S) \in Nat
  BY AttemptsAssumption, FS_CardinalityType DEF TypeOK, WorkerTypeOK, EventRow, Accounts
<1>r. Retries(r) \in Nat
  BY RetriesCount DEF Retries, RetryRows, TypeOK, StoreTypeOK
<1>a. /\ calls[r] + Cardinality(S) <= outbox[r].attempts
      /\ Retries(r) + (IF outbox[r].status = "processing" THEN 1 ELSE 0) <= outbox[r].attempts
      /\ Retries(r) < MaxAttempts
  BY DEF Accounts
<1>1. \/ calls'[r] = calls[r] /\ T \subseteq S
      \/ \E w \in S : calls'[r] = calls[r] + 1 /\ T = S \ {w}
      \/ outbox'[r].attempts = outbox[r].attempts + 1
  BY ClaimsUsed
<1>2. \/ /\ outbox'[r].attempts = outbox[r].attempts /\ Retries(r)' = Retries(r)
         /\ outbox'[r].status = "processing" => outbox[r].status = "processing"
      \/ /\ outbox'[r].attempts = 0 /\ outbox'[r].status # "processing"
         /\ Retries(r)' = 0 /\ UNCHANGED workerVars /\ calls[r] = 0 /\ S = {}
      \/ /\ outbox'[r].attempts = outbox[r].attempts /\ Retries(r)' = Retries(r) + 1
         /\ outbox[r].status = "processing" /\ outbox'[r].status # "processing"
         /\ outbox[r].attempts < MaxAttempts
      \/ /\ outbox'[r].attempts = outbox[r].attempts + 1 /\ Retries(r)' = Retries(r)
         /\ \E w \in Worker : Claiming(w, r)
  BY AttemptsMove
<1>3. /\ Retries(r)' + (IF outbox'[r].status = "processing" THEN 1 ELSE 0) <= outbox'[r].attempts
      /\ Retries(r)' < MaxAttempts
  <2> HIDE DEF S, T
  <2> QED BY <1>t, <1>r, <1>a, <1>2
<1>4. IsFiniteSet(T) /\ calls'[r] + Cardinality(T) <= outbox'[r].attempts
  <2>1. ASSUME calls'[r] = calls[r], T \subseteq S, outbox'[r].attempts = outbox[r].attempts
        PROVE  IsFiniteSet(T) /\ calls'[r] + Cardinality(T) <= outbox'[r].attempts
    <3>1. /\ IsFiniteSet(T) /\ Cardinality(T) \in Nat /\ Cardinality(T) <= Cardinality(S)
      BY <1>t, <2>1, FS_Subset, FS_CardinalityType
    <3> HIDE DEF S, T
    <3> QED BY <1>t, <1>a, <2>1, <3>1
  <2>2. ASSUME NEW w \in S, calls'[r] = calls[r] + 1, T = S \ {w},
               outbox'[r].attempts = outbox[r].attempts
        PROVE  IsFiniteSet(T) /\ calls'[r] + Cardinality(T) <= outbox'[r].attempts
    <3>1. IsFiniteSet(T) /\ Cardinality(T) = Cardinality(S) - 1
      BY <1>t, <2>2, FS_RemoveElement
    <3> HIDE DEF S, T
    <3> QED BY <1>t, <1>a, <2>2, <3>1
  <2>3. ASSUME outbox'[r].attempts = 0, UNCHANGED workerVars, calls[r] = 0, S = {}
        PROVE  IsFiniteSet(T) /\ calls'[r] + Cardinality(T) <= outbox'[r].attempts
    <3>1. T = {} /\ calls'[r] = 0
      BY <2>3 DEF ClaimedOn, workerVars
    <3>2. IsFiniteSet({}) /\ Cardinality({}) = 0
      BY FS_EmptySet
    <3> QED BY <2>3, <3>1, <3>2
  <2>4. ASSUME NEW w \in Worker, Claiming(w, r)
        PROVE  IsFiniteSet(T) /\ calls'[r] + Cardinality(T) <= outbox'[r].attempts
    <3>1. T = S \cup {w} /\ w \notin S
      BY <2>4 DEF Claiming, ClaimedOn, TypeOK, WorkerTypeOK
    <3>2. IsFiniteSet(T) /\ Cardinality(T) = Cardinality(S) + 1
      BY <1>t, <3>1, FS_AddElement
    <3>3. calls'[r] = calls[r] /\ outbox'[r].attempts = outbox[r].attempts + 1
      BY <2>4 DEF Claiming
    <3> HIDE DEF S, T
    <3> QED BY <1>t, <1>a, <3>2, <3>3
  <2>5. outbox'[r].attempts = outbox[r].attempts + 1 => outbox'[r].attempts # outbox[r].attempts
    BY <1>t
  <2> HIDE DEF S, T
  <2> QED BY <1>1, <1>2, <2>1, <2>2, <2>3, <2>4, <2>5
<1> QED BY <1>3, <1>4 DEF Accounts, S, T

(* Every call has a claim of its own, attempts bound the retries, and no   *)
(* run is executed without a call.                                         *)
THEOREM CallsHaveClaims == Spec => []AttemptsAccountForCalls
<1> DEFINE Accounted == \A r \in Run : Accounts(r)
<1>1. Init => Accounted
  <2> SUFFICES ASSUME Init, NEW r \in Run PROVE Accounts(r)
    OBVIOUS
  <2>1. /\ ClaimedOn(r) = {} /\ calls[r] = 0 /\ outbox[r].attempts = 0
        /\ outbox[r].status # "processing" /\ audit[r] = <<>>
    BY DEF Init, StoreInit, WorkerInit, Resting, NoEvent, ClaimedOn
  <2>2. Retries(r) = Cardinality({})
    <3>1. DOMAIN audit[r] = {}
      BY <2>1
    <3> QED BY <3>1 DEF Retries
  <2>3. IsFiniteSet({}) /\ Cardinality({}) = 0
    BY FS_EmptySet
  <2> QED BY <2>1, <2>2, <2>3, AttemptsAssumption DEF Accounts
<1>2. TypeOK /\ StatusAgreement /\ DecisionHistory /\ AuditTrailTellsStatus /\ Accounted
      /\ [Next]_vars => Accounted'
  BY StoreSteps, AccountsStay
<1>3. TypeOK /\ DecisionHistory /\ Accounted => AttemptsAccountForCalls
  BY DEF Accounts, ClaimedOn, AttemptsAccountForCalls, DecisionHistory, Terminal
<1> QED BY <1>1, <1>2, <1>3, DecisionsRecorded, TrailIsComplete, PTL DEF Spec
===============================================================================
