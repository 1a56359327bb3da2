-------------------------- MODULE RunPlatform_proofs --------------------------
(***************************************************************************)
(* Theorems about RunPlatform, for every set of tenants, principals, runs, *)
(* keys, handlers and workers and every bound.                             *)
(***************************************************************************)
EXTENDS RunPlatform, TLAPS

(* What a handler looks up and answers is well formed.                     *)
LEMMA ScopeType ==
    ASSUME NEW s \in Submission
    PROVE  ScopeOf(s) \in Scope /\ HashOf(s) \in Hash /\ TenantOfRequest(s) \in Tenant
BY SubmissionAssumption, PrincipalAssumption
   DEF ScopeOf, Scope, HashOf, Hash, TenantOfRequest

(* A refusal is an answer.                                                 *)
LEMMA RefusedType ==
    ASSUME NEW code \in {403, 404, 409}, NEW detail \in Detail
    PROVE  Refused(code, detail) \in Reply
BY DEF Refused, Reply

(* A replay is an answer or no answer.                                     *)
LEMMA ReplayType ==
    ASSUME StoreTypeOK, NEW s \in Submission
    PROVE  Replay(s) \in Reply \cup {None}
<1>1. idem[ScopeOf(s)] \in IdemRecord \cup {None}
  BY ScopeType DEF StoreTypeOK
<1>2. CASE idem[ScopeOf(s)] = None
  BY <1>2 DEF Replay
<1>3. CASE idem[ScopeOf(s)] \in IdemRecord
  <2>1. Accepted(idem[ScopeOf(s)].code, idem[ScopeOf(s)].resource) \in Reply
    BY <1>3 DEF Accepted, Reply, IdemRecord, Detail
  <2>2. Refused(409, "idempotency_key_reused") \in Reply
    BY RefusedType DEF Detail
  <2> QED BY <2>1, <2>2 DEF Replay
<1> QED BY <1>1, <1>2, <1>3

(* The reads of a handler find nothing wrong or give an answer.            *)
LEMMA ReadErrorType ==
    ASSUME StoreTypeOK, NEW s \in Submission
    PROVE  ReadError(s) \in Reply \cup {None}
<1>1. StackError(s) \in Reply \cup {None}
  BY RefusedType DEF Detail, StackError
<1>2. DecisionError(s) \in Reply \cup {None}
  BY RefusedType DEF Detail, DecisionError
<1>3. ExecuteError(s) \in Reply \cup {None}
  BY RefusedType DEF Detail, ExecuteError
<1> QED BY <1>1, <1>2, <1>3, RefusedType DEF Detail, ReadError

(* A handler that moves on or answers stays well formed.                   *)
LEMMA GotoType ==
    ASSUME RequestTypeOK, NEW q \in Slot, NEW pc \in {"existing", "commit"},
           Goto(q, pc), req[q].pc # "idle", pc = "existing" => req[q].sub.op = "run.execute"
    PROVE  RequestTypeOK'
BY DEF RequestTypeOK, Goto, Pc

(* A handler that answers stays well formed.                               *)
LEMMA AnswerType ==
    ASSUME RequestTypeOK, NEW q \in Slot, NEW reply \in Reply,
           Answer(q, reply), req[q].pc # "idle"
    PROVE  RequestTypeOK'
<1>1. req' = [req EXCEPT ![q] = [req[q] EXCEPT !.pc = "done", !.reply = reply]]
  BY DEF Answer, RequestTypeOK
<1>2. /\ req'[q] \in [pc : Pc, sub : Submission \cup {None}, reply : Reply \cup {None}]
      /\ req'[q].pc = "done" /\ req'[q].sub \in Submission /\ req'[q].reply = reply
  BY <1>1 DEF RequestTypeOK, Pc
<1>3. \A z \in Slot \ {q} : req'[z] = req[z]
  BY <1>1 DEF RequestTypeOK
<1>4. req' \in [Slot -> [pc : Pc, sub : Submission \cup {None}, reply : Reply \cup {None}]]
  BY <1>1, <1>2 DEF RequestTypeOK
<1> QED BY <1>2, <1>3, <1>4 DEF RequestTypeOK

(* An audit row keeps every trail a sequence of events.                    *)
LEMMA AuditedType ==
    ASSUME StoreTypeOK, NEW r \in Run, NEW type \in EventType,
           NEW actor \in Principal \cup {None}, Audited(r, type, actor)
    PROVE  audit' \in [Run -> Seq(AuditEvent)]
<1>1. [type |-> type, actor |-> actor] \in AuditEvent
  BY DEF AuditEvent
<1>2. Append(audit[r], [type |-> type, actor |-> actor]) \in Seq(AuditEvent)
  BY <1>1 DEF StoreTypeOK
<1> QED BY <1>2 DEF Audited, StoreTypeOK

(* Remember writes a well-formed record under the key of its request.      *)
LEMMA RememberType ==
    ASSUME StoreTypeOK, NEW s \in Submission, NEW code \in Code, NEW r \in Run,
           Remember(s, code, r)
    PROVE  idem' \in [Scope -> IdemRecord \cup {None}]
<1>1. s.principal \in Principal /\ HashOf(s) \in Hash
  BY ScopeType, SubmissionAssumption
<1>2. [actor |-> s.principal, hash |-> HashOf(s), code |-> code, resource |-> r] \in IdemRecord
  BY <1>1 DEF IdemRecord
<1> QED BY <1>2 DEF Remember, StoreTypeOK

(* The empty platform is well formed.                                      *)
LEMMA InitType == Init => TypeOK
<1> SUFFICES ASSUME Init PROVE TypeOK
  OBVIOUS
<1>1. NoRun \in RunRow
  BY DEF NoRun, RunRow
<1>2. StoreTypeOK
  BY <1>1 DEF Init, StoreInit, StoreTypeOK
<1>3. RequestTypeOK
  BY DEF Init, RequestInit, RequestTypeOK, Idle, Pc
<1>4. NoEvent \in EventRow
  BY DEF NoEvent, EventRow
<1>5. WorkerTypeOK
  BY <1>4 DEF Init, StoreInit, WorkerInit, WorkerTypeOK, Resting, WorkerPc
<1> QED BY <1>2, <1>3, <1>5 DEF TypeOK

(* A step of a request handler keeps the tables and the handlers well      *)
(* formed.                                                                 *)
LEMMA RequestStepType ==
    ASSUME TypeOK, NEW q \in Slot,
           Begin(q) \/ Handle(q) \/ Respond(q) \/ Abort(q), UNCHANGED workerVars
    PROVE  TypeOK'
<1> DEFINE s == req[q].sub
<1>t. StoreTypeOK /\ RequestTypeOK /\ WorkerTypeOK
  BY DEF TypeOK
<1>u. ASSUME UNCHANGED storeVars PROVE StoreTypeOK' /\ WorkerTypeOK'
  BY <1>t, <1>u DEF StoreTypeOK, WorkerTypeOK, storeVars, workerVars
<1>o. ASSUME UNCHANGED outbox PROVE WorkerTypeOK'
  BY <1>t, <1>o DEF WorkerTypeOK, workerVars
<1>s. ASSUME req[q].pc # "idle" PROVE s \in Submission
  BY <1>t, <1>s DEF RequestTypeOK
<1>r. s \in Submission /\ s.op \notin Creation => s.target \in Run
  BY SubmissionAssumption, TargetAssumption
<1>w. s \in Submission /\ s.op \in Creation => s.target \in Workflow
  BY TargetAssumption
<1>p. s \in Submission => s.principal \in Principal /\ TenantOfRequest(s) \in Tenant
  BY SubmissionAssumption, ScopeType
<1>a. ASSUME NEW r \in Run, NEW code \in Code PROVE Accepted(code, r) \in Reply
  BY DEF Accepted, Reply, Detail
<1>1. CASE Begin(q)
  <2>1. PICK z \in Submission : req' = [req EXCEPT ![q] =
             IF ~Authorized(z)
             THEN [pc |-> "done", sub |-> z, reply |-> Refused(403, "insufficient_role")]
             ELSE IF Replay(z) # None
             THEN [pc |-> "done", sub |-> z, reply |-> Replay(z)]
             ELSE [pc |-> "read", sub |-> z, reply |-> None]]
    BY <1>1 DEF Begin
  <2>2. Refused(403, "insufficient_role") \in Reply
    BY RefusedType DEF Detail
  <2>3. Replay(z) \in Reply \cup {None}
    BY <1>t, ReplayType
  <2>4. RequestTypeOK'
    BY <1>t, <2>1, <2>2, <2>3 DEF RequestTypeOK, Pc
  <2> QED BY <1>1, <1>u, <2>4 DEF Begin, TypeOK
<1>2. CASE Read(q)
  <2>1. s \in Submission
    BY <1>2, <1>s DEF Read
  <2>2. ReadError(s) \in Reply \cup {None}
    BY <1>t, <2>1, ReadErrorType
  <2>3. ASSUME ReadError(s) # None PROVE RequestTypeOK'
    <3>1. Answer(q, ReadError(s)) /\ req[q].pc # "idle" /\ ReadError(s) \in Reply
      BY <1>2, <2>2, <2>3 DEF Read
    <3> QED BY <1>t, <3>1, AnswerType
  <2>4. ASSUME ReadError(s) = None PROVE RequestTypeOK'
    <3>1. req[q].pc # "idle"
      BY <1>2 DEF Read
    <3>2. \/ Goto(q, "existing") /\ req[q].sub.op = "run.execute"
          \/ Goto(q, "commit")
      BY <1>2, <2>4 DEF Read
    <3>3. CASE Goto(q, "existing") /\ req[q].sub.op = "run.execute"
      BY <1>t, <3>1, <3>3, GotoType
    <3>4. CASE Goto(q, "commit")
      BY <1>t, <3>1, <3>4, GotoType
    <3> QED BY <3>2, <3>3, <3>4
  <2>5. RequestTypeOK'
    BY <2>3, <2>4
  <2> QED BY <1>2, <1>u, <2>5 DEF Read, TypeOK
<1>3. CASE ReadExisting(q)
  <2>1. Refused(409, "execution_already_claimed") \in Reply
    BY RefusedType DEF Detail
  <2>2. RequestTypeOK'
    BY <1>t, <1>3, <2>1, AnswerType, GotoType DEF ReadExisting
  <2> QED BY <1>3, <1>u, <2>2 DEF ReadExisting, TypeOK
<1>4. ASSUME NEW r \in Run, NEW eligible \in BOOLEAN, s \in Submission,
             s.op \in Creation, Proposed(s, r, eligible)
      PROVE  run' \in [Run -> RunRow] /\ audit' \in [Run -> Seq(AuditEvent)]
  <2>1. TenantOfRequest(s) \in Tenant /\ ConnectorOf[s.target] \in Connector \cup {None}
    BY <1>4, <1>p, <1>w, WorkflowAssumption
  <2>2. [NoRun EXCEPT !.status = "proposed", !.tenant = TenantOfRequest(s),
           !.connector = ConnectorOf[s.target], !.eligible = eligible] \in RunRow
    BY <2>1 DEF NoRun, RunRow, RunStatus
  <2>3. audit' \in [Run -> Seq(AuditEvent)]
    BY <1>4, <1>p, <1>t, AuditedType DEF Proposed, EventType
  <2> QED BY <1>t, <1>4, <2>2, <2>3 DEF Proposed, StoreTypeOK
<1>5. CASE CommitDryRun(q)
  <2>1. s \in Submission
    BY <1>5, <1>s DEF CommitDryRun
  <2>2. PICK r \in Run : /\ Proposed(s, r, TRUE) /\ Remember(s, 201, r)
                         /\ Answer(q, Accepted(201, r))
    BY <1>5 DEF CommitDryRun
  <2>3. run' \in [Run -> RunRow] /\ audit' \in [Run -> Seq(AuditEvent)]
    BY <1>4, <1>5, <2>1, <2>2 DEF CommitDryRun, Creation
  <2>4. idem' \in [Scope -> IdemRecord \cup {None}]
    BY <1>t, <2>1, <2>2, RememberType DEF Code
  <2>5. RequestTypeOK'
    BY <1>5, <1>t, <1>a, <2>2, AnswerType DEF Code, CommitDryRun
  <2> QED BY <1>5, <1>t, <1>o, <2>3, <2>4, <2>5 DEF CommitDryRun, TypeOK, StoreTypeOK
<1>6. CASE CommitFromMail(q)
  <2>1. s \in Submission
    BY <1>6, <1>s DEF CommitFromMail
  <2>2. PICK r \in Run : /\ Proposed(s, r, MailEligible(s)) /\ Remember(s, 201, r)
                         /\ Answer(q, Accepted(201, r))
                         /\ claims' = [claims EXCEPT ![ClaimOf(s)] = r]
    BY <1>6 DEF CommitFromMail
  <2>3. run' \in [Run -> RunRow] /\ audit' \in [Run -> Seq(AuditEvent)]
    BY <1>4, <1>6, <2>1, <2>2 DEF CommitFromMail, Creation, MailEligible
  <2>4. idem' \in [Scope -> IdemRecord \cup {None}]
    BY <1>t, <2>1, <2>2, RememberType DEF Code
  <2>5. RequestTypeOK'
    BY <1>6, <1>t, <1>a, <2>2, AnswerType DEF Code, CommitFromMail
  <2>6. claims' \in [Tenant \X Source -> Run \cup {None}]
    BY <1>t, <2>2 DEF StoreTypeOK
  <2> QED BY <1>6, <1>t, <1>o, <2>3, <2>4, <2>5, <2>6
          DEF CommitFromMail, TypeOK, StoreTypeOK
<1>8. CASE CommitApprove(q)
  <2>1. s \in Submission /\ s.target \in Run
    BY <1>8, <1>s, <1>r DEF CommitApprove, Creation
  <2>2. run' \in [Run -> RunRow]
    <3>1. [run[s.target] EXCEPT !.status = "approved", !.approver = s.principal] \in RunRow
      <4>1. run[s.target] \in RunRow /\ s.principal \in Principal
        BY <1>t, <1>p, <2>1 DEF StoreTypeOK
      <4> QED BY <4>1 DEF RunRow, RunStatus
    <3>2. run' = [run EXCEPT ![s.target] =
                   [run[s.target] EXCEPT !.status = "approved", !.approver = s.principal]]
      BY <1>8, <1>t, <2>1 DEF CommitApprove, StoreTypeOK
    <3> QED BY <1>t, <3>1, <3>2 DEF StoreTypeOK
  <2>3. audit' \in [Run -> Seq(AuditEvent)]
    BY <1>8, <1>t, <1>p, <2>1, AuditedType DEF CommitApprove, EventType
  <2>4. idem' \in [Scope -> IdemRecord \cup {None}]
    <3>1. Remember(s, 200, s.target)
      BY <1>8 DEF CommitApprove
    <3> QED BY <1>t, <2>1, <3>1, RememberType DEF Code
  <2>5. RequestTypeOK'
    BY <1>8, <1>t, <1>a, <2>1, AnswerType DEF Code, CommitApprove
  <2> QED BY <1>8, <1>t, <1>o, <2>2, <2>3, <2>4, <2>5 DEF CommitApprove, TypeOK, StoreTypeOK
<1>9. CASE CommitReject(q)
  <2>1. s \in Submission /\ s.target \in Run
    BY <1>9, <1>s, <1>r DEF CommitReject, Creation
  <2>2. run' \in [Run -> RunRow]
    <3>1. [run[s.target] EXCEPT !.status = "rejected", !.rejecter = s.principal] \in RunRow
      <4>1. run[s.target] \in RunRow /\ s.principal \in Principal
        BY <1>t, <1>p, <2>1 DEF StoreTypeOK
      <4> QED BY <4>1 DEF RunRow, RunStatus
    <3>2. run' = [run EXCEPT ![s.target] =
                   [run[s.target] EXCEPT !.status = "rejected", !.rejecter = s.principal]]
      BY <1>9, <1>t, <2>1 DEF CommitReject, StoreTypeOK
    <3> QED BY <1>t, <3>1, <3>2 DEF StoreTypeOK
  <2>3. audit' \in [Run -> Seq(AuditEvent)]
    BY <1>9, <1>t, <1>p, <2>1, AuditedType DEF CommitReject, EventType
  <2>4. idem' \in [Scope -> IdemRecord \cup {None}]
    <3>1. Remember(s, 200, s.target)
      BY <1>9 DEF CommitReject
    <3> QED BY <1>t, <2>1, <3>1, RememberType DEF Code
  <2>5. RequestTypeOK'
    BY <1>9, <1>t, <1>a, <2>1, AnswerType DEF Code, CommitReject
  <2> QED BY <1>9, <1>t, <1>o, <2>2, <2>3, <2>4, <2>5 DEF CommitReject, TypeOK, StoreTypeOK
<1>10. CASE CommitExecute(q)
  <2>1. s \in Submission /\ s.target \in Run
    BY <1>10, <1>s, <1>r DEF CommitExecute, Creation
  <2>2. run' \in [Run -> RunRow]
    <3>1. [run[s.target] EXCEPT !.status = "execution_pending"] \in RunRow
      <4>1. run[s.target] \in RunRow
        BY <1>t, <2>1 DEF StoreTypeOK
      <4> QED BY <4>1 DEF RunRow, RunStatus
    <3>2. run' = [run EXCEPT ![s.target] =
                   [run[s.target] EXCEPT !.status = "execution_pending"]]
      BY <1>10, <1>t, <2>1 DEF CommitExecute, StoreTypeOK
    <3> QED BY <1>t, <3>1, <3>2 DEF StoreTypeOK
  <2>8. op' \in [Run -> OpStatus \cup {"none"}]
    BY <1>10, <1>t, <2>1 DEF CommitExecute, StoreTypeOK, OpStatus
  <2>3. audit' \in [Run -> Seq(AuditEvent)]
    BY <1>10, <1>t, <1>p, <2>1, AuditedType DEF CommitExecute, EventType
  <2>4. idem' \in [Scope -> IdemRecord \cup {None}]
    <3>1. Remember(s, 202, s.target)
      BY <1>10 DEF CommitExecute
    <3> QED BY <1>t, <2>1, <3>1, RememberType DEF Code
  <2>5. RequestTypeOK'
    BY <1>10, <1>t, <1>a, <2>1, AnswerType DEF Code, CommitExecute
  <2>6. [NoEvent EXCEPT !.status = "pending", !.due = TRUE] \in EventRow
    BY DEF NoEvent, EventRow, OutboxStatus
  <2>7. WorkerTypeOK'
    BY <1>10, <1>t, <2>1, <2>6 DEF CommitExecute, WorkerTypeOK, workerVars
  <2> QED BY <1>10, <1>t, <2>2, <2>3, <2>4, <2>5, <2>7, <2>8
          DEF CommitExecute, TypeOK, StoreTypeOK
<1>11. CASE CreationConflict(q) \/ TransitionConflict(q)
  <2>1. s \in Submission
    BY <1>11, <1>s DEF CreationConflict, TransitionConflict
  <2>2. \A reply \in Reply : ReplayOr(s, reply) \in Reply
    BY <1>t, <2>1, ReplayType DEF ReplayOr
  <2>3. /\ Refused(409, "order_source_already_claimed") \in Reply
        /\ Refused(409, "invalid_state") \in Reply
    BY RefusedType DEF Detail
  <2>4. RequestTypeOK'
    BY <1>t, <1>11, <2>2, <2>3, AnswerType DEF CreationConflict, TransitionConflict
  <2> QED BY <1>11, <1>u, <2>4 DEF CreationConflict, TransitionConflict, TypeOK
<1>12. CASE Respond(q) \/ Abort(q)
  <2>1. RequestTypeOK'
    BY <1>t, <1>12 DEF Respond, Abort, RequestTypeOK, Idle, Pc
  <2> QED BY <1>12, <1>u, <2>1 DEF Respond, Abort, TypeOK
<1> QED BY <1>1, <1>2, <1>3, <1>5, <1>6, <1>8, <1>9, <1>10, <1>11, <1>12 DEF Handle

(* The worker that rewrites a stored answer leaves a well-formed record.   *)
LEMMA UpdateReplayType ==
    ASSUME StoreTypeOK, NEW r \in Run, NEW code \in Code, UpdateReplay(r, code)
    PROVE  idem' \in [Scope -> IdemRecord \cup {None}]
<1>1. ASSUME NEW k \in Scope, idem[k] # None
      PROVE  [idem[k] EXCEPT !.code = code] \in IdemRecord
  BY <1>1 DEF StoreTypeOK, IdemRecord
<1> QED BY <1>1 DEF UpdateReplay, StoreTypeOK

(* A step of a worker, or of the clocks it reads, keeps the tables and the *)
(* workers well formed.                                                    *)
LEMMA WorkerStepType ==
    ASSUME TypeOK, WorkerNext, UNCHANGED req
    PROVE  TypeOK'
<1>t. StoreTypeOK /\ RequestTypeOK /\ WorkerTypeOK
  BY DEF TypeOK
<1>q. RequestTypeOK'
  BY <1>t DEF RequestTypeOK
<1>u. ASSUME UNCHANGED storeVars PROVE StoreTypeOK'
  BY <1>t, <1>u DEF StoreTypeOK, storeVars
<1>1. ASSUME NEW w \in Worker, NEW r \in Run, Claim(w, r) PROVE TypeOK'
  <2>1. [outbox[r] EXCEPT !.status = "processing", !.attempts = @ + 1,
                          !.owner = w, !.live = TRUE] \in EventRow
    <3>1. outbox[r] \in EventRow
      BY <1>t DEF WorkerTypeOK
    <3>2. outbox[r].attempts + 1 \in Nat
      BY <3>1 DEF EventRow
    <3> QED BY <3>1, <3>2 DEF EventRow, OutboxStatus
  <2>2. outbox' = [outbox EXCEPT ![r] =
                     [outbox[r] EXCEPT !.status = "processing", !.attempts = @ + 1,
                                       !.owner = w, !.live = TRUE]]
    BY <1>1, <1>t DEF Claim, WorkerTypeOK
  <2>3. outbox' \in [Run -> EventRow]
    BY <1>t, <2>1, <2>2 DEF WorkerTypeOK
  <2>4. StoreTypeOK'
    BY <1>1, <1>t DEF Claim, StoreTypeOK, OpStatus
  <2>5. WorkerTypeOK'
    BY <1>1, <1>t, <2>3 DEF Claim, WorkerTypeOK, WorkerPc
  <2> QED BY <1>q, <2>4, <2>5 DEF TypeOK
<1>2. ASSUME NEW w \in Worker, Call(w) PROVE TypeOK'
  <2>1. WorkerTypeOK'
    BY <1>2, <1>t DEF Call, WorkerTypeOK, WorkerPc, storeVars
  <2> QED BY <1>2, <1>q, <1>u, <2>1 DEF Call, TypeOK
<1>3. ASSUME NEW w \in Worker, Return(w) PROVE TypeOK'
  <2>1. PICK outcome \in Outcome :
           worker' = [worker EXCEPT ![w].pc = "answered", ![w].outcome = outcome]
    BY <1>3 DEF Return, OutcomesOf, Outcome
  <2>2. [worker[w] EXCEPT !.pc = "answered", !.outcome = outcome]
          \in [pc : WorkerPc, run : Run \cup {None}, outcome : Outcome \cup {None}]
    <3>1. worker[w] \in [pc : WorkerPc, run : Run \cup {None}, outcome : Outcome \cup {None}]
      BY <1>t DEF WorkerTypeOK
    <3> QED BY <3>1 DEF WorkerPc
  <2>3. worker' = [worker EXCEPT ![w] =
                     [worker[w] EXCEPT !.pc = "answered", !.outcome = outcome]]
    BY <1>t, <2>1 DEF WorkerTypeOK
  <2>4. WorkerTypeOK'
    BY <1>3, <1>t, <2>2, <2>3 DEF Return, WorkerTypeOK, storeVars
  <2> QED BY <1>3, <1>q, <1>u, <2>4 DEF Return, TypeOK
<1>4. ASSUME NEW w \in Worker, Rest(w), UNCHANGED <<outbox, calls>>
      PROVE  WorkerTypeOK'
  BY <1>4, <1>t DEF Rest, Resting, WorkerTypeOK, WorkerPc
<1>5. ASSUME NEW w \in Worker, Rest(w), NEW r \in Run,
             NEW status \in {"processed", "retry", "failed", "unknown"},
             Release(r, status), UNCHANGED calls
      PROVE  WorkerTypeOK'
  <2>1. [outbox[r] EXCEPT !.status = status, !.owner = None, !.live = FALSE,
                          !.due = @ /\ status # "retry"] \in EventRow
    <3>1. outbox[r] \in EventRow
      BY <1>t DEF WorkerTypeOK
    <3>2. (outbox[r].due /\ status # "retry") \in BOOLEAN
      OBVIOUS
    <3> QED BY <3>1, <3>2 DEF EventRow, OutboxStatus
  <2>2. outbox' = [outbox EXCEPT ![r] =
                     [outbox[r] EXCEPT !.status = status, !.owner = None, !.live = FALSE,
                                       !.due = @ /\ status # "retry"]]
    BY <1>5, <1>t DEF Release, WorkerTypeOK
  <2>3. outbox' \in [Run -> EventRow]
    BY <1>t, <2>1, <2>2 DEF WorkerTypeOK
  <2> QED BY <1>5, <1>t, <2>3 DEF Rest, Resting, WorkerTypeOK, WorkerPc
<1>6. ASSUME NEW w \in Worker, NEW r \in Run, NEW status \in Terminal,
             NEW code \in Code, Settle(r, status, code), Rest(w)
      PROVE  TypeOK'
  <2>1. WorkerTypeOK'
    BY <1>5, <1>6 DEF Settle, Terminal, EventOutcome
  <2>2. SettledEvent(status) \in EventType
    BY DEF SettledEvent, EventType
  <2>3. audit' \in [Run -> Seq(AuditEvent)]
    BY <1>6, <1>t, <2>2, AuditedType DEF Settle
  <2>4. idem' \in [Scope -> IdemRecord \cup {None}]
    BY <1>6, <1>t, UpdateReplayType DEF Settle
  <2>5. op' \in [Run -> OpStatus \cup {"none"}] /\ run' \in [Run -> RunRow]
    <3>1. run[r] \in RunRow
      BY <1>t DEF StoreTypeOK
    <3>2. [run[r] EXCEPT !.status = status] \in RunRow
      BY <3>1 DEF RunRow, RunStatus
    <3>3. run' = [run EXCEPT ![r] = [run[r] EXCEPT !.status = status]]
      BY <1>6, <1>t DEF Settle, StoreTypeOK
    <3>4. op' \in [Run -> OpStatus \cup {"none"}]
      BY <1>6, <1>t DEF Settle, StoreTypeOK, OpStatus
    <3> QED BY <1>t, <3>2, <3>3, <3>4 DEF StoreTypeOK
  <2> QED BY <1>6, <1>t, <1>q, <2>1, <2>3, <2>4, <2>5 DEF Settle, TypeOK, StoreTypeOK
<1>7. ASSUME NEW w \in Worker, Finalize(w) PROVE TypeOK'
  <2> DEFINE r == worker[w].run
  <2>1. r \in Run
    BY <1>7, <1>t
       DEF WorkerTypeOK, Finalize, FinalizeSuccess, FinalizeRetry, FinalizeError, Discard
  <2>2. CASE FinalizeSuccess(w)
    BY <1>6, <2>1, <2>2 DEF FinalizeSuccess, Code, Terminal
  <2>3. CASE FinalizeRetry(w)
    <3>1. WorkerTypeOK'
      BY <1>5, <2>1, <2>3 DEF FinalizeRetry
    <3>2. audit' \in [Run -> Seq(AuditEvent)]
      BY <1>t, <2>1, <2>3, AuditedType DEF FinalizeRetry, EventType
    <3>3. StoreTypeOK'
      BY <1>t, <2>1, <2>3, <3>2 DEF FinalizeRetry, StoreTypeOK, OpStatus, Requeue
    <3> QED BY <1>q, <3>1, <3>3 DEF TypeOK
  <2>4. CASE FinalizeError(w)
    <3>1. /\ Rest(w)
          /\ \/ Settle(r, "failed", 502)
             \/ Settle(r, "unknown", 502)
      BY <2>4 DEF FinalizeError
    <3> QED BY <1>6, <2>1, <3>1 DEF Code, Terminal
  <2>5. CASE Discard(w)
    BY <1>4, <1>q, <1>u, <2>5 DEF Discard, TypeOK, storeVars
  <2> QED BY <1>7, <2>2, <2>3, <2>4, <2>5 DEF Finalize
<1>8. ASSUME NEW w \in Worker, Crash(w) PROVE TypeOK'
  BY <1>4, <1>8, <1>q, <1>u DEF Crash, TypeOK, storeVars
<1>9. ASSUME NEW r \in Run, LeaseExpire(r) \/ Due(r) PROVE TypeOK'
  <2>1. WorkerTypeOK'
    <3>1. outbox[r] \in EventRow
      BY <1>t DEF WorkerTypeOK
    <3>2. /\ [outbox[r] EXCEPT !.live = FALSE] \in EventRow
          /\ [outbox[r] EXCEPT !.due = TRUE] \in EventRow
      BY <3>1 DEF EventRow
    <3>3. \/ outbox' = [outbox EXCEPT ![r] = [outbox[r] EXCEPT !.live = FALSE]]
          \/ outbox' = [outbox EXCEPT ![r] = [outbox[r] EXCEPT !.due = TRUE]]
      BY <1>9, <1>t DEF LeaseExpire, Due, WorkerTypeOK
    <3> QED BY <1>9, <1>t, <3>2, <3>3 DEF LeaseExpire, Due, WorkerTypeOK, workerVars
  <2>2. StoreTypeOK'
    BY <1>9, <1>t DEF LeaseExpire, Due, StoreTypeOK
  <2> QED BY <1>q, <2>1, <2>2 DEF TypeOK
<1> QED BY <1>1, <1>2, <1>3, <1>7, <1>8, <1>9 DEF WorkerNext

(* Every reachable state is well formed: no handler commits without its    *)
(* request and no worker finalizes without a run.                          *)
THEOREM TypeCorrect == Spec => []TypeOK
<1>1. TypeOK /\ [Next]_vars => TypeOK'
  <2> SUFFICES ASSUME TypeOK, [Next]_vars PROVE TypeOK'
    OBVIOUS
  <2>1. CASE RequestNext /\ UNCHANGED workerVars
    BY <2>1, RequestStepType DEF RequestNext
  <2>2. CASE WorkerNext /\ UNCHANGED req
    BY <2>2, WorkerStepType
  <2>3. CASE UNCHANGED vars
    BY <2>3 DEF vars, storeVars, workerVars, TypeOK, StoreTypeOK, RequestTypeOK, WorkerTypeOK
  <2> QED BY <2>1, <2>2, <2>3 DEF Next
<1> QED BY InitType, <1>1, PTL DEF Spec

-------------------------------------------------------------------------------
(* The steps of a handler that write no table.                             *)
LEMMA QuietRequest ==
    ASSUME NEW q \in Slot,
           \/ Begin(q) \/ Read(q) \/ ReadExisting(q) \/ CreationConflict(q)
           \/ TransitionConflict(q) \/ Respond(q) \/ Abort(q)
    PROVE  UNCHANGED storeVars
BY DEF Begin, Read, ReadExisting, CreationConflict, TransitionConflict, Respond, Abort

(* Approval, rejection and execution name a run.                           *)
LEMMA TransitionTarget ==
    ASSUME TypeOK, NEW q \in Slot,
           CommitApprove(q) \/ CommitReject(q) \/ CommitExecute(q)
    PROVE  req[q].sub \in Submission /\ req[q].sub.target \in Run
<1>1. req[q].sub \in Submission /\ req[q].sub.op \notin Creation
  BY DEF TypeOK, RequestTypeOK, CommitApprove, CommitReject, CommitExecute, Creation
<1> QED BY <1>1, SubmissionAssumption, TargetAssumption

(* A worker that finalizes holds a run.                                    *)
LEMMA Finalized ==
    ASSUME TypeOK, NEW w \in Worker, Finalize(w)
    PROVE  worker[w].run \in Run
BY DEF TypeOK, WorkerTypeOK, Finalize, FinalizeSuccess, FinalizeRetry, FinalizeError, Discard

(* An owner finalizes only a run whose execution is pending.               *)
LEMMA OwnedIsPending ==
    ASSUME TypeOK, StatusAgreement, NEW w \in Worker, NEW r \in Run, Owns(w, r)
    PROVE  run[r].status = "execution_pending" /\ op[r] = "executing"
<1>1. run[r].status \in RunStatus \cup {"absent"} /\ outbox[r].status = "processing"
  BY DEF TypeOK, StoreTypeOK, RunRow, Owns
<1>2. ~Dormant(r)
  BY <1>1 DEF Dormant, NoEvent
<1>3. ~Closed(r)
  BY WorkerAssumption DEF Closed, Owns
<1> QED BY <1>1, <1>2, <1>3 DEF StatusAgreement, RunStatus, Terminal, Waiting, Leased

(* A claimable event belongs to a run whose execution is pending.          *)
LEMMA ClaimableIsPending ==
    ASSUME TypeOK, StatusAgreement, NEW r \in Run, Claimable(r)
    PROVE  run[r].status = "execution_pending" /\ op[r] \in {"pending", "executing"}
<1>1. run[r].status \in RunStatus \cup {"absent"}
  BY DEF TypeOK, StoreTypeOK, RunRow
<1>2. outbox[r].status \in {"pending", "retry", "processing"}
  BY DEF Claimable
<1>3. ~Dormant(r)
  BY <1>2 DEF Dormant, NoEvent
<1>4. run[r].status \in Terminal => ~Closed(r)
  BY <1>2 DEF Closed, Terminal
<1> QED BY <1>1, <1>3, <1>4 DEF StatusAgreement, RunStatus, Terminal, Waiting, Leased

(* Any row whose columns a step leaves alone stays in agreement.           *)
Agrees(r) ==
    /\ run[r].status \in {"absent", "proposed", "approved", "rejected"} => Dormant(r)
    /\ run[r].status = "execution_pending" => Waiting(r) \/ Leased(r)
    /\ run[r].status \in Terminal => Closed(r)

(* A step that leaves the three rows of a run alone leaves their agreement.*)
LEMMA AgreesUnchanged ==
    ASSUME NEW r \in Run, Agrees(r), run'[r].status = run[r].status,
           op'[r] = op[r], outbox'[r] = outbox[r]
    PROVE  Agrees(r)'
BY DEF Agrees, Dormant, Waiting, Leased, Closed

(* Every step keeps run, operation and event in agreement.                 *)
LEMMA AgreementStep ==
    ASSUME TypeOK, StatusAgreement, [Next]_vars
    PROVE  StatusAgreement'
<1>a. StatusAgreement <=> \A r \in Run : Agrees(r)
  BY DEF StatusAgreement, Agrees
<1>b. StatusAgreement' <=> \A r \in Run : Agrees(r)'
  BY DEF StatusAgreement, Agrees, Dormant, Waiting, Leased, Closed
<1>t. /\ run \in [Run -> RunRow] /\ op \in [Run -> OpStatus \cup {"none"}]
      /\ outbox \in [Run -> EventRow]
  BY DEF TypeOK, StoreTypeOK, WorkerTypeOK
<1> SUFFICES ASSUME NEW r \in Run, Agrees(r) PROVE Agrees(r)'
  BY <1>a, <1>b
<1>u. ASSUME UNCHANGED <<run, op, outbox>> PROVE Agrees(r)'
  BY <1>u, AgreesUnchanged
<1>1. ASSUME NEW q \in Slot, CommitDryRun(q) \/ CommitFromMail(q) PROVE Agrees(r)'
  <2>1. PICK z \in Run : /\ run[z].status = "absent"
                         /\ \E b \in BOOLEAN : Proposed(req[q].sub, z, b)
    BY <1>1 DEF CommitDryRun, CommitFromMail, MailEligible
  <2>2. UNCHANGED <<op, outbox>>
    BY <1>1 DEF CommitDryRun, CommitFromMail
  <2>3. CASE r = z
    <3>1. run'[r].status = "proposed"
      BY <1>t, <2>1, <2>3 DEF Proposed, NoRun
    <3>2. Dormant(r)
      BY <2>1, <2>3 DEF Agrees
    <3> QED BY <2>2, <3>1, <3>2 DEF Agrees, Dormant, Terminal
  <2>4. CASE r # z
    BY <1>t, <2>1, <2>2, <2>4, AgreesUnchanged DEF Proposed
  <2> QED BY <2>3, <2>4
<1>2. ASSUME NEW q \in Slot, CommitApprove(q) \/ CommitReject(q) PROVE Agrees(r)'
  <2> DEFINE z == req[q].sub.target
  <2>1. UNCHANGED <<op, outbox>> /\ run[z].status = "proposed"
    BY <1>2 DEF CommitApprove, CommitReject, CasHolds
  <2>2. z \in Run
    BY <1>2, TransitionTarget
  <2>3. CASE r = z
    <3>1. run'[r].status \in {"approved", "rejected"}
      <4>1. run[z] \in RunRow
        BY <1>t, <2>2
      <4>2. CASE CommitApprove(q)
        BY <1>t, <2>2, <2>3, <4>1, <4>2 DEF CommitApprove, RunRow
      <4>3. CASE CommitReject(q)
        BY <1>t, <2>2, <2>3, <4>1, <4>3 DEF CommitReject, RunRow
      <4> QED BY <1>2, <4>2, <4>3
    <3>2. Dormant(r)
      BY <2>1, <2>3 DEF Agrees
    <3> QED BY <2>1, <3>1, <3>2 DEF Agrees, Dormant, Terminal
  <2>4. CASE r # z
    <3>1. run'[r] = run[r]
      BY <1>2, <1>t, <2>2, <2>4 DEF CommitApprove, CommitReject
    <3> QED BY <2>1, <3>1, AgreesUnchanged
  <2> QED BY <2>3, <2>4
<1>3. ASSUME NEW q \in Slot, CommitExecute(q) PROVE Agrees(r)'
  <2> DEFINE z == req[q].sub.target
  <2>1. z \in Run
    BY <1>3, TransitionTarget
  <2>2. CASE r = z
    <3>0. /\ run' = [run EXCEPT ![z].status = "execution_pending"]
          /\ op' = [op EXCEPT ![z] = "pending"]
          /\ outbox' = [outbox EXCEPT ![z] = [NoEvent EXCEPT !.status = "pending", !.due = TRUE]]
      BY <1>3 DEF CommitExecute
    <3>1. run'[r].status = "execution_pending" /\ op'[r] = "pending"
      BY <3>0, <1>t, <2>1, <2>2 DEF RunRow
    <3>2. outbox'[r].status = "pending" /\ outbox'[r].owner = None
      BY <3>0, <1>t, <2>1, <2>2 DEF NoEvent
    <3> QED BY <3>1, <3>2 DEF Agrees, Waiting, Terminal
  <2>3. CASE r # z
    BY <1>3, <1>t, <2>1, <2>3, AgreesUnchanged DEF CommitExecute
  <2> QED BY <2>2, <2>3
<1>4. ASSUME NEW w \in Worker, NEW z \in Run, Claim(w, z) PROVE Agrees(r)'
  <2>1. CASE r = z
    <3>1. run'[r].status = "execution_pending" /\ op'[r] = "executing"
      BY <1>4, <1>t, <2>1, ClaimableIsPending DEF Claim
    <3>2. outbox'[r].status = "processing" /\ outbox'[r].owner = w
      BY <1>4, <1>t, <2>1 DEF Claim, EventRow
    <3> QED BY <3>1, <3>2 DEF Agrees, Leased, Terminal
  <2>2. CASE r # z
    <3>1. run'[r] = run[r] /\ op'[r] = op[r] /\ outbox'[r] = outbox[r]
      BY <1>4, <1>t, <2>2 DEF Claim
    <3> QED BY <3>1, AgreesUnchanged
  <2> QED BY <2>1, <2>2
<1>5. ASSUME NEW z \in Run, NEW status \in Terminal, NEW code, Settle(z, status, code)
      PROVE  Agrees(r)'
  <2>1. CASE r = z
    <3>1. run'[r].status = status /\ op'[r] = status
      BY <1>5, <1>t, <2>1 DEF Settle, RunRow
    <3>2. /\ outbox'[r].owner = None
          /\ outbox'[r].status = IF status = "executed" THEN "processed" ELSE status
      BY <1>5, <1>t, <2>1 DEF Settle, Release, EventRow, EventOutcome
    <3> QED BY <3>1, <3>2 DEF Agrees, Closed, Terminal
  <2>2. CASE r # z
    <3>1. run'[r] = run[r] /\ op'[r] = op[r] /\ outbox'[r] = outbox[r]
      BY <1>5, <1>t, <2>2 DEF Settle, Release
    <3> QED BY <3>1, AgreesUnchanged
  <2> QED BY <2>1, <2>2
<1>6. ASSUME NEW w \in Worker, Finalize(w) PROVE Agrees(r)'
  <2> DEFINE z == worker[w].run
  <2>1. z \in Run
    BY <1>6, Finalized
  <2>2. CASE FinalizeSuccess(w)
    BY <1>5, <2>1, <2>2 DEF FinalizeSuccess, Terminal
  <2>3. CASE FinalizeError(w)
    <3>1. Settle(z, "failed", 502) \/ Settle(z, "unknown", 502)
      BY <2>3 DEF FinalizeError
    <3> QED BY <1>5, <2>1, <3>1 DEF Terminal
  <2>4. CASE FinalizeRetry(w)
    <3>1. CASE r = z
      <4>1. run'[r].status = "execution_pending" /\ op'[r] = "pending"
        BY <1>t, <2>1, <2>4, <3>1, OwnedIsPending DEF FinalizeRetry, Requeue
      <4>2. outbox'[r].owner = None /\ outbox'[r].status = "retry"
        <5>1. Release(z, "retry")
          BY <2>4 DEF FinalizeRetry
        <5>2. outbox'[r] = [outbox[r] EXCEPT !.status = "retry", !.owner = None, !.live = FALSE,
                                             !.due = @ /\ "retry" # "retry"]
          BY <5>1, <1>t, <2>1, <3>1 DEF Release
        <5>3. outbox[r] \in EventRow
          BY <1>t
        <5> QED BY <5>2, <5>3 DEF EventRow
      <4> QED BY <4>1, <4>2 DEF Agrees, Waiting, Terminal
    <3>2. CASE r # z
      <4>1. run'[r] = run[r] /\ op'[r] = op[r]
        BY <1>t, <2>1, <2>4, <3>2 DEF FinalizeRetry, Requeue
      <4>2. outbox'[r] = outbox[r]
        BY <1>t, <2>1, <2>4, <3>2 DEF FinalizeRetry, Release
      <4> QED BY <4>1, <4>2, AgreesUnchanged
    <3> QED BY <3>1, <3>2
  <2>5. CASE Discard(w)
    BY <1>u, <2>5 DEF Discard, storeVars
  <2> QED BY <1>6, <2>2, <2>3, <2>4, <2>5 DEF Finalize
<1>7. ASSUME NEW z \in Run, LeaseExpire(z) \/ Due(z) PROVE Agrees(r)'
  <2>1. CASE r = z
    <3>1. run' = run /\ op' = op /\ outbox'[r].status = outbox[r].status
          /\ outbox'[r].owner = outbox[r].owner
      BY <1>7, <1>t, <2>1 DEF LeaseExpire, Due, EventRow
    <3>2. ~Dormant(r)
      BY <1>7, <2>1 DEF LeaseExpire, Due, Dormant, NoEvent
    <3> QED BY <3>1, <3>2 DEF Agrees, Waiting, Leased, Closed
  <2>2. CASE r # z
    BY <1>7, <1>t, <2>2, AgreesUnchanged DEF LeaseExpire, Due
  <2> QED BY <2>1, <2>2
<1>8. CASE RequestNext /\ UNCHANGED workerVars
  <2>1. PICK q \in Slot : Begin(q) \/ Handle(q) \/ Respond(q) \/ Abort(q)
    BY <1>8 DEF RequestNext
  <2> QED BY <1>1, <1>2, <1>3, <1>u, <2>1, QuietRequest DEF Handle, storeVars
<1>9. CASE WorkerNext /\ UNCHANGED req
  <2>1. ASSUME NEW w \in Worker, Call(w) \/ Return(w) \/ Crash(w) PROVE Agrees(r)'
    BY <1>u, <2>1 DEF Call, Return, Crash, storeVars
  <2> QED BY <1>4, <1>6, <1>7, <1>9, <2>1 DEF WorkerNext
<1>10. CASE UNCHANGED vars
  BY <1>u, <1>10 DEF vars, storeVars
<1> QED BY <1>8, <1>9, <1>10 DEF Next

(* The run, its operation and its outbox event agree in every reachable    *)
(* state, for any number of requests and workers and however leases and    *)
(* processes are lost.                                                     *)
THEOREM StatusesAgree == Spec => []StatusAgreement
<1>1. Init => StatusAgreement
  BY DEF Init, StoreInit, StatusAgreement, Dormant, NoRun, Terminal
<1>2. TypeOK /\ StatusAgreement /\ [Next]_vars => StatusAgreement'
  BY AgreementStep
<1> QED BY <1>1, <1>2, TypeCorrect, PTL DEF Spec

-------------------------------------------------------------------------------
(* The inductive form of WriteOnlyAfterApproval.  A handler past its role  *)
(* check is authorized, a proposed run is undecided, and whatever has to   *)
(* do with execution (a call made, a worker at work) belongs to a run in   *)
(* or after execution, whose approval is on record.                        *)
Executing == {"execution_pending"} \cup Terminal
Approved(r) == run[r].status \in {"approved"} \cup Executing
InFlight(q) == req[q].pc \in {"read", "existing", "commit"}
DecisionHistory ==
    /\ \A q \in Slot : InFlight(q) => Authorized(req[q].sub)
    /\ \A r \in Run : run[r].status = "proposed" => run[r].rejecter = None
    /\ \A r \in Run : Approved(r) => ApprovedBy(r)
    /\ \A r \in Run : calls[r] > 0 => run[r].status \in Executing
    /\ \A r \in Run : run[r].status \in Terminal => calls[r] > 0
    /\ \A w \in Worker : worker[w].pc # "idle" => run[worker[w].run].status \in Executing
    /\ \A w \in Worker : worker[w].pc \in {"calling", "answered"} => calls[worker[w].run] > 0

(* What one step may do to the row of run r.                               *)
SameDecision(r) ==
    /\ run'[r].eligible = run[r].eligible /\ run'[r].tenant = run[r].tenant
    /\ run'[r].approver = run[r].approver /\ run'[r].rejecter = run[r].rejecter
ProposedNow(r) ==
    run[r].status = "absent" /\ run'[r].status = "proposed" /\ run'[r].rejecter = None
ApprovedNow(r, q) ==
    /\ req[q].pc = "commit" /\ req[q].sub.op = "run.approve" /\ req[q].sub.target = r
    /\ CasHolds(req[q].sub)
    /\ run'[r].status = "approved" /\ run'[r].approver = req[q].sub.principal
    /\ run'[r].eligible = run[r].eligible /\ run'[r].tenant = run[r].tenant
    /\ run'[r].rejecter = run[r].rejecter
RejectedNow(r) == run[r].status = "proposed" /\ run'[r].status = "rejected"
RequestedNow(r) ==
    run[r].status = "approved" /\ run'[r].status = "execution_pending" /\ SameDecision(r)
SettledNow(r) ==
    /\ run[r].status = "execution_pending" /\ run'[r].status \in Terminal /\ SameDecision(r)
    /\ \E w \in Worker : worker[w].pc = "answered" /\ worker[w].run = r
RowStep(r) ==
    \/ run'[r] = run[r] \/ ProposedNow(r) \/ (\E q \in Slot : ApprovedNow(r, q))
    \/ RejectedNow(r) \/ RequestedNow(r) \/ SettledNow(r)

(* Every step changes a row of runs in one of five ways only.              *)
LEMMA RowSteps ==
    ASSUME TypeOK, StatusAgreement, [Next]_vars, NEW r \in Run
    PROVE  RowStep(r)
<1>t. run \in [Run -> RunRow] /\ run[r] \in RunRow
  BY DEF TypeOK, StoreTypeOK
<1>1. ASSUME NEW q \in Slot, CommitDryRun(q) \/ CommitFromMail(q) PROVE RowStep(r)
  <2>1. PICK z \in Run : /\ run[z].status = "absent"
                         /\ \E b \in BOOLEAN : Proposed(req[q].sub, z, b)
    BY <1>1 DEF CommitDryRun, CommitFromMail, MailEligible
  <2>2. CASE r = z
    <3>1. run'[r].status = "proposed" /\ run'[r].rejecter = None
      BY <1>t, <2>1, <2>2 DEF Proposed, NoRun
    <3> QED BY <2>1, <2>2, <3>1 DEF RowStep, ProposedNow
  <2>3. CASE r # z
    BY <1>t, <2>1, <2>3 DEF RowStep, Proposed
  <2> QED BY <2>2, <2>3
<1>2. ASSUME NEW q \in Slot, CommitApprove(q) PROVE RowStep(r)
  <2>1. req[q].sub.target \in Run
    BY <1>2, TransitionTarget
  <2>2. CASE r = req[q].sub.target
    <3>1. /\ run'[r].status = "approved" /\ run'[r].approver = req[q].sub.principal
          /\ run'[r].eligible = run[r].eligible /\ run'[r].tenant = run[r].tenant
          /\ run'[r].rejecter = run[r].rejecter
      BY <1>2, <1>t, <2>1, <2>2 DEF CommitApprove, RunRow
    <3> QED BY <1>2, <2>2, <3>1 DEF RowStep, ApprovedNow, CommitApprove
  <2>3. CASE r # req[q].sub.target
    BY <1>2, <1>t, <2>1, <2>3 DEF RowStep, CommitApprove
  <2> QED BY <2>2, <2>3
<1>3. ASSUME NEW q \in Slot, CommitReject(q) PROVE RowStep(r)
  <2>1. req[q].sub.target \in Run
    BY <1>3, TransitionTarget
  <2>2. CASE r = req[q].sub.target
    <3>1. run'[r].status = "rejected" /\ run[r].status = "proposed"
      BY <1>3, <1>t, <2>1, <2>2 DEF CommitReject, CasHolds, RunRow
    <3> QED BY <3>1 DEF RowStep, RejectedNow
  <2>3. CASE r # req[q].sub.target
    BY <1>3, <1>t, <2>1, <2>3 DEF RowStep, CommitReject
  <2> QED BY <2>2, <2>3
<1>4. ASSUME NEW q \in Slot, CommitExecute(q) PROVE RowStep(r)
  <2>1. req[q].sub.target \in Run
    BY <1>4, TransitionTarget
  <2>2. CASE r = req[q].sub.target
    <3>1. run'[r].status = "execution_pending" /\ run[r].status = "approved"
      BY <1>4, <1>t, <2>1, <2>2 DEF CommitExecute, CasHolds, RunRow
    <3>2. SameDecision(r)
      BY <1>4, <1>t, <2>1, <2>2 DEF CommitExecute, SameDecision, RunRow
    <3> QED BY <3>1, <3>2 DEF RowStep, RequestedNow
  <2>3. CASE r # req[q].sub.target
    BY <1>4, <1>t, <2>1, <2>3 DEF RowStep, CommitExecute
  <2> QED BY <2>2, <2>3
<1>5. ASSUME NEW w \in Worker, worker[w].pc = "answered", Owns(w, worker[w].run),
             NEW status \in Terminal, NEW code, Settle(worker[w].run, status, code)
      PROVE  RowStep(r)
  <2>1. worker[w].run \in Run
    BY <1>5 DEF TypeOK, WorkerTypeOK
  <2>2. CASE r = worker[w].run
    <3>1. run'[r].status = status /\ run[r].status = "execution_pending"
      BY <1>5, <1>t, <2>1, <2>2, OwnedIsPending DEF Settle, RunRow
    <3>2. SameDecision(r)
      BY <1>5, <1>t, <2>1, <2>2 DEF Settle, SameDecision, RunRow
    <3> QED BY <1>5, <2>2, <3>1, <3>2 DEF RowStep, SettledNow
  <2>3. CASE r # worker[w].run
    BY <1>5, <1>t, <2>1, <2>3 DEF RowStep, Settle
  <2> QED BY <2>2, <2>3
<1>6. ASSUME NEW w \in Worker, Finalize(w) PROVE RowStep(r)
  <2>1. CASE FinalizeSuccess(w)
    BY <1>5, <2>1 DEF FinalizeSuccess, Terminal
  <2>2. CASE FinalizeError(w)
    <3>1. Settle(worker[w].run, "failed", 502) \/ Settle(worker[w].run, "unknown", 502)
      BY <2>2 DEF FinalizeError
    <3> QED BY <1>5, <2>2, <3>1 DEF FinalizeError, Terminal
  <2>3. CASE FinalizeRetry(w) \/ Discard(w)
    BY <2>3 DEF FinalizeRetry, Discard, storeVars, RowStep
  <2> QED BY <1>6, <2>1, <2>2, <2>3 DEF Finalize
<1>7. CASE RequestNext /\ UNCHANGED workerVars
  <2>1. PICK q \in Slot : Begin(q) \/ Handle(q) \/ Respond(q) \/ Abort(q)
    BY <1>7 DEF RequestNext
  <2>2. UNCHANGED run => RowStep(r)
    BY DEF RowStep
  <2> QED BY <1>1, <1>2, <1>3, <1>4, <2>1, <2>2, QuietRequest DEF Handle, storeVars
<1>8. CASE WorkerNext /\ UNCHANGED req
  <2>1. CASE \E w \in Worker : Finalize(w)
    BY <1>6, <2>1
  <2>2. CASE UNCHANGED run
    BY <2>2 DEF RowStep
  <2>3. ASSUME NEW w \in Worker, Call(w) \/ Return(w) \/ Crash(w) PROVE UNCHANGED run
    BY <2>3 DEF Call, Return, Crash, storeVars
  <2>4. ASSUME NEW z \in Run, LeaseExpire(z) \/ Due(z) \/ \E w \in Worker : Claim(w, z)
        PROVE  UNCHANGED run
    BY <2>4 DEF LeaseExpire, Due, Claim
  <2> QED BY <1>8, <2>1, <2>2, <2>3, <2>4 DEF WorkerNext
<1>9. CASE UNCHANGED vars
  BY <1>9 DEF vars, storeVars, RowStep
<1> QED BY <1>7, <1>8, <1>9 DEF Next

(* What one step may do to a worker: it works on no run but one that it    *)
(* has just claimed or was working on.                                     *)
LEMMA WorkerSteps ==
    ASSUME TypeOK, StatusAgreement, DecisionHistory, [Next]_vars
    PROVE  /\ \A r \in Run : calls'[r] > 0 => run[r].status \in Executing
           /\ \A r \in Run : calls[r] > 0 => calls'[r] > 0
           /\ \A w \in Worker : worker'[w].pc # "idle" =>
                 run[worker'[w].run].status \in Executing /\ worker'[w].run \in Run
           /\ \A w \in Worker : worker'[w].pc \in {"calling", "answered"} =>
                 calls'[worker'[w].run] > 0
<1> DEFINE Goal == /\ \A r \in Run : calls'[r] > 0 => run[r].status \in Executing
                   /\ \A r \in Run : calls[r] > 0 => calls'[r] > 0
                   /\ \A w \in Worker : worker'[w].pc # "idle" =>
                         run[worker'[w].run].status \in Executing /\ worker'[w].run \in Run
                   /\ \A w \in Worker : worker'[w].pc \in {"calling", "answered"} =>
                         calls'[worker'[w].run] > 0
<1>t. /\ worker \in [Worker -> [pc : WorkerPc, run : Run \cup {None},
                                outcome : Outcome \cup {None}]]
      /\ calls \in [Run -> Nat]
      /\ \A w \in Worker : worker[w].pc # "idle" => worker[w].run \in Run
  BY DEF TypeOK, WorkerTypeOK
<1>h. /\ \A r \in Run : calls[r] > 0 => run[r].status \in Executing
      /\ \A w \in Worker : worker[w].pc # "idle" => run[worker[w].run].status \in Executing
      /\ \A w \in Worker : worker[w].pc \in {"calling", "answered"} => calls[worker[w].run] > 0
  BY DEF DecisionHistory
<1>u. ASSUME UNCHANGED workerVars PROVE Goal
  BY <1>t, <1>h, <1>u DEF workerVars
<1>1. ASSUME NEW w \in Worker, NEW r \in Run, Claim(w, r) PROVE Goal
  <2>1. run[r].status \in Executing
    BY <1>1, ClaimableIsPending DEF Claim, Executing
  <2>2. calls' = calls /\ worker' = [worker EXCEPT ![w] = [pc |-> "claimed", run |-> r,
                                                          outcome |-> None]]
    BY <1>1 DEF Claim
  <2> QED BY <1>t, <1>h, <2>1, <2>2
<1>2. ASSUME NEW w \in Worker, Call(w) PROVE Goal
  <2>1. worker[w].pc = "claimed" /\ worker[w].run \in Run
    BY <1>2, <1>t DEF Call
  <2>2. /\ calls' = [calls EXCEPT ![worker[w].run] = calls[worker[w].run] + 1]
        /\ worker' = [worker EXCEPT ![w] = [worker[w] EXCEPT !.pc = "calling"]]
    BY <1>2, <1>t, <2>1 DEF Call
  <2>3. \A r \in Run : calls'[r] >= calls[r] /\ (calls'[r] # calls[r] => r = worker[w].run)
    BY <1>t, <2>1, <2>2
  <2>4. calls'[worker[w].run] > 0
    BY <1>t, <2>1, <2>2
  <2>5. \A v \in Worker : worker'[v].run = worker[v].run /\ (v # w => worker'[v] = worker[v])
    BY <1>t, <2>2
  <2>6. \A r \in Run : calls[r] \in Nat /\ calls'[r] \in Nat
    BY <1>t, <2>1, <2>2
  <2> QED BY <1>t, <1>h, <2>1, <2>3, <2>4, <2>5, <2>6
<1>3. ASSUME NEW w \in Worker, Return(w) PROVE Goal
  <2>1. calls' = calls /\ worker[w].pc = "calling"
    BY <1>3 DEF Return
  <2>2. PICK outcome : worker' = [worker EXCEPT ![w] =
                          [worker[w] EXCEPT !.pc = "answered", !.outcome = outcome]]
    BY <1>3, <1>t DEF Return
  <2>3. \A v \in Worker : worker'[v].run = worker[v].run /\ (v # w => worker'[v] = worker[v])
    BY <1>t, <2>2
  <2> QED BY <1>t, <1>h, <2>1, <2>3
<1>4. ASSUME NEW w \in Worker, Rest(w), UNCHANGED calls PROVE Goal
  BY <1>t, <1>h, <1>4 DEF Rest, Resting
<1>5. ASSUME NEW w \in Worker, Finalize(w) \/ Crash(w) PROVE Goal
  <2>1. Rest(w) /\ UNCHANGED calls
    BY <1>5 DEF Finalize, FinalizeSuccess, FinalizeError, FinalizeRetry, Discard, Settle, Crash
  <2> QED BY <1>4, <2>1
<1>6. ASSUME NEW r \in Run, LeaseExpire(r) \/ Due(r) PROVE Goal
  BY <1>u, <1>6 DEF LeaseExpire, Due
<1>7. Goal
  BY <1>u, <1>1, <1>2, <1>3, <1>5, <1>6 DEF Next, WorkerNext, vars
<1> QED BY <1>7

(* A handler past its role check stays the handler of the same request.    *)
LEMMA HandlerSteps ==
    ASSUME TypeOK, [Next]_vars, \A q \in Slot : InFlight(q) => Authorized(req[q].sub)
    PROVE  \A q \in Slot : InFlight(q)' => Authorized(req'[q].sub)
<1>t. req \in [Slot -> [pc : Pc, sub : Submission \cup {None}, reply : Reply \cup {None}]]
  BY DEF TypeOK, RequestTypeOK
<1> SUFFICES ASSUME NEW q \in Slot, InFlight(q)' PROVE Authorized(req'[q].sub)
  OBVIOUS
<1>u. ASSUME req'[q] = req[q] PROVE Authorized(req'[q].sub)
  BY <1>u DEF InFlight
<1>1. ASSUME NEW z \in Slot, Begin(z) PROVE Authorized(req'[q].sub)
  <2>1. PICK s \in Submission : req' = [req EXCEPT ![z] =
             IF ~Authorized(s)
             THEN [pc |-> "done", sub |-> s, reply |-> Refused(403, "insufficient_role")]
             ELSE IF Replay(s) # None
             THEN [pc |-> "done", sub |-> s, reply |-> Replay(s)]
             ELSE [pc |-> "read", sub |-> s, reply |-> None]]
    BY <1>1 DEF Begin
  <2>2. CASE q = z
    <3>1. req'[q].sub = s /\ (req'[q].pc = "done" \/ Authorized(s))
      BY <1>t, <2>1, <2>2
    <3> QED BY <3>1 DEF InFlight
  <2>3. CASE q # z
    BY <1>t, <1>u, <2>1, <2>3
  <2> QED BY <2>2, <2>3
<1>2. ASSUME NEW z \in Slot, NEW pc \in {"existing", "commit"}, Goto(z, pc), InFlight(z)
      PROVE  Authorized(req'[q].sub)
  <2>1. CASE q = z
    BY <1>t, <1>2, <2>1 DEF Goto
  <2>2. CASE q # z
    BY <1>t, <1>u, <1>2, <2>2 DEF Goto
  <2> QED BY <2>1, <2>2
<1>3. ASSUME NEW z \in Slot, NEW reply, Answer(z, reply) PROVE Authorized(req'[q].sub)
  <2>1. q # z
    BY <1>t, <1>3 DEF Answer, InFlight
  <2> QED BY <1>t, <1>u, <1>3, <2>1 DEF Answer
<1>4. ASSUME NEW z \in Slot, Respond(z) \/ Abort(z) PROVE Authorized(req'[q].sub)
  <2>1. q # z
    BY <1>t, <1>4 DEF Respond, Abort, Idle, InFlight
  <2> QED BY <1>t, <1>u, <1>4, <2>1 DEF Respond, Abort
<1>5. ASSUME NEW z \in Slot, Read(z) \/ ReadExisting(z) PROVE Authorized(req'[q].sub)
  <2>1. InFlight(z)
    BY <1>5 DEF Read, ReadExisting, InFlight
  <2>2. (\E reply : Answer(z, reply)) \/ Goto(z, "existing") \/ Goto(z, "commit")
    BY <1>5 DEF Read, ReadExisting
  <2> QED BY <1>2, <1>3, <2>1, <2>2
<1>6. ASSUME NEW z \in Slot, Handle(z), ~Read(z), ~ReadExisting(z)
      PROVE  Authorized(req'[q].sub)
  <2>1. \E reply : Answer(z, reply)
    <3>1. CASE CommitDryRun(z) \/ CommitFromMail(z) \/ CreationConflict(z)
      BY <3>1 DEF CommitDryRun, CommitFromMail, CreationConflict
    <3>2. CASE \/ CommitApprove(z) \/ CommitReject(z)
               \/ CommitExecute(z) \/ TransitionConflict(z)
      BY <3>2 DEF CommitApprove, CommitReject, CommitExecute, TransitionConflict
    <3> QED BY <1>6, <3>1, <3>2 DEF Handle
  <2> QED BY <1>3, <2>1
<1>7. CASE UNCHANGED req
  BY <1>u, <1>7
<1> QED BY <1>1, <1>4, <1>5, <1>6, <1>7 DEF Next, RequestNext, vars

(* Every step keeps the decisions recorded: rows name their approvers, and *)
(* handlers and workers beyond a check met it.                             *)
LEMMA DecisionStep ==
    ASSUME TypeOK, StatusAgreement, DecisionHistory, [Next]_vars
    PROVE  DecisionHistory'
<1>1. \A q \in Slot : InFlight(q)' => Authorized(req'[q].sub)
  BY HandlerSteps DEF DecisionHistory
<1>2. ASSUME NEW r \in Run PROVE RowStep(r)
  BY RowSteps
<1>3. ASSUME NEW r \in Run, run'[r].status = "proposed" PROVE run'[r].rejecter = None
  BY <1>2, <1>3
     DEF RowStep, ProposedNow, ApprovedNow, RejectedNow, RequestedNow, SettledNow,
         Terminal, DecisionHistory
<1>4. ASSUME NEW r \in Run, Approved(r)' PROVE ApprovedBy(r)'
  <2>1. CASE run'[r] = run[r]
    BY <1>4, <2>1 DEF DecisionHistory, Approved, ApprovedBy
  <2>2. CASE \E q \in Slot : ApprovedNow(r, q)
    <3>1. PICK q \in Slot : ApprovedNow(r, q)
      BY <2>2
    <3> DEFINE s == req[q].sub
    <3>2. s \in Submission /\ s.principal \in Principal
      BY <3>1, SubmissionAssumption DEF TypeOK, RequestTypeOK, ApprovedNow
    <3>3. RolesOf[s.principal] \cap {"owner", "approver"} # {}
      <4>1. Authorized(s)
        BY <3>1 DEF DecisionHistory, InFlight, ApprovedNow
      <4>2. AllowedRoles("run.approve") = {"owner", "approver"}
        BY DEF AllowedRoles
      <4> QED BY <3>1, <4>1, <4>2 DEF Authorized, ApprovedNow
    <3>4. /\ run[r].status = "proposed" /\ run[r].eligible
          /\ run[r].tenant = TenantOf[s.principal]
      BY <3>1 DEF ApprovedNow, CasHolds, Visible, TenantOfRequest
    <3>5. run[r].rejecter = None
      BY <3>4 DEF DecisionHistory
    <3>6. s.principal # None
      BY <3>2, NoneAssumption
    <3> QED BY <3>1, <3>3, <3>4, <3>5, <3>6 DEF ApprovedNow, ApprovedBy
  <2>3. CASE RequestedNow(r) \/ SettledNow(r)
    <3>1. ApprovedBy(r)
      BY <2>3 DEF DecisionHistory, RequestedNow, SettledNow, Approved, Executing
    <3> QED BY <2>3, <3>1 DEF RequestedNow, SettledNow, SameDecision, ApprovedBy
  <2>4. ~ProposedNow(r) /\ ~RejectedNow(r)
    BY <1>4 DEF ProposedNow, RejectedNow, Approved, Executing, Terminal
  <2> QED BY <1>2, <2>1, <2>2, <2>3, <2>4 DEF RowStep
<1>5. ASSUME NEW r \in Run, run[r].status \in Executing PROVE run'[r].status \in Executing
  BY <1>2, <1>5
     DEF RowStep, ProposedNow, ApprovedNow, CasHolds, RejectedNow, RequestedNow, SettledNow,
         Executing, Terminal
<1>6. /\ \A r \in Run : calls'[r] > 0 => run'[r].status \in Executing
      /\ \A w \in Worker : worker'[w].pc # "idle" => run'[worker'[w].run].status \in Executing
      /\ \A w \in Worker : worker'[w].pc \in {"calling", "answered"} =>
            calls'[worker'[w].run] > 0
  BY <1>5, WorkerSteps
<1>7. ASSUME NEW r \in Run, run'[r].status \in Terminal PROVE calls'[r] > 0
  <2>1. CASE run'[r] = run[r]
    BY <1>7, <2>1, WorkerSteps DEF DecisionHistory
  <2>2. CASE SettledNow(r)
    BY <2>2, WorkerSteps DEF SettledNow, DecisionHistory
  <2> QED BY <1>2, <1>7, <2>1, <2>2
          DEF RowStep, ProposedNow, ApprovedNow, RejectedNow, RequestedNow, Terminal
<1> QED BY <1>1, <1>3, <1>4, <1>6, <1>7 DEF DecisionHistory, InFlight, Authorized

(* Types, agreement and recorded decisions hold together in every reachable state.*)
LEMMA DecisionsRecorded == Spec => [](TypeOK /\ StatusAgreement /\ DecisionHistory)
<1>1. Init => DecisionHistory
  BY DEF Init, StoreInit, RequestInit, WorkerInit, Idle, Resting, NoRun, DecisionHistory,
         InFlight, Approved, Executing, Terminal
<1>2. TypeOK /\ StatusAgreement /\ DecisionHistory /\ [Next]_vars => DecisionHistory'
  BY DecisionStep
<1> QED BY <1>1, <1>2, TypeCorrect, StatusesAgree, PTL DEF Spec

(* No connector is ever called, and no run ever settled, without the       *)
(* approval of an owner or approver of the run's tenant.                   *)
THEOREM CallsAreApproved == Spec => []WriteOnlyAfterApproval
<1>1. TypeOK /\ DecisionHistory => WriteOnlyAfterApproval
  BY DEF TypeOK, WorkerTypeOK, DecisionHistory, WriteOnlyAfterApproval, Approved, Executing
<1> QED BY <1>1, DecisionsRecorded, PTL

-------------------------------------------------------------------------------
(* A step writes the row of one run, or makes one call for a run that a    *)
(* worker has claimed, or does neither.                                    *)
LEMMA OneRowAtATime ==
    ASSUME TypeOK, [Next]_vars
    PROVE  \/ UNCHANGED <<run, calls>>
           \/ UNCHANGED calls /\ \E z \in Run : \A r \in Run \ {z} : run'[r] = run[r]
           \/ /\ UNCHANGED run
              /\ \E w \in Worker :
                    /\ worker[w].pc = "claimed"
                    /\ calls' = [calls EXCEPT ![worker[w].run] = @ + 1]
<1> DEFINE Written == \E z \in Run : \A r \in Run \ {z} : run'[r] = run[r]
<1>t. run \in [Run -> RunRow]
  BY DEF TypeOK, StoreTypeOK
<1>1. ASSUME NEW q \in Slot, CommitDryRun(q) \/ CommitFromMail(q) PROVE Written
  <2>1. PICK z \in Run : \E b \in BOOLEAN : Proposed(req[q].sub, z, b)
    BY <1>1 DEF CommitDryRun, CommitFromMail, MailEligible
  <2> QED BY <1>t, <2>1 DEF Proposed
<1>2. ASSUME NEW q \in Slot, CommitApprove(q) \/ CommitReject(q) \/ CommitExecute(q)
      PROVE  Written
  <2>1. req[q].sub.target \in Run
    BY <1>2, TransitionTarget
  <2>2. \A r \in Run \ {req[q].sub.target} : run'[r] = run[r]
    BY <1>2, <1>t, <2>1 DEF CommitApprove, CommitReject, CommitExecute
  <2> QED BY <2>1, <2>2
<1>3. ASSUME NEW w \in Worker, Finalize(w) PROVE UNCHANGED calls /\ (Written \/ UNCHANGED run)
  <2>1. worker[w].run \in Run
    BY <1>3, Finalized
  <2>2. CASE FinalizeSuccess(w) \/ FinalizeError(w)
    <3>1. PICK status, code : Settle(worker[w].run, status, code)
      BY <2>2 DEF FinalizeSuccess, FinalizeError
    <3>2. \A r \in Run \ {worker[w].run} : run'[r] = run[r]
      BY <1>t, <3>1 DEF Settle
    <3> QED BY <2>1, <3>1, <3>2 DEF Settle
  <2>3. CASE FinalizeRetry(w) \/ Discard(w)
    BY <2>3 DEF FinalizeRetry, Discard, storeVars
  <2> QED BY <1>3, <2>2, <2>3 DEF Finalize
<1>4. CASE RequestNext /\ UNCHANGED workerVars
  <2>1. PICK q \in Slot : Begin(q) \/ Handle(q) \/ Respond(q) \/ Abort(q)
    BY <1>4 DEF RequestNext
  <2> QED BY <1>1, <1>2, <1>4, <2>1, QuietRequest DEF Handle, storeVars, workerVars
<1>5. CASE WorkerNext /\ UNCHANGED req
  <2>1. ASSUME NEW w \in Worker, Return(w) \/ Crash(w) PROVE UNCHANGED <<run, calls>>
    BY <2>1 DEF Return, Crash, storeVars
  <2>2. ASSUME NEW z \in Run, LeaseExpire(z) \/ Due(z) \/ \E w \in Worker : Claim(w, z)
        PROVE  UNCHANGED <<run, calls>>
    BY <2>2 DEF LeaseExpire, Due, Claim, workerVars
  <2>3. ASSUME NEW w \in Worker, Call(w)
        PROVE  /\ UNCHANGED run /\ worker[w].pc = "claimed"
               /\ calls' = [calls EXCEPT ![worker[w].run] = @ + 1]
    BY <2>3 DEF Call, storeVars
  <2> QED BY <1>3, <1>5, <2>1, <2>2, <2>3 DEF WorkerNext
<1>6. CASE UNCHANGED vars
  BY <1>6 DEF vars, storeVars, workerVars
<1> QED BY <1>4, <1>5, <1>6 DEF Next

(* Every step of the platform is a step of a governed run or none.         *)
LEMMA GovernedStep ==
    ASSUME TypeOK, StatusAgreement, DecisionHistory, [Next]_vars
    PROVE  [Governed!Next]_<<[r \in Run |-> run[r].status], [r \in Run |-> calls[r] > 0]>>
<1> DEFINE stage == [r \in Run |-> run[r].status]
           touched == [r \in Run |-> calls[r] > 0]
<1>1. CASE UNCHANGED <<run, calls>>
  BY <1>1
<1>2. ASSUME UNCHANGED calls, NEW z \in Run, \A r \in Run \ {z} : run'[r] = run[r]
      PROVE  Governed!Next \/ UNCHANGED <<stage, touched>>
  <2>1. touched' = touched
    BY <1>2
  <2>2. stage' = [stage EXCEPT ![z] = run'[z].status] /\ stage[z] = run[z].status
    BY <1>2
  <2>3. CASE run'[z] = run[z]
    BY <1>2, <2>1, <2>3
  <2>4. CASE ProposedNow(z)
    BY <2>1, <2>2, <2>4 DEF ProposedNow, Governed!Next, Governed!Propose, Governed!Move
  <2>5. CASE \E q \in Slot : ApprovedNow(z, q)
    <3>1. run[z].status = "proposed" /\ run'[z].status = "approved"
      BY <2>5 DEF ApprovedNow, CasHolds
    <3> QED BY <2>1, <2>2, <3>1 DEF Governed!Next, Governed!Decide, Governed!Move
  <2>6. CASE RejectedNow(z)
    BY <2>1, <2>2, <2>6 DEF RejectedNow, Governed!Next, Governed!Decide, Governed!Move
  <2>7. CASE RequestedNow(z)
    BY <2>1, <2>2, <2>7 DEF RequestedNow, Governed!Next, Governed!Request, Governed!Move
  <2>8. CASE SettledNow(z)
    <3>1. calls[z] > 0
      BY <2>8 DEF SettledNow, DecisionHistory
    <3>2. touched[z]
      BY <3>1
    <3> QED BY <2>1, <2>2, <2>8, <3>2
            DEF SettledNow, Governed!Next, Governed!Settle, Governed!Move, Governed!Outcomes,
                Terminal
  <2> QED BY <2>3, <2>4, <2>5, <2>6, <2>7, <2>8, RowSteps DEF RowStep
<1>3. ASSUME UNCHANGED run, NEW w \in Worker, worker[w].pc = "claimed",
             calls' = [calls EXCEPT ![worker[w].run] = @ + 1]
      PROVE  Governed!Next \/ UNCHANGED <<stage, touched>>
  <2> DEFINE z == worker[w].run
  <2>1. z \in Run /\ run[z].status \in Executing /\ calls \in [Run -> Nat]
    BY <1>3 DEF DecisionHistory, TypeOK, WorkerTypeOK
  <2>2. stage' = stage
    BY <1>3
  <2>3. touched' = [touched EXCEPT ![z] = TRUE]
    <3>1. calls'[z] > 0
      BY <1>3, <2>1
    <3>2. \A r \in Run : r # z => calls'[r] = calls[r]
      BY <1>3, <2>1
    <3>3. \A r \in Run : touched'[r] = [touched EXCEPT ![z] = TRUE][r]
      BY <2>1, <3>1, <3>2
    <3> QED BY <3>3
  <2>4. CASE run[z].status = "execution_pending"
    BY <2>1, <2>2, <2>3, <2>4 DEF Governed!Next, Governed!Touch
  <2>5. CASE run[z].status \in Terminal
    <3>1. calls[z] > 0
      BY <2>1, <2>5 DEF DecisionHistory
    <3>2. touched' = touched
      BY <2>1, <2>3, <3>1
    <3> QED BY <2>2, <3>2
  <2> QED BY <2>1, <2>4, <2>5 DEF Executing
<1> QED BY <1>1, <1>2, <1>3, OneRowAtATime

(* The platform implements GovernedRun.                                    *)
THEOREM PlatformIsGoverned == Spec => ImplementsGovernedRun
<1>1. Init => Governed!Init
  <2> SUFFICES ASSUME Init PROVE Governed!Init
    OBVIOUS
  <2>1. \A r \in Run : run[r].status = "absent" /\ (calls[r] > 0) = FALSE
    BY DEF Init, StoreInit, WorkerInit, NoRun
  <2> QED BY <2>1 DEF Governed!Init
<1>2. TypeOK /\ StatusAgreement /\ DecisionHistory /\ [Next]_vars
      => [Governed!Next]_<<[r \in Run |-> run[r].status], [r \in Run |-> calls[r] > 0]>>
  BY GovernedStep
<1> QED BY <1>1, <1>2, DecisionsRecorded, PTL DEF Spec, ImplementsGovernedRun, Governed!Spec
===============================================================================
