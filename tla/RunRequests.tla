----------------------------- MODULE RunRequests ------------------------------
(***************************************************************************)
(* The five mutations of a run over HTTP, v2/runs.py behind v2/routes.py.  *)
(* A handler looks its idempotency key up, reads the rows it needs and     *)
(* then commits a compare-and-set with the rows that go with it.  These    *)
(* are separate statements, so other requests and the worker run between   *)
(* them: each is a step of a request slot here.                            *)
(***************************************************************************)
EXTENDS RunStore

CONSTANTS
    Slot,        \* request handlers that may be in flight at a time
    Submission   \* the requests clients may send, and send again

ASSUME SubmissionAssumption ==
    Submission \subseteq [op : Operation, principal : Principal, key : Key,
                          target : Workflow \cup Run, source : Source \cup {None},
                          body : Body]
ASSUME TargetAssumption ==
    \A s \in Submission :
        /\ s.op \in Creation <=> s.target \in Workflow
        /\ s.op = "run.from_mail" <=> s.source \in Source
        /\ s.op = "run.execute" => s.body = "plain"

VARIABLE req     \* the handlers in flight, and the answer each has ready

Pc == {"idle", "read", "existing", "commit", "done"}
Detail == {"ok", "insufficient_role", "idempotency_key_reused", "workflow_not_found",
           "workflow_not_published", "demo_workflow_incompatible", "invalid_input",
           "order_source_already_claimed", "run_not_found", "approval_required",
           "invalid_state", "approval_not_eligible", "proposal_hash_mismatch",
           "connector_not_configured", "execution_already_claimed"}
Reply == [code : Code \cup {403, 404, 409}, detail : Detail, resource : Run \cup {None}]

Idle == [pc |-> "idle", sub |-> None, reply |-> None]

RequestTypeOK ==
    /\ req \in [Slot -> [pc : Pc, sub : Submission \cup {None}, reply : Reply \cup {None}]]
    /\ \A q \in Slot : /\ req[q].pc # "idle" => req[q].sub \in Submission
                       /\ req[q].pc = "done" => req[q].reply \in Reply
                       /\ req[q].pc = "existing" => req[q].sub.op = "run.execute"

RequestInit == req = [q \in Slot |-> Idle]

-------------------------------------------------------------------------------
(* The roles each route asks for: OperatorContext, MailPreparerContext,    *)
(* ApproverContext and ExecutorContext.                                    *)
AllowedRoles(operation) ==
    CASE operation = "run.dry_run" -> {"owner", "builder", "operator"}
      [] operation = "run.from_mail" -> {"owner", "operator"}
      [] operation \in {"run.approve", "run.reject"} -> {"owner", "approver"}
      [] operation = "run.execute" -> {"owner", "operator"}

Authorized(s) == RolesOf[s.principal] \cap AllowedRoles(s.op) # {}

TenantOfRequest(s) == TenantOf[s.principal]
ScopeOf(s) == <<TenantOfRequest(s), s.op, s.key>>
HashOf(s) == [target |-> s.target, source |-> s.source, body |-> s.body]
ClaimOf(s) == <<TenantOfRequest(s), s.source>>

Accepted(code, r) == [code |-> code, detail |-> "ok", resource |-> r]
Refused(code, detail) == [code |-> code, detail |-> detail, resource |-> None]

(* _find_replay: the recorded answer of the same actor and payload, a      *)
(* conflict for any other use of the key, None when the key is unused.     *)
Matches_KeyAlone(rec, s) == rec # None
Matches(rec, s) == rec # None /\ rec.actor = s.principal /\ rec.hash = HashOf(s)
Replay(s) ==
    LET rec == idem[ScopeOf(s)] IN
    IF rec = None THEN None
    ELSE IF Matches(rec, s) THEN Accepted(rec.code, rec.resource)
    ELSE Refused(409, "idempotency_key_reused")

ReplayOr(s, reply) == IF Replay(s) # None THEN Replay(s) ELSE reply

(* The unique constraints whose IntegrityError undoes a commit: one record *)
(* per scope (uq_idempotency_v2_scope), one claim per source message of a  *)
(* tenant (uq_order_source_claims_source).                                 *)
KeyFree_Unconstrained(s) == TRUE
KeyFree(s) == idem[ScopeOf(s)] = None
SourceFree_Unconstrained(s) == TRUE
SourceFree(s) == claims[ClaimOf(s)] = None

(* _remember                                                               *)
Remember(s, code, r) ==
    idem' = [idem EXCEPT ![ScopeOf(s)] =
                [actor |-> s.principal, hash |-> HashOf(s), code |-> code, resource |-> r]]

(* _run: a run of another tenant is not found.                             *)
Visible(s) == run[s.target].status # "absent" /\ run[s.target].tenant = TenantOfRequest(s)

Answer(q, reply) == req' = [req EXCEPT ![q].pc = "done", ![q].reply = reply]
Goto(q, pc) == req' = [req EXCEPT ![q].pc = pc]

-------------------------------------------------------------------------------
(* The route's role check, then the handler's _find_replay.                *)
Begin(q) ==
    /\ req[q].pc = "idle"
    /\ \E s \in Submission :
          req' = [req EXCEPT ![q] =
             IF ~Authorized(s)
             THEN [pc |-> "done", sub |-> s, reply |-> Refused(403, "insufficient_role")]
             ELSE IF Replay(s) # None
             THEN [pc |-> "done", sub |-> s, reply |-> Replay(s)]
             ELSE [pc |-> "read", sub |-> s, reply |-> None]]
    /\ UNCHANGED storeVars

(* _published_stack and the checks on the input: why a workflow cannot     *)
(* prepare a run from submission s, None when it can.                      *)
StackError(s) ==
    IF WorkflowTenant[s.target] # TenantOfRequest(s) THEN Refused(404, "workflow_not_found")
    ELSE IF ConnectorOf[s.target] = None THEN Refused(409, "workflow_not_published")
    ELSE IF s.op = "run.from_mail" /\ ConnectorOf[s.target] # "simulated_erp"
         THEN Refused(409, "demo_workflow_incompatible")
    ELSE IF s.body = "invalid" THEN Refused(409, "invalid_input")
    ELSE None

(* The checks of approve_run, reject_run and execute_run on the run they   *)
(* read, in the order they are made.                                       *)
DecisionError(s) ==
    IF run[s.target].status # "proposed" THEN Refused(409, "invalid_state")
    ELSE IF s.op = "run.approve" /\ ~run[s.target].eligible
         THEN Refused(409, "approval_not_eligible")
    ELSE IF s.op = "run.approve" /\ s.body # "same_hash"
         THEN Refused(409, "proposal_hash_mismatch")
    ELSE None

ExecuteError(s) ==
    IF run[s.target].status = "proposed" THEN Refused(409, "approval_required")
    ELSE IF run[s.target].status # "approved" THEN Refused(409, "invalid_state")
    ELSE IF run[s.target].connector = "m365_mail_intake_v1"
            /\ TenantOfRequest(s) \notin M365Tenant
         THEN Refused(409, "connector_not_configured")
    ELSE None

(* Why the handler of s refuses on what it reads before its commit, None   *)
(* when it goes on.                                                        *)
ReadError(s) ==
    IF s.op = "run.from_mail" /\ claims[ClaimOf(s)] # None
    THEN Refused(409, "order_source_already_claimed")
    ELSE IF s.op \in Creation THEN StackError(s)
    ELSE IF ~Visible(s) THEN Refused(404, "run_not_found")
    ELSE IF s.op = "run.execute" THEN ExecuteError(s)
    ELSE DecisionError(s)

Read(q) ==
    LET s == req[q].sub IN
    /\ req[q].pc = "read"
    /\ IF ReadError(s) # None THEN Answer(q, ReadError(s))
       ELSE Goto(q, IF s.op = "run.execute" THEN "existing" ELSE "commit")
    /\ UNCHANGED storeVars

(* execute_run's second SELECT: an operation that exists already.          *)
ReadExisting(q) ==
    /\ req[q].pc = "existing"
    /\ IF op[req[q].sub.target] # "none"
       THEN Answer(q, Refused(409, "execution_already_claimed"))
       ELSE Goto(q, "commit")
    /\ UNCHANGED storeVars

-------------------------------------------------------------------------------
(* _new_proposed_run and _stage_proposed_run: the row of a new run r and   *)
(* its first audit event.                                                  *)
Proposed(s, r, eligible) ==
    /\ run' = [run EXCEPT ![r] = [NoRun EXCEPT !.status = "proposed",
                                    !.tenant = TenantOfRequest(s),
                                    !.connector = ConnectorOf[s.target],
                                    !.eligible = eligible]]
    /\ Audited(r, "run_proposed", s.principal)

CommitDryRun(q) ==
    LET s == req[q].sub IN
    /\ req[q].pc = "commit" /\ s.op = "run.dry_run" /\ KeyFree(s)
    /\ \E r \in Run :
          /\ run[r].status = "absent"
          /\ Proposed(s, r, TRUE)
          /\ Remember(s, 201, r)
          /\ Answer(q, Accepted(201, r))
    /\ UNCHANGED <<op, outbox, claims>>

MailEligible_Always(s) == TRUE
MailEligible(s) == s.body = "matched"

(* create_run_from_mail also inserts the claim on the source message; only *)
(* an order that reconciles may be approved.                               *)
CommitFromMail(q) ==
    LET s == req[q].sub IN
    /\ req[q].pc = "commit" /\ s.op = "run.from_mail" /\ KeyFree(s)
    /\ SourceFree(s)
    /\ \E r \in Run :
          /\ run[r].status = "absent"
          /\ Proposed(s, r, MailEligible(s))
          /\ claims' = [claims EXCEPT ![ClaimOf(s)] = r]
          /\ Remember(s, 201, r)
          /\ Answer(q, Accepted(201, r))
    /\ UNCHANGED <<op, outbox>>

(* The rollback of a creation: the recorded answer, or the conflict on the *)
(* source claimed meanwhile.                                               *)
CreationConflict(q) ==
    LET s == req[q].sub IN
    /\ req[q].pc = "commit" /\ s.op \in Creation
    /\ ~KeyFree(s) \/ (s.op = "run.from_mail" /\ ~SourceFree(s))
    /\ Answer(q, ReplayOr(s, Refused(409, "order_source_already_claimed")))
    /\ UNCHANGED storeVars

(* _cas_run_status: the run is still in the state the transition leaves.   *)
CasHolds_AnyStatus(s) == Visible(s) /\ (s.op = "run.approve" => run[s.target].eligible)
CasHolds(s) ==
    /\ Visible(s)
    /\ run[s.target].status = IF s.op = "run.execute" THEN "approved" ELSE "proposed"
    /\ s.op = "run.approve" => run[s.target].eligible

CommitApprove(q) ==
    LET s == req[q].sub
        r == s.target IN
    /\ req[q].pc = "commit" /\ s.op = "run.approve" /\ CasHolds(s) /\ KeyFree(s)
    /\ run' = [run EXCEPT ![r].status = "approved", ![r].approver = s.principal]
    /\ Audited(r, "run_approved", s.principal)
    /\ Remember(s, 200, r)
    /\ Answer(q, Accepted(200, r))
    /\ UNCHANGED <<op, outbox, claims>>

CommitReject(q) ==
    LET s == req[q].sub
        r == s.target IN
    /\ req[q].pc = "commit" /\ s.op = "run.reject" /\ CasHolds(s) /\ KeyFree(s)
    /\ run' = [run EXCEPT ![r].status = "rejected", ![r].rejecter = s.principal]
    /\ Audited(r, "run_rejected", s.principal)
    /\ Remember(s, 200, r)
    /\ Answer(q, Accepted(200, r))
    /\ UNCHANGED <<op, outbox, claims>>

(* execute_run commits the transition with the operation and the outbox    *)
(* event, and answers before any I/O.                                      *)
CommitExecute(q) ==
    LET s == req[q].sub
        r == s.target IN
    /\ req[q].pc = "commit" /\ s.op = "run.execute" /\ CasHolds(s) /\ KeyFree(s)
    /\ run' = [run EXCEPT ![r].status = "execution_pending"]
    /\ op' = [op EXCEPT ![r] = "pending"]
    /\ outbox' = [outbox EXCEPT ![r] = [NoEvent EXCEPT !.status = "pending", !.due = TRUE]]
    /\ Audited(r, "execution_requested", s.principal)
    /\ Remember(s, 202, r)
    /\ Answer(q, Accepted(202, r))
    /\ UNCHANGED claims

(* The rollback of a transition whose compare-and-set or whose key lost.   *)
TransitionConflict(q) ==
    LET s == req[q].sub IN
    /\ req[q].pc = "commit" /\ s.op \notin Creation
    /\ ~CasHolds(s) \/ ~KeyFree(s)
    /\ Answer(q, ReplayOr(s, Refused(409, "invalid_state")))
    /\ UNCHANGED storeVars

-------------------------------------------------------------------------------
(* The answer reaches the client, or is lost on the way: the slot is free. *)
Respond(q) ==
    /\ req[q].pc = "done"
    /\ req' = [req EXCEPT ![q] = Idle]
    /\ UNCHANGED storeVars

(* The API process dies before the commit.                                 *)
Abort(q) ==
    /\ req[q].pc \in {"read", "existing", "commit"}
    /\ req' = [req EXCEPT ![q] = Idle]
    /\ UNCHANGED storeVars

Handle(q) ==
    \/ Read(q) \/ ReadExisting(q)
    \/ CommitDryRun(q) \/ CommitFromMail(q) \/ CreationConflict(q)
    \/ CommitApprove(q) \/ CommitReject(q) \/ CommitExecute(q) \/ TransitionConflict(q)

RequestNext == \E q \in Slot : Begin(q) \/ Handle(q) \/ Respond(q) \/ Abort(q)
===============================================================================
