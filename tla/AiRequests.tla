------------------------------ MODULE AiRequests ------------------------------
(***************************************************************************)
(* The two AI mutations over HTTP, ai/service.py behind ai/routes.py:      *)
(* PUT of the tenant policy under an optimistic lock, and the enqueueing   *)
(* of a preparation, which reserves budget, claims the source message and  *)
(* writes the outbox event in one commit.  Like the run handlers, each     *)
(* looks its key up, reads, and commits, with other steps in between.      *)
(***************************************************************************)
EXTENDS AiStore

CONSTANTS
    Slot,        \* request handlers that may be in flight at a time
    Submission,  \* the requests clients may send, and send again
    InputBound,  \* provider_input_token_upper_bound of an envelope
    MaxVersion   \* bound: lock_version after which no policy update is committed

(* Published workflows as enqueue_preparation tells them apart: approval-  *)
(* first sales orders for the simulated ERP, and all others.               *)
Workflow == {"sales_order", "other"}

ASSUME AiSubmissionAssumption ==
    Submission \subseteq [op : Operation, principal : Owner \cup Operator, key : Key,
                          workflow : Workflow \cup {None}, source : Source \cup {None},
                          limits : Limits \cup {None}, version : Nat]
ASSUME AiTargetAssumption ==
    \A s \in Submission : /\ s.op = "ai.policy.put" <=> s.limits # None
                          /\ s.op = "ai.preparation.create" <=> s.source # None
                          /\ s.op = "ai.preparation.create" <=> s.workflow # None
ASSUME AiBoundAssumption == InputBound \in Nat /\ MaxVersion \in Nat

VARIABLE req   \* the handlers in flight: the policy each has read, and its answer

Pc == {"idle", "read", "claim", "commit", "done"}
Detail == {"ok", "idempotency_key_reused", "ai_policy_exceeds_deployment_cap",
           "optimistic_lock_conflict", "ai_policy_not_found", "ai_policy_disabled",
           "ai_input_budget_exceeded", "order_source_already_claimed",
           "ai_daily_budget_exceeded", "insufficient_role", "ai_workflow_incompatible"}
Reply == [code : {200, 202, 403, 404, 409}, detail : Detail,
          resource : Preparation \cup Nat \cup {None}]
IdemRecord == [sub : Submission, resource : Preparation \cup Nat]

ASSUME AiRowAssumption == None \notin IdemRecord \cup Policy \cup Reply

Idle == [pc |-> "idle", sub |-> None, seen |-> None, reply |-> None]

AiRequestTypeOK ==
    /\ req \in [Slot -> [pc : Pc, sub : Submission \cup {None},
                         seen : Policy \cup {None}, reply : Reply \cup {None}]]
    /\ idem \in [AiScope -> IdemRecord \cup {None}]
    /\ \A q \in Slot : /\ req[q].pc # "idle" => req[q].sub \in Submission
                       /\ req[q].pc = "done" => req[q].reply \in Reply

AiRequestInit == req = [q \in Slot |-> Idle]

(* PreparerContext and OwnerContext.                                       *)
Authorized(s) == \/ s.principal \in Owner
                 \/ s.op = "ai.preparation.create" /\ s.principal \in Operator

ScopeOf(s) == <<s.op, s.key>>
Refused(code, detail) == [code |-> code, detail |-> detail, resource |-> None]

(* A put answers with the version it wrote, a preparation with its row.    *)
Accepted(s, resource) == [code |-> IF s.op = "ai.policy.put" THEN 200 ELSE 202,
                          detail |-> "ok", resource |-> resource]

(* _find_replay; a repeated preparation answers with its current row.      *)
SameRequest(rec, s) == rec.sub = s
Replay(s) ==
    LET rec == idem[ScopeOf(s)] IN
    IF rec = None THEN None
    ELSE IF SameRequest(rec, s) THEN Accepted(s, rec.resource)
    ELSE Refused(409, "idempotency_key_reused")
ReplayOr(s, reply) == IF Replay(s) # None THEN Replay(s) ELSE reply

KeyFree_Unconstrained(s) == TRUE
KeyFree(s) == idem[ScopeOf(s)] = None
SourceFree_Unconstrained(s) == TRUE
SourceFree(s) == claim[s.source] = Unclaimed
Remember(s, resource) ==
    idem' = [idem EXCEPT ![ScopeOf(s)] = [sub |-> s, resource |-> resource]]

Answer(q, reply) == req' = [req EXCEPT ![q].pc = "done", ![q].reply = reply]

-------------------------------------------------------------------------------
(* The route's role check, then the handler's _find_replay.                *)
Begin(q) ==
    /\ req[q].pc = "idle"
    /\ \E s \in Submission :
          req' = [req EXCEPT ![q] =
             IF ~Authorized(s)
             THEN [Idle EXCEPT !.pc = "done", !.sub = s,
                               !.reply = Refused(403, "insufficient_role")]
             ELSE IF Replay(s) # None
             THEN [Idle EXCEPT !.pc = "done", !.sub = s, !.reply = Replay(s)]
             ELSE [Idle EXCEPT !.pc = "read", !.sub = s]]
    /\ UNCHANGED aiStoreVars

(* _agent_ai_limits: what a preparation under policy row pol reserves.     *)
Reservation(pol) == Smaller(pol.max, HardMax)

(* put_policy: _validate_deployment_limits and the first version.          *)
PutError(s) ==
    IF s.limits.daily > HardDaily \/ s.limits.max > HardMax
    THEN Refused(409, "ai_policy_exceeds_deployment_cap")
    ELSE IF policy = None /\ s.version # 1 THEN Refused(409, "optimistic_lock_conflict")
    ELSE None

(* enqueue_preparation: the checks on the policy it reads and on the       *)
(* published workflow.                                                     *)
EnqueueError(s) ==
    IF policy = None THEN Refused(404, "ai_policy_not_found")
    ELSE IF ~policy.enabled THEN Refused(409, "ai_policy_disabled")
    ELSE IF s.workflow # "sales_order" THEN Refused(409, "ai_workflow_incompatible")
    ELSE IF InputBound > Reservation(policy) THEN Refused(409, "ai_input_budget_exceeded")
    ELSE None

Read(q) ==
    LET s == req[q].sub
        error == IF s.op = "ai.policy.put" THEN PutError(s) ELSE EnqueueError(s) IN
    /\ req[q].pc = "read"
    /\ IF error # None THEN Answer(q, error)
       ELSE req' = [req EXCEPT ![q].pc = IF s.op = "ai.policy.put" THEN "commit" ELSE "claim",
                               ![q].seen = policy]
    /\ UNCHANGED aiStoreVars

ReadClaim(q) ==
    LET s == req[q].sub IN
    /\ req[q].pc = "claim"
    /\ IF ~SourceFree(s) THEN Answer(q, Refused(409, "order_source_already_claimed"))
       ELSE req' = [req EXCEPT ![q].pc = "commit"]
    /\ UNCHANGED aiStoreVars

-------------------------------------------------------------------------------
(* put_policy's write: an INSERT when it saw no policy, which the primary  *)
(* key lets only one handler do, or an UPDATE of the version it was given. *)
LockHolds_AnyVersion(q) == (req[q].seen = None) = (policy = None)
LockHolds(q) ==
    IF req[q].seen = None THEN policy = None ELSE policy.version = req[q].sub.version

WrittenVersion(q) == IF req[q].seen = None THEN 1 ELSE policy.version + 1

CommitPolicy(q) ==
    LET s == req[q].sub
        version == WrittenVersion(q) IN
    /\ req[q].pc = "commit" /\ s.op = "ai.policy.put" /\ LockHolds(q) /\ KeyFree(s)
    /\ version <= MaxVersion
    /\ policy' = [enabled |-> s.limits.enabled, provider |-> s.limits.provider,
                  max |-> s.limits.max, daily |-> s.limits.daily, version |-> version]
    /\ Remember(s, version)
    /\ Answer(q, Accepted(s, version))
    /\ UNCHANGED <<bucket, prep, event, inv, claim, proposed, audit, today>>

(* A lost UPDATE is a conflict at once; a lost INSERT or a used key first  *)
(* looks for the recorded answer.                                          *)
PolicyConflict(q) ==
    LET s == req[q].sub
        conflict == Refused(409, "optimistic_lock_conflict") IN
    /\ req[q].pc = "commit" /\ s.op = "ai.policy.put" /\ ~(LockHolds(q) /\ KeyFree(s))
    /\ Answer(q, IF req[q].seen # None /\ ~LockHolds(q) THEN conflict
                 ELSE ReplayOr(s, conflict))
    /\ UNCHANGED aiStoreVars

(* The conditional UPDATE of the day's bucket, by the limits the handler   *)
(* has read.                                                               *)
BudgetLeft_UsedOnly(q, d) ==
    bucket[d].used + Reservation(req[q].seen) <= Smaller(req[q].seen.daily, HardDaily)
BudgetLeft(q, d) ==
    bucket[d].used + bucket[d].reserved + Reservation(req[q].seen)
        <= Smaller(req[q].seen.daily, HardDaily)

CommitEnqueue(q) ==
    LET s == req[q].sub
        amount == Reservation(req[q].seen) IN
    /\ req[q].pc = "commit" /\ s.op = "ai.preparation.create"
    /\ BudgetLeft(q, today) /\ SourceFree(s) /\ KeyFree(s)
    /\ \E p \in Preparation :
          /\ prep[p].status = "absent"
          /\ bucket' = [bucket EXCEPT ![today].reserved = @ + amount]
          /\ prep' = [prep EXCEPT ![p] =
                [status |-> "queued", source |-> s.source, provider |-> req[q].seen.provider,
                 reserved |-> amount, day |-> today, used |-> None]]
          /\ event' = [event EXCEPT ![p].status = "queued"]
          /\ claim' = [claim EXCEPT ![s.source] = [prep |-> p, run |-> FALSE]]
          /\ AuditedAs(p, "ai_preparation_queued")
          /\ Remember(s, p)
          /\ Answer(q, Accepted(s, p))
    /\ UNCHANGED <<policy, inv, proposed, today>>

EnqueueConflict(q) ==
    LET s == req[q].sub IN
    /\ req[q].pc = "commit" /\ s.op = "ai.preparation.create"
    /\ ~(BudgetLeft(q, today) /\ SourceFree(s) /\ KeyFree(s))
    /\ Answer(q, IF ~BudgetLeft(q, today) THEN Refused(409, "ai_daily_budget_exceeded")
                 ELSE ReplayOr(s, Refused(409, "order_source_already_claimed")))
    /\ UNCHANGED aiStoreVars

-------------------------------------------------------------------------------
(* The answer reaches the client, or is lost on the way.                   *)
Respond(q) ==
    /\ req[q].pc = "done"
    /\ req' = [req EXCEPT ![q] = Idle]
    /\ UNCHANGED aiStoreVars

(* The API process dies before the commit.                                 *)
Abort(q) ==
    /\ req[q].pc \in {"read", "claim", "commit"}
    /\ req' = [req EXCEPT ![q] = Idle]
    /\ UNCHANGED aiStoreVars

(* create_run_from_mail of v2/runs.py commits a run and its claim for the  *)
(* same source message; RunRequests has the whole handler.                 *)
PrepareByMail(s) ==
    /\ claim[s] = Unclaimed
    /\ claim' = [claim EXCEPT ![s].run = TRUE]
    /\ proposed' = [proposed EXCEPT ![s] = @ + 1]
    /\ UNCHANGED <<policy, bucket, prep, event, inv, audit, idem, today, req>>

(* Midnight UTC.                                                           *)
NextDay ==
    /\ today + 1 \in Day
    /\ today' = today + 1
    /\ UNCHANGED <<policy, bucket, prep, event, inv, claim, proposed, audit, idem, req>>

Handle(q) == \/ Read(q) \/ ReadClaim(q)
             \/ CommitPolicy(q) \/ PolicyConflict(q)
             \/ CommitEnqueue(q) \/ EnqueueConflict(q)

AiRequestNext ==
    \/ \E q \in Slot : Begin(q) \/ Handle(q) \/ Respond(q) \/ Abort(q)
    \/ \E s \in Source : PrepareByMail(s)
    \/ NextDay
===============================================================================
