------------------------------ MODULE LegacyDraft -----------------------------
(***************************************************************************)
(* The v1 service, services.py behind api/routes.py: an ERP draft is       *)
(* proposed, approved or rejected, and an approved draft is simulated once *)
(* by the request handler itself: it claims the simulation in a            *)
(* transaction of its own, calls the connector, then writes the outcome.   *)
(* Reads and commits of a handler are separate steps.  A draft has at most *)
(* one operation (uq_simulation_operations_workflow_id), so operations are *)
(* indexed by the draft.                                                   *)
(***************************************************************************)
EXTENDS Naturals, Sequences, FiniteSets

CONSTANTS
    Draft,        \* erp_draft_workflows.id, the identifiers uuid4 may draw
    Actor,        \* X-Actor-Id values: v1 knows no roles and no tenants
    Key,          \* Idempotency-Key values
    Slot,         \* request handlers that may be in flight at a time
    Submission,   \* the requests clients may send, and send again
    None          \* SQL NULL, or no row

Operation == {"dry_run", "approve", "reject", "simulate"}

(* An order, a proposal hash that is the draft's or not, a reason.         *)
Body == {"plain", "other", "same_hash", "other_hash"}

Code == {200, 201, 202, 502}
Hash == [target : Draft \cup {None}, body : Body]
IdemRecord == [actor : Actor, hash : Hash, code : Code, resource : Draft]
Detail == {"ok", "idempotency_key_reused", "workflow_not_found", "invalid_state",
           "proposal_hash_mismatch", "concurrent_modification", "approval_required",
           "simulation_in_progress", "simulation_already_claimed"}
Reply == [code : Code \cup {404, 409}, detail : Detail, resource : Draft \cup {None}]

ASSUME NoneAssumption == None \notin Draft \cup Actor \cup Key \cup IdemRecord \cup Reply
ASSUME SubmissionAssumption ==
    /\ Submission \subseteq [op : Operation, actor : Actor, key : Key,
                             target : Draft \cup {None}, body : Body]
    /\ \A s \in Submission : /\ s.op = "dry_run" <=> s.target = None
                             /\ s.op = "simulate" => s.body = "plain"

VARIABLES
    draft,     \* erp_draft_workflows
    sim,       \* simulation_operations of the draft
    audit,     \* audit_events of the draft in order of id
    idem,      \* idempotency_records by (operation, key)
    req,       \* the handlers in flight, and the answer each has ready
    calls,     \* history: connector calls made for the draft
    orphaned   \* history: the process that claimed the simulation died

rows == <<draft, sim, audit, idem>>
history == <<calls, orphaned>>
vars == <<rows, req, history>>

DraftStatus == {"proposed", "approved", "rejected", "simulated"}
SimStatus == {"simulating", "simulated", "simulation_failed"}
EventType == {"draft_proposed", "proposal_approved", "proposal_rejected",
              "simulation_started", "simulation_completed", "simulation_failed"}
Pc == {"idle", "read", "existing", "commit", "claimed", "returned", "raised", "done"}
Scope == Operation \X Key
AuditEvent == [type : EventType, actor : Actor]

NoDraft == [status |-> "absent", version |-> 0, approver |-> None, rejecter |-> None]
NoSim == [status |-> "none", key |-> None, actor |-> None]
Idle == [pc |-> "idle", sub |-> None, seen |-> 0, reply |-> None]

Init ==
    /\ draft = [d \in Draft |-> NoDraft]
    /\ sim = [d \in Draft |-> NoSim]
    /\ audit = [d \in Draft |-> <<>>]
    /\ idem = [k \in Scope |-> None]
    /\ req = [q \in Slot |-> Idle]
    /\ calls = [d \in Draft |-> 0]
    /\ orphaned = [d \in Draft |-> FALSE]

-------------------------------------------------------------------------------
HashOf(s) == [target |-> s.target, body |-> s.body]
Accepted(code, d) == [code |-> code, detail |-> "ok", resource |-> d]
Refused(code, detail) == [code |-> code, detail |-> detail, resource |-> None]

(* _find_replay: the recorded answer of the same actor and payload, a      *)
(* conflict for any other use of the key, None when the key is unused.     *)
Matches(rec, s) == rec # None /\ rec.actor = s.actor /\ rec.hash = HashOf(s)
Replay(s) ==
    LET rec == idem[<<s.op, s.key>>] IN
    IF rec = None THEN None
    ELSE IF Matches(rec, s) THEN Accepted(rec.code, rec.resource)
    ELSE Refused(409, "idempotency_key_reused")

(* The constraints that decide a race: one record per operation and key,   *)
(* one simulation operation per draft, and the version the UPDATE of a     *)
(* draft names in its WHERE clause.                                        *)
KeyFree_Unconstrained(s) == TRUE
KeyFree(s) == idem[<<s.op, s.key>>] = None
SimFree_Unconstrained(d) == TRUE
SimFree(d) == sim[d].status = "none"
VersionHolds_Unchecked(q) == TRUE
VersionHolds(q) == draft[req[q].sub.target].version = req[q].seen

(* _remember_response                                                      *)
Remember(s, code, d) ==
    idem' = [idem EXCEPT ![<<s.op, s.key>>] =
                [actor |-> s.actor, hash |-> HashOf(s), code |-> code, resource |-> d]]

Audited(d, type, actor) ==
    audit' = [audit EXCEPT ![d] = Append(@, [type |-> type, actor |-> actor])]

Answer(q, reply) == req' = [req EXCEPT ![q].pc = "done", ![q].reply = reply]
Goto(q, pc) == req' = [req EXCEPT ![q].pc = pc]

-------------------------------------------------------------------------------
(* Every handler looks its key up first; a dry run then has nothing to     *)
(* read.                                                                   *)
Begin(q) ==
    /\ req[q].pc = "idle"
    /\ \E s \in Submission :
          req' = [req EXCEPT ![q] = [pc |-> IF Replay(s) # None THEN "done"
                                            ELSE IF s.op = "dry_run" THEN "commit"
                                            ELSE "read",
                                     sub |-> s, seen |-> 0, reply |-> Replay(s)]]
    /\ UNCHANGED <<rows, history>>

(* The checks on the draft read, in the order they are made.               *)
ReadError(s) ==
    LET status == draft[s.target].status IN
    IF status = "absent" THEN Refused(404, "workflow_not_found")
    ELSE IF s.op = "simulate" /\ status = "proposed" THEN Refused(409, "approval_required")
    ELSE IF status # IF s.op = "simulate" THEN "approved" ELSE "proposed"
         THEN Refused(409, "invalid_state")
    ELSE IF s.op = "approve" /\ s.body # "same_hash"
         THEN Refused(409, "proposal_hash_mismatch")
    ELSE None

Read(q) ==
    LET s == req[q].sub IN
    /\ req[q].pc = "read"
    /\ IF ReadError(s) # None THEN Answer(q, ReadError(s))
       ELSE req' = [req EXCEPT ![q].pc = IF s.op = "simulate" THEN "existing" ELSE "commit",
                               ![q].seen = draft[s.target].version]
    /\ UNCHANGED <<rows, history>>

(* _claim_conflict: what an operation that exists already is answered.     *)
ClaimConflict(d) ==
    Refused(409, IF sim[d].status = "simulating" THEN "simulation_in_progress"
                 ELSE "simulation_already_claimed")

ReadExisting(q) ==
    LET d == req[q].sub.target IN
    /\ req[q].pc = "existing"
    /\ IF sim[d].status # "none" THEN Answer(q, ClaimConflict(d)) ELSE Goto(q, "commit")
    /\ UNCHANGED <<rows, history>>

-------------------------------------------------------------------------------
CommitDryRun(q) ==
    LET s == req[q].sub IN
    /\ req[q].pc = "commit" /\ s.op = "dry_run" /\ KeyFree(s)
    /\ \E d \in Draft :
          /\ draft[d].status = "absent"
          /\ draft' = [draft EXCEPT ![d].status = "proposed", ![d].version = 1]
          /\ Audited(d, "draft_proposed", s.actor)
          /\ Remember(s, 201, d)
          /\ Answer(q, Accepted(201, d))
    /\ UNCHANGED <<sim, history>>

(* approve_proposal and reject_proposal: the UPDATE, its audit event and   *)
(* the record of the key.                                                  *)
CommitDecision(q) ==
    LET s == req[q].sub
        d == s.target
        next == draft[d].version + 1 IN
    /\ req[q].pc = "commit" /\ s.op \in {"approve", "reject"} /\ VersionHolds(q) /\ KeyFree(s)
    /\ IF s.op = "approve"
       THEN /\ draft' = [draft EXCEPT ![d].status = "approved", ![d].version = next,
                                      ![d].approver = s.actor]
            /\ Audited(d, "proposal_approved", s.actor)
       ELSE /\ draft' = [draft EXCEPT ![d].status = "rejected", ![d].version = next,
                                      ![d].rejecter = s.actor]
            /\ Audited(d, "proposal_rejected", s.actor)
    /\ Remember(s, 200, d)
    /\ Answer(q, Accepted(200, d))
    /\ UNCHANGED <<sim, history>>

(* _flush_transition: the version moved on since the draft was read.       *)
StaleDecision(q) ==
    /\ req[q].pc = "commit" /\ req[q].sub.op \in {"approve", "reject"} /\ ~VersionHolds(q)
    /\ Answer(q, Refused(409, "concurrent_modification"))
    /\ UNCHANGED <<rows, history>>

(* _commit_response after a rollback: the key was taken meanwhile.         *)
KeyTaken(q) ==
    LET s == req[q].sub IN
    /\ req[q].pc = "commit" /\ s.op # "simulate" /\ ~KeyFree(s)
    /\ IF s.op = "dry_run" THEN TRUE ELSE VersionHolds(q)
    /\ Answer(q, Replay(s))
    /\ UNCHANGED <<rows, history>>

(* _commit_simulation_claim: the operation and a provisional answer, in a  *)
(* transaction that ends before the connector is called.                   *)
CommitClaim(q) ==
    LET s == req[q].sub
        d == s.target IN
    /\ req[q].pc = "commit" /\ s.op = "simulate" /\ KeyFree(s) /\ SimFree(d)
    /\ sim' = [sim EXCEPT ![d] = [status |-> "simulating", key |-> s.key, actor |-> s.actor]]
    /\ Audited(d, "simulation_started", s.actor)
    /\ Remember(s, 202, d)
    /\ Goto(q, "claimed")
    /\ UNCHANGED <<draft, history>>

ClaimLost(q) ==
    LET s == req[q].sub IN
    /\ req[q].pc = "commit" /\ s.op = "simulate" /\ ~(KeyFree(s) /\ SimFree(s.target))
    /\ Answer(q, IF Replay(s) # None THEN Replay(s) ELSE ClaimConflict(s.target))
    /\ UNCHANGED <<rows, history>>

-------------------------------------------------------------------------------
(* connector.simulate, outside of any transaction.                         *)
Call(q) ==
    /\ req[q].pc = "claimed"
    /\ calls' = [calls EXCEPT ![req[q].sub.target] = @ + 1]
    /\ \E outcome \in {"returned", "raised"} : Goto(q, outcome)
    /\ UNCHANGED <<rows, orphaned>>

RecordOutcome_Provisional(s, code) == UNCHANGED idem
RecordOutcome(s, code) == idem' = [idem EXCEPT ![<<s.op, s.key>>].code = code]

(* The status an operation ends with, as its CHECK constraint spells it.   *)
SimOutcome_Word(q) == IF req[q].pc = "returned" THEN "simulated" ELSE "failed"
SimOutcome(q) == IF req[q].pc = "returned" THEN "simulated" ELSE "simulation_failed"

FinalizeSuccess(q) ==
    LET s == req[q].sub
        d == s.target IN
    /\ req[q].pc = "returned"
    /\ sim' = [sim EXCEPT ![d].status = SimOutcome(q)]
    /\ draft' = [draft EXCEPT ![d].status = "simulated", ![d].version = @ + 1]
    /\ Audited(d, "simulation_completed", s.actor)
    /\ RecordOutcome(s, 200)
    /\ Answer(q, Accepted(200, d))
    /\ UNCHANGED history

(* A raised exception becomes a failed operation; the draft stays approved *)
(* and its one simulation is used up.                                      *)
Caught_Nothing(q) == FALSE
Caught(q) == req[q].pc = "raised"
FinalizeFailure(q) ==
    LET s == req[q].sub
        d == s.target IN
    /\ Caught(q)
    /\ sim' = [sim EXCEPT ![d].status = SimOutcome(q)]
    /\ Audited(d, "simulation_failed", s.actor)
    /\ RecordOutcome(s, 502)
    /\ Answer(q, Accepted(502, d))
    /\ UNCHANGED <<draft, history>>

-------------------------------------------------------------------------------
(* The answer reaches the client, or is lost on the way.                   *)
Respond(q) ==
    /\ req[q].pc = "done"
    /\ req' = [req EXCEPT ![q] = Idle]
    /\ UNCHANGED <<rows, history>>

(* The process dies, or a commit fails for another reason: before it       *)
(* claimed a simulation, nothing is left behind.                           *)
Abort(q) ==
    /\ req[q].pc \in {"read", "existing", "commit"}
    /\ req' = [req EXCEPT ![q] = Idle]
    /\ UNCHANGED <<rows, history>>

(* Once the simulation is claimed, the claim is left behind.               *)
Abandon(q) ==
    /\ req[q].pc \in {"claimed", "returned", "raised"}
    /\ req' = [req EXCEPT ![q] = Idle]
    /\ orphaned' = [orphaned EXCEPT ![req[q].sub.target] = TRUE]
    /\ UNCHANGED <<rows, calls>>

Simulate(q) == CommitClaim(q) \/ ClaimLost(q) \/ Call(q) \/ FinalizeSuccess(q) \/ FinalizeFailure(q)
Handle(q) ==
    \/ Read(q) \/ ReadExisting(q)
    \/ CommitDryRun(q) \/ CommitDecision(q) \/ StaleDecision(q) \/ KeyTaken(q)
    \/ Simulate(q)

Next == \E q \in Slot : Begin(q) \/ Handle(q) \/ Respond(q) \/ Abort(q) \/ Abandon(q)

Spec == Init /\ [][Next]_vars

(* A handler that is not killed runs to its answer.                        *)
FairSpec == Spec /\ \A q \in Slot : WF_vars(Handle(q))

-------------------------------------------------------------------------------
Owner(q, d) == req[q].pc \in {"claimed", "returned", "raised"} /\ req[q].sub.target = d

(* The shape of the tables and of the handlers in flight.                  *)
DraftRow == [status : DraftStatus \cup {"absent"}, version : Nat,
             approver : Actor \cup {None}, rejecter : Actor \cup {None}]
SimRow == [status : SimStatus \cup {"none"}, key : Key \cup {None}, actor : Actor \cup {None}]
ReqRow == [pc : Pc, sub : Submission \cup {None}, seen : Nat, reply : Reply \cup {None}]
LegacyTypeOK ==
    /\ draft \in [Draft -> DraftRow]
    /\ sim \in [Draft -> SimRow]
    /\ audit \in [Draft -> Seq(AuditEvent)]
    /\ idem \in [Scope -> IdemRecord \cup {None}]
    /\ req \in [Slot -> ReqRow]
    /\ calls \in [Draft -> Nat] /\ orphaned \in [Draft -> BOOLEAN]
    /\ \A q \in Slot :
          /\ req[q].pc # "idle" => req[q].sub \in Submission
          /\ req[q].pc = "done" => req[q].reply \in Reply
          /\ req[q].pc \in {"read", "existing", "claimed", "returned", "raised"} =>
                req[q].sub.target \in Draft
          /\ req[q].pc \in {"existing", "claimed", "returned", "raised"} =>
                req[q].sub.op = "simulate"

(* A draft and its simulation tell one story although they are two rows    *)
(* written by several handlers: a simulation in progress belongs to exactly*)
(* one living handler or to a dead one, never both; its draft is approved  *)
(* by someone and rejected by no one, and only a success moves the draft.  *)
ApprovedDraft(d) == draft[d].approver # None /\ draft[d].rejecter = None
DraftAgreement ==
    /\ \A d \in Draft :
          /\ draft[d].status = "simulated" <=> sim[d].status = "simulated"
          /\ sim[d].status \in {"simulating", "simulation_failed"} =>
                draft[d].status = "approved"
          /\ draft[d].status \in {"approved", "simulated"} => ApprovedDraft(d)
          /\ draft[d].status \in {"absent", "proposed"} => draft[d].approver = None
          /\ orphaned[d] => sim[d].status = "simulating"
          /\ sim[d].status = "simulating" /\ ~orphaned[d] => \E q \in Slot : Owner(q, d)
    /\ \A d \in Draft, q \in Slot : Owner(q, d) =>
          /\ sim[d].status = "simulating" /\ ~orphaned[d]
          /\ sim[d].key = req[q].sub.key /\ sim[d].actor = req[q].sub.actor
    /\ \A d \in Draft, q, p \in Slot : Owner(q, d) /\ Owner(p, d) => q = p

(* The connector is called at most once for a draft, whatever keys the     *)
(* requests carry and however they race, only when the draft was approved, *)
(* and no outcome is recorded without that call.                           *)
OneCallPerDraft ==
    \A d \in Draft :
        /\ calls[d] <= 1
        /\ calls[d] = 1 => ApprovedDraft(d)
        /\ sim[d].status \in {"simulated", "simulation_failed"} => calls[d] = 1
        /\ \A q \in Slot : Owner(q, d) => calls[d] = IF req[q].pc = "claimed" THEN 0 ELSE 1

(* A client that repeats its simulate request is told the truth: the       *)
(* record of its key says 202 exactly while the simulation has no outcome, *)
(* 200 after a success and 502 after a failure.                            *)
ReplayTellsOutcome ==
    \A k \in Key :
        LET rec == idem[<<"simulate", k>>] IN
        rec # None =>
            /\ sim[rec.resource].key = k /\ sim[rec.resource].actor = rec.actor
            /\ rec.code = CASE sim[rec.resource].status = "simulating" -> 202
                            [] sim[rec.resource].status = "simulated" -> 200
                            [] sim[rec.resource].status = "simulation_failed" -> 502
                            [] OTHER -> 0

(* The audit trail read alone gives the state of the draft and of its      *)
(* simulation: one proposal, at most one decision, one start, one outcome. *)
LegacyTrailTellsStatus ==
    \A d \in Draft :
        [i \in 1..Len(audit[d]) |-> audit[d][i].type] =
            CASE draft[d].status = "absent" -> <<>>
              [] draft[d].status = "proposed" -> <<"draft_proposed">>
              [] draft[d].status = "rejected" -> <<"draft_proposed", "proposal_rejected">>
              [] OTHER ->
                   <<"draft_proposed", "proposal_approved">> \o
                   CASE sim[d].status = "none" -> <<>>
                     [] sim[d].status = "simulating" -> <<"simulation_started">>
                     [] sim[d].status = "simulated" ->
                          <<"simulation_started", "simulation_completed">>
                     [] sim[d].status = "simulation_failed" ->
                          <<"simulation_started", "simulation_failed">>

(* Each effect on a draft has exactly one recorded request, by the actor   *)
(* the row names, however requests race and are sent again.                *)
RecordsOf(d, operation) ==
    {k \in Key : idem[<<operation, k>>] # None /\ idem[<<operation, k>>].resource = d}
OneRecordPerEffect ==
    /\ \A d \in Draft :
          /\ Cardinality(RecordsOf(d, "dry_run")) = IF draft[d].status = "absent" THEN 0 ELSE 1
          /\ Cardinality(RecordsOf(d, "approve")) = IF draft[d].approver = None THEN 0 ELSE 1
          /\ Cardinality(RecordsOf(d, "reject")) = IF draft[d].rejecter = None THEN 0 ELSE 1
          /\ Cardinality(RecordsOf(d, "simulate")) = IF sim[d].status = "none" THEN 0 ELSE 1
          /\ \A k \in RecordsOf(d, "approve") :
                idem[<<"approve", k>>].actor = draft[d].approver

(* A claimed simulation gets its outcome unless its process dies: there is *)
(* no lease, so after a death nothing ever finishes it.                    *)
SimulationSettles ==
    \A d \in Draft : sim[d].status = "simulating" ~>
        (sim[d].status \in {"simulated", "simulation_failed"} \/ orphaned[d])

-------------------------------------------------------------------------------
(* The v1 service implements the life of a governed run: a claimed         *)
(* simulation is the pending execution, a recorded outcome its end.        *)
Stage(d) ==
    CASE sim[d].status = "simulating" -> "execution_pending"
      [] sim[d].status = "simulated" -> "executed"
      [] sim[d].status = "simulation_failed" -> "failed"
      [] OTHER -> draft[d].status
Governed == INSTANCE GovernedRun WITH Run <- Draft,
                                      stage <- [d \in Draft |-> Stage(d)],
                                      touched <- [d \in Draft |-> calls[d] > 0]
ImplementsGovernedRun == Governed!Spec

-------------------------------------------------------------------------------
(* services.py, _claim_conflict: "another idempotency key already owns the *)
(* simulation claim": whoever is answered so holds another key.            *)
InProgressNamesAnotherKey ==
    \A q \in Slot :
        req[q].pc = "done" /\ req[q].reply.detail = "simulation_in_progress" =>
            sim[req[q].sub.target].key # req[q].sub.key
===============================================================================
