------------------------------- MODULE RunStore -------------------------------
(***************************************************************************)
(* The rows that the v2 API and the outbox worker share, v2/models.py:     *)
(* runs, execution operations, outbox events, order source claims, audit   *)
(* events and idempotency records.  A run has at most one operation        *)
(* (uq_execution_operations_run) and an operation at most one event        *)
(* (uq_outbox_events_operation), so both tables are indexed by the run.    *)
(* Every commit of the program is one step: PostgreSQL's READ COMMITTED    *)
(* with row locks, or SQLite's single writer, make it atomic; the reads    *)
(* that precede it are steps of their own.                                 *)
(***************************************************************************)
EXTENDS Naturals, Sequences, FiniteSets

CONSTANTS
    Tenant,       \* tenants.id
    Principal,    \* principals.id
    TenantOf,     \* the tenant an API key and its principal belong to
    RolesOf,      \* the roles of a principal
    Workflow,     \* workflows.id
    WorkflowTenant, \* the tenant of a workflow
    ConnectorOf,  \* connector of the published version, None before publication
    M365Tenant,   \* the tenants the M365 connector is configured for
    Run,          \* runs.id, the identifiers uuid4 may draw
    Source,       \* (source_connector, source_ref_hash) of a mail envelope
    Key,          \* Idempotency-Key values
    None          \* SQL NULL, or no row

Role == {"owner", "builder", "operator", "approver", "auditor"}
Connector == {"simulated_erp", "m365_mail_intake_v1"}

ASSUME PrincipalAssumption == /\ TenantOf \in [Principal -> Tenant]
                              /\ RolesOf \in [Principal -> SUBSET Role]
ASSUME WorkflowAssumption == /\ WorkflowTenant \in [Workflow -> Tenant]
                             /\ ConnectorOf \in [Workflow -> Connector \cup {None}]
                             /\ M365Tenant \subseteq Tenant
ASSUME NoneAssumption == None \notin Run \cup Principal \cup Tenant \cup Source \cup Connector

VARIABLES
    run,      \* runs
    op,       \* execution_operations.status of the run's operation, "none" without a row
    outbox,   \* outbox_events of the run's operation
    claims,   \* order_source_claims.run_id by tenant and source
    audit,    \* audit_events_v2 of the run in order of id
    idem      \* idempotency_records_v2 by (tenant, operation, key)

storeVars == <<run, op, outbox, claims, audit, idem>>

Terminal == {"executed", "failed", "unknown"}
RunStatus == {"proposed", "approved", "rejected", "execution_pending"} \cup Terminal
OpStatus == {"pending", "executing"} \cup Terminal
OutboxStatus == {"pending", "processing", "retry", "processed", "failed", "unknown"}
Operation == {"run.dry_run", "run.from_mail", "run.approve", "run.reject", "run.execute"}
Creation == {"run.dry_run", "run.from_mail"}
EventType == {"run_proposed", "run_approved", "run_rejected", "execution_requested",
              "execution_retry_scheduled", "execution_completed", "execution_failed",
              "execution_unknown"}

(* What a request body says, as far as the handlers tell bodies apart: an  *)
(* order that reconciles or not, a proposal hash that is the run's or not. *)
Body == {"plain", "invalid", "matched", "mismatched", "same_hash", "other_hash", "other"}

NoRun == [status |-> "absent", tenant |-> None, connector |-> None, eligible |-> FALSE,
          approver |-> None, rejecter |-> None]
NoEvent == [status |-> "none", attempts |-> 0, owner |-> None, live |-> FALSE, due |-> FALSE]

Scope == Tenant \X Operation \X Key
Hash == [target : Workflow \cup Run, source : Source \cup {None}, body : Body]
Code == {200, 201, 202, 502}
IdemRecord == [actor : Principal, hash : Hash, code : Code, resource : Run]
AuditEvent == [type : EventType, actor : Principal \cup {None}]

ASSUME RecordAssumption == None \notin IdemRecord

StoreInit ==
    /\ run = [r \in Run |-> NoRun]
    /\ op = [r \in Run |-> "none"]
    /\ outbox = [r \in Run |-> NoEvent]
    /\ claims = [c \in Tenant \X Source |-> None]
    /\ audit = [r \in Run |-> <<>>]
    /\ idem = [k \in Scope |-> None]

RunRow == [status : RunStatus \cup {"absent"}, tenant : Tenant \cup {None},
           connector : Connector \cup {None}, eligible : BOOLEAN,
           approver : Principal \cup {None}, rejecter : Principal \cup {None}]

(* The shape of the tables; the owner of an event is a worker process, see *)
(* OutboxWorker.                                                           *)
StoreTypeOK ==
    /\ run \in [Run -> RunRow]
    /\ op \in [Run -> OpStatus \cup {"none"}]
    /\ claims \in [Tenant \X Source -> Run \cup {None}]
    /\ audit \in [Run -> Seq(AuditEvent)]
    /\ idem \in [Scope -> IdemRecord \cup {None}]

(* _audit: the row appended to the trail of run r.                         *)
Audited(r, type, actor) ==
    audit' = [audit EXCEPT ![r] = Append(@, [type |-> type, actor |-> actor])]
===============================================================================
