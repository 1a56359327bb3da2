-------------------------------- MODULE AiStore --------------------------------
(***************************************************************************)
(* The rows that the AI preparation API and the AI worker share,           *)
(* ai/models.py: the tenant's policy, its daily usage buckets, preparation *)
(* operations with their outbox event and their invocation, and the order  *)
(* source claims that the mail route of v2/runs.py also writes.  Policies, *)
(* buckets, claims and records are per tenant and no statement joins two   *)
(* tenants: this is the store of one.                                      *)
(*                                                                         *)
(* Budgets are kept in input tokens, output tokens and cost.  The code     *)
(* treats the three alike, so one amount stands for them.  Deployment      *)
(* settings do not change while the system runs.                           *)
(***************************************************************************)
EXTENDS Naturals, Sequences, FiniteSets

CONSTANTS
    Preparation, \* ai_preparation_operations.id, the identifiers uuid4 may draw
    Source,      \* (source_connector, source_ref_hash) of a mail envelope
    Day,         \* usage_date values: 1..n
    Owner,       \* the tenant's principals with the role owner
    Operator,    \* and those with the role operator
    Key,         \* Idempotency-Key values
    HardDaily,   \* ai_hard_daily_*: the deployment's cap on a policy's daily limit
    HardMax,     \* ai_hard_max_*: its cap on one preparation's reservation
    None         \* SQL NULL, or no row

Provider == {"fake", "openai"}

ASSUME AiDayAssumption == Day \subseteq Nat /\ 1 \in Day
ASSUME AiCapAssumption == HardDaily \in Nat /\ HardMax \in Nat
ASSUME AiNoneAssumption == None \notin Preparation \cup Source \cup Provider \cup Nat

VARIABLES
    policy,   \* the tenant's ai_tenant_policies row, None before the first PUT
    bucket,   \* ai_usage_buckets by usage_date
    prep,     \* ai_preparation_operations
    event,    \* ai_outbox_events of the preparation
    inv,      \* ai_invocations.status of the preparation, "none" without a row
    claim,    \* order_source_claims by source
    proposed, \* runs proposed from each source, by the AI worker or the mail route
    audit,    \* audit_events_v2 of the preparation in order of id
    idem,     \* idempotency_records_v2 by (operation, key)
    today     \* datetime.now(UTC).date()

aiStoreVars == <<policy, bucket, prep, event, inv, claim, proposed, audit, idem, today>>

Terminal == {"completed", "failed", "unknown"}
PrepStatus == {"queued", "processing"} \cup Terminal
EventStatus == {"queued", "processing", "processed", "failed", "unknown"}
Operation == {"ai.policy.put", "ai.preparation.create"}
EventType == {"ai_preparation_queued", "ai_preparation_started", "ai_preparation_completed",
              "ai_preparation_failed", "ai_preparation_unknown"}

(* What an AiPolicyUpdate sets; max bounds one preparation, daily a day.   *)
Limits == [enabled : BOOLEAN, provider : Provider, max : Nat, daily : Nat]
Policy == [enabled : BOOLEAN, provider : Provider, max : Nat, daily : Nat, version : Nat]

NoPrep == [status |-> "absent", source |-> None, provider |-> None, reserved |-> 0,
           day |-> 1, used |-> None]
NoEvent == [status |-> "none", owner |-> None, live |-> FALSE, version |-> 0]
Unclaimed == [prep |-> None, run |-> FALSE]

PrepRow == [status : PrepStatus \cup {"absent"}, source : Source \cup {None},
            provider : Provider \cup {None}, reserved : Nat, day : Day,
            used : Nat \cup {None}]

AiScope == Operation \X Key

AiStoreInit ==
    /\ policy = None
    /\ bucket = [d \in Day |-> [used |-> 0, reserved |-> 0]]
    /\ prep = [p \in Preparation |-> NoPrep]
    /\ event = [p \in Preparation |-> NoEvent]
    /\ inv = [p \in Preparation |-> "none"]
    /\ claim = [s \in Source |-> Unclaimed]
    /\ proposed = [s \in Source |-> 0]
    /\ audit = [p \in Preparation |-> <<>>]
    /\ idem = [k \in AiScope |-> None]
    /\ today = 1

AiStoreTypeOK ==
    /\ policy \in Policy \cup {None}
    /\ bucket \in [Day -> [used : Nat, reserved : Nat]]
    /\ prep \in [Preparation -> PrepRow]
    /\ inv \in [Preparation -> {"none", "started"} \cup Terminal]
    /\ claim \in [Source -> [prep : Preparation \cup {None}, run : BOOLEAN]]
    /\ proposed \in [Source -> Nat]
    /\ audit \in [Preparation -> Seq(EventType)]
    /\ today \in Day

Smaller(a, b) == IF a <= b THEN a ELSE b

(* _audit and the row enqueue_preparation adds: the trail of preparation p.*)
AuditedAs(p, type) == audit' = [audit EXCEPT ![p] = Append(@, type)]
===============================================================================
