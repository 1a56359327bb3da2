# TLA+ models of ProntoAgente.it

ProntoAgente runs governed automations: an operator proposes a run of a published
workflow, an approver decides on it, and only then a worker process calls the connector.
Order runs may also be prepared from a mail message, directly or by an AI provider under a
daily budget. This directory models the program's concurrent core in TLA+, checks it with
TLC on small instances and proves its main properties with TLAPS for all of them.

## 1. The system

| Component | State | Operations | Talks to | Module |
|---|---|---|---|---|
| Run lifecycle API, `v2/runs.py`, `v2/routes.py` | `runs`, `order_source_claims`, `idempotency_records_v2`, `audit_events_v2` | dry run, from mail, approve, reject, execute | the worker through `execution_operations` and `outbox_events` | `RunStore`, `RunRequests` |
| Outbox worker, `worker.py` | `outbox_events` (lease, attempts), `execution_operations` | claim, call, finalize success / retry / error | connectors; the API through the rows | `OutboxWorker` |
| Runtime connectors, `v2/connectors.py` | none | `execute` | Microsoft Graph, simulated ERP | outcomes in `OutboxWorker` |
| Authentication and roles, `v2/auth.py` | `principals`, `api_keys` | bearer token to tenant, principal, roles | every route | constants and role checks |
| Catalog, `v2/catalog.py` | `agents`, `workflows` and their versions | create, edit, publish | runs and preparations read published versions | `Catalog` |
| AI policy and budget, `ai/service.py` | `ai_tenant_policies`, `ai_usage_buckets` | PUT policy, reserve, settle | the AI queue and worker | `AiStore`, `AiRequests` |
| AI preparation queue, `ai/service.py` | `ai_preparation_operations`, `ai_outbox_events`, claims | enqueue | the AI worker through the rows | `AiRequests` |
| AI worker, `ai/worker.py` | `ai_invocations` and all of the above | claim, load, call, finalize | AI provider; proposes runs | `AiWorker` |
| Providers, tools, prompts, sealing, `ai/*.py` | none | `invoke`, validation, AES-GCM | the AI worker | outcomes in `AiWorker`; the deterministic provider and the tool contract in `OrderIntake` |
| Order parsing and reconciliation, `v2/demo_connectors.py` | none | parse, reconcile | both preparation paths | `OrderIntake` |
| ERP draft workflow v1, `services.py` | its own four tables | dry run, approve, reject, simulate | simulated connector | `LegacyDraft` |
| Configuration, sessions, migrations, scripts | | | | not modelled |

What is hard in it: every handler looks its idempotency key up, reads rows and then commits,
in separate statements, while other handlers and workers commit in between; workers call the
outside world with no transaction open, under leases that may run out, and may die at any
point; and one outcome is written to four or five tables. `PROJECT.json` lists these hazards
at their lines, with the properties that would catch each going wrong.

## 2. Modules

```
RunStore ── RunRequests ──┐
        └── OutboxWorker ─┴─ RunPlatform ── MCRunPlatform
                                 │  └─ RunPlatform_proofs ── RunHistory_proofs
                                 └─ INSTANCE GovernedRun

AiStore ── AiRequests ─┐
       └── AiWorker ───┴─ AiPlatform ── MCAiPlatform
                              └─ AiPlatform_proofs ─┬─ AiLedger_proofs
                                        SumLemmas ──┘

LegacyDraft ── MCLegacyDraft       Catalog ── MCCatalog              OrderIntake ── MCOrderIntake
   │  └─ LegacyDraft_proofs           │  └─ Catalog_proofs               └─ OrderIntake_proofs
   └─ INSTANCE GovernedRun            └─ INSTANCE VersionShelf
```

`MCRunScenarios` and `MCAiScenarios` (and `MCCatalog` itself) put several instances in one
run: a variable `scenario`, chosen at the start and never changed, keeps each behaviour to
the requests, rows and workers of one of them.

**RunStore** holds the shared rows. A run has at most one operation and an operation at most
one event (two unique constraints), so both are functions of the run. A commit is one step;
the reads before it are steps of their own.

**RunRequests** is the HTTP side. `req[q]` is a handler in flight:

| Action | Code |
|---|---|
| `Begin` | role check of the route, `_find_replay` |
| `Read` | the source claim, the published stack and the input, or the run with the checks on its status, eligibility and hash |
| `ReadExisting` | the second SELECT of `execute_run` |
| `CommitDryRun`, `CommitFromMail`, `CommitApprove`, `CommitReject`, `CommitExecute` | compare-and-set, operation and event, claim, audit row, `_remember`, commit |
| `CreationConflict`, `TransitionConflict` | rollback after a lost compare-and-set or an IntegrityError, then the second replay lookup |
| `Respond`, `Abort` | the answer leaves (and may be lost: clients send again); the process dies before its commit |

**OutboxWorker** is `process_once`: `Claim`, `Call`, `Return`, then `FinalizeSuccess`,
`FinalizeRetry`, `FinalizeError` or `Discard`, with `Crash`, `LeaseExpire` and `Due` for the
death of a process and the two clocks. A lease is a Boolean (`lease_until >= now`), and one
that ran out but was not claimed again still fences, as in `_fence_outbox`. The M365
connector may return, fail retryably, fail for good or raise something else; the simulated
ERP only returns.

**RunPlatform** composes them, states the properties and the fairness, and maps the rows to
**GovernedRun**, the abstract promise: proposed once, decided once, executed only when
approved and requested, touched only while pending, settled once and only after a touch.

**AiStore**, **AiRequests**, **AiWorker** and **AiPlatform** are built the same way for the
AI path, for one tenant (no statement there joins two). `AiRequests` has the policy PUT with
its optimistic lock and `enqueue_preparation`, whose conditional bucket update uses the
policy row it read earlier (`seen`). `AiWorker` has the claim that commits the invocation row
(`ClaimFirst`), the claim that finds one and closes the preparation as unknown
(`ClaimAgain`), the load, the lease check right before the call, and every exit of
`process_once`, the `except ValueError` clause included (outcome `garbled`). An error before
the call is a refusal or, when no clause names it (the database fails in
`_record_input_hash`, say), an unknown outcome that keeps the reservation: `Refuse` has both. `PrepareByMail`
stands for the mail route of `RunRequests`, which competes for the same source claims.

**LegacyDraft** is the v1 service. `Begin` is the lookup of the key, `Read` the draft with its
checks, `ReadExisting` the SELECT of the operation; `CommitDryRun` and `CommitDecision` are
the transactions of the first three routes, with `StaleDecision` for an UPDATE whose version
moved on and `KeyTaken` for a lost unique constraint. A simulation is claimed (`CommitClaim`,
`ClaimLost`), called (`Call`) and finalized (`FinalizeSuccess`, `FinalizeFailure`) by the
handler itself, in three steps between which its process may die: `Abort` before the claim
leaves nothing, `Abandon` after it leaves the claim. It is mapped to the same `GovernedRun`.

**Catalog** is `catalog.py` and what reads it. Creations read the highest number and insert
the next one (`ReadNumber`, `CommitVersion`, `NumberTaken`); edits and publications read the
row with its checks (`ReadVersion`), validate the new content (`Validate`) and write under
`version_id_col` (`CommitUpdate`, `CommitPublish`, `StaleWrite`, an error no handler catches).
A run or a preparation reads the published stack in two statements (`ReadStack`,
`ReadPinned`, which looks for the agent version in the tenant) and copies it, or keeps its identifiers for the AI worker to read again
(`ProposePrepared`). **VersionShelf** is the promise: per item a numbered sequence that grows
at its end, whose drafts may change and whose published entries may not.

**OrderIntake** follows one message through both grammars: the subject parser and
`canonical_order` on the mail route, the tool contract and `to_order_document` on the AI path,
then `reconcile_order`, line by line, against a catalog of ERP orders. Subjects and tool
arguments are records of fields, not strings. What the regular expressions of the two
grammars tell apart is in the fields: of a code its length, the kind of its first character
and the kinds of the others (`Spelling`: capitals and digits, the marks `.` `_` `-`, anything
else); of a price its units, its cents, its number of decimal places and whether its digits
are plain (`plain`: no sign, no superfluous zero). Each grammar has operators of its own for
them (`ParsesCode` and `ParsesPrice`, `ValidCode` and `ValidMoney`), so a drift of one would
show. `shaped` stands for the rest of the frame: the length of a subject, printable ASCII,
segments and separators or JSON fields and types, and the digits of a quantity. `InvokeModel` lets a model answer anything of the
shape its caller checks, `InvokeFake` is the deterministic provider.

Abstractions. Names, hashes and payloads are model values or a few words
(`Body`): a proposal hash is the run's or another, an order reconciles, does not, or does not
parse (`OrderIntake` has the reading itself). The three budgets (input tokens, output tokens, cost) are treated alike by the code
and are one amount here. Deployment settings are fixed. In `RunPlatform`
published workflow versions are constants; `Catalog` shows that they do not change. GET handlers, messages, logging and time stamps are left out.

## 3. Runs

Each run is `tlc -config <cfg> <module>`; deadlock is checked in all of them.

| Run | What it asks | Instance |
|---|---|---|
| `run_lifecycle` | Do the run, its operation, its event, its audit trail and the recorded answer agree at every moment; is nothing called without an approval; does a settled run stay settled; has each effect exactly one recorded request; does a message prepare one run, and an order that does not reconcile stay unapproved; does it all implement `GovernedRun`? | three scenarios: one run with two handlers, two workers, M365 outcomes, two attempts, three claims; two runs, two keys, two tenants; one message under two keys, two tenants and four workflows |
| `execution_liveness` | Does every requested execution reach an outcome? | two runs, one worker that dies and loses leases |
| `replay_race` (violation) | README line 232: a repeated key returns the same run. | one request, sent twice |
| `blind_retry` (violation) | README lines 200-201: no blind retry after a crash that follows the call. | one run, two workers |
| `ai_lifecycle` | Do preparation, event, invocation, audit and budget agree; is the provider called at most once; does what a day takes stay within a limit some version of the policy set, and within the cap, under stale policies and overruns? | five scenarios: one preparation, two workers, two days, all outcomes; two preparations on one day's budget under a small limit, a large one, one that changes, and a daily limit that the owner lowers while an enqueue has already read it |
| `ai_contention` | One record per preparation, no lost policy update, one run per message over both paths. | two preparations, two messages, nine requests, two handlers |
| `ai_liveness` | Does every queued preparation reach an outcome, however often workers die? | two preparations, one worker |
| `ai_ambiguity` (violation) | README line 254: ambiguous outcomes keep their reservation. | one preparation, one worker |
| `legacy_draft` | Do a draft and its simulation agree, with one owner; is the connector called once; does a repeated key tell the outcome; does the trail; does it implement `GovernedRun`; does a claimed simulation settle unless its process dies? | two drafts, two handlers, two keys, two actors |
| `legacy_claim_race` (violation) | services.py line 391: another key owns the claim. | one draft, one simulate request sent twice |
| `catalog` | Are version numbers dense; is no edit lost; are pins published and of the tenant; does a run carry exactly what was published; does it implement `VersionShelf`? | four scenarios: an agent's versions; a workflow with two versions; an agent whose AI section an edit breaks; two tenants with the same names |
| `order_intake` | Is an order eligible exactly when it is the ERP's; is the payload the order that was reconciled; do the two grammars agree? | two ERP orders; subjects and arguments of up to two lines over two SKUs, of three lines over three, and single lines with an odd field |

### Bounds, and why they are enough

* `MaxClaims` (3; 2 where workers are not the subject): after that many claims of an event no lease of it is lost any more
  and its worker does not die. It ends the otherwise endless cycle of claim and
  loss. With `MaxAttempts` 2, three claims give: a call, a lost lease with a second call, a
  retry, and exhaustion of the attempts by lost leases. The proofs hold for every value.
* `MaxAttempts` 2 has one retry and one exhaustion; more repeat the same rows.
* Two handlers are enough for every race over one row: a compare-and-set or a unique
  constraint has one winner and each loser meets it alone.
* `MaxVersion` (2) bounds policy updates, `MaxUsage` what a provider reports; it is above the
  reservation where an overrun matters. The limits of a day leave room for one
  reservation and not for two, or for two small ones; in `ai_lifecycle` the cap (`HardDaily` 3) is
  above the tenant's limits (2, lowered to 1), so that these are what counts.
* Scenarios separate questions that do not meet: a key race needs no second worker, a
  second tenant no edit. Each pair of requests that touches the same rows is in one of them.
* `legacy_draft` and `catalog` have two handlers, so any two requests of a scenario race at
  any two of their steps; `MaxLock` (3) lets a draft be edited twice and published.
* `order_intake`: `MaxLines` 2, `MaxQuantity` 2 and `MaxUnits` 1 make the bounds reachable: a
  subject with a third line, a quantity of 3 or a price of two units is refused. With `MaxCode`
  3 there are codes of every length from none to one too many, one that starts with a mark and
  one with a character of another kind; prices have one to three places. One line too
  few, one too many and one with another price or quantity each appear among those
  accepted. The theorems below hold for any bounds.
* `ai_lifecycle` and `ai_contention` use symmetry over preparation identifiers and request
  handlers, which no request names and no property orders.

### Fairness

`RunPlatform!Fairness`: a handler that is not killed runs to its answer; a worker that is not
killed finishes `process_once` (connector calls have time-outs); clocks advance; an event that is
claimable again and again is claimed (strong fairness), because the poll takes the oldest
claimable event. Nothing is assumed of crashes beyond `MaxClaims`: with infinitely
many, an event need never settle, since every claim may be lost.

`AiPlatform!Fairness` needs less: weak fairness of the worker's own steps, of the lease clock
and of claims. Crashes are not bounded, because the second claim of a preparation settles it.

`LegacyDraft!FairSpec` has weak fairness of the handlers' own steps: a handler that is not
killed runs to its answer, the call of a connector included. `Abandon` is never forced and
never excluded, and `SimulationSettles` claims an outcome only for drafts it did not hit: v1
has no lease and no worker that would take a claim over.

### What the violations show

* A same-key retry of a preparation may be answered 409 instead of the recorded run.
  `create_run_from_mail` reads the key and then the source claim; between the two its own
  first sending may commit. (`replay_race`)
* After a worker dies between its connector call and its finalization, the next claim calls
  the connector again and the trail shows no retry. The `operation_id` lets a remote system
  deduplicate; nothing in this program does. (`blind_retry`)
* `except ValueError` in the AI worker, meant for a bad pinned prompt, also covers
  `provider.invoke`. A body that is not UTF-8 makes `json.loads` raise a `UnicodeDecodeError`,
  which is a ValueError but no `JSONDecodeError`: the preparation fails as if nothing had
  been sent and its reservation is released. (`ai_ambiguity`)
* A simulate request sent twice may be told that *another* key owns the simulation: the key
  is looked up before the operation, and its own first sending claims in between.
  (`legacy_claim_race`) Approvals and rejections have the same gap: of two sendings that
  read the draft together the second fails on the version, with 409
  `concurrent_modification`, and never reaches the lookup that would replay the first.

## 4. Proofs

`RunPlatform_proofs` proves, for all values of the constants that meet the named assumptions
of `RunStore`, `RunRequests` and `OutboxWorker`:

* `TypeCorrect`: `Spec => []TypeOK`.
* `StatusesAgree`: `Spec => []StatusAgreement`.
* `CallsAreApproved`: `Spec => []WriteOnlyAfterApproval`.
* `PlatformIsGoverned`: `Spec => ImplementsGovernedRun`, the refinement of `GovernedRun`.

The argument. `StatusAgreement` is inductive together with the types: a finalization is
fenced by its event, the event's agreement with the operation and the run says that the run
is pending, and so each commit finds the rows it replaces. `WriteOnlyAfterApproval` is not
inductive: a status beyond `approved` says nothing about who approved until the decision
columns are tied to the status. `DecisionHistory` adds that tie (a decided run names its
approver or its rejecter, who has the role and the tenant; an in-flight approval or rejection
carries an authorized principal; a worker at work or a call made belongs to a run whose
execution was requested), and is inductive with the two others. The refinement then needs
only that settling finds a run that was called, which the same invariant gives.

`RunHistory_proofs` proves the other properties of the run `run_lifecycle`, for the same
constants: `OutcomesAreFinal` (`Spec => SettledIsFinal`), `TrailIsComplete`,
`ReplaysAreCurrent`, `AnswersAreRecorded`, `OneRequestPerEffect`, `SourcesPrepareOneRun`,
`MismatchedOrdersStayBlocked` and `CallsHaveClaims`. Under the invariant of `StatusesAgree`
every step has one of eight forms (`StoreSteps`): a run is created, approved, rejected, sent to
execution or settled, its event retried or claimed, or no row of a run changes but the lease and
the due date of an event. Each property is then shown for the forms, and not for the twenty
actions. What each of them needed to be inductive:

* `AuditTrailTellsStatus` and `ExecuteReplayIsCurrent` are inductive beside the agreement of the
  statuses: an event of the trail is one step of the status.
* `AcceptedIsRecorded`: a record once written keeps its actor, payload and resource, so an
  answer stays backed while it waits to be sent; the steps that give an answer are looked at one
  by one.
* `OneRecordPerEffect` needs `Undecided` (a run nobody decided on has no approver and no
  rejecter): only then is the record of a decision the first one. `RecordsTell` says "one record"
  as a set with one element, which a step can be seen to keep. `OneRunPerSource` needs the part of
  `Undecided` about runs that are not there yet: a claim names a run that exists.
* `BlockedOrdersStayBlocked` needs that the run is not eligible either (`BlockedRuns`), since
  that is what an approval looks at.
* `AttemptsAccountForCalls` needs that a leased event has one claim more than its trail has
  retries (`Accounts`): else the last attempt might schedule one more. The trail's retries and
  the claims not yet used are finite sets whose sizes the steps change by one.

`LegacyDraft_proofs` proves, for all drafts, actors, keys, handlers and requests:

* `LegacyTypeCorrect`: `Spec => []LegacyTypeOK`. A finalization rewrites the record of its
  key, so the types need `ClaimsRecorded`: who holds a claim left that record.
* `DraftsAgree` and `CalledOnce`: `Spec => []DraftAgreement` and `Spec => []OneCallPerDraft`.
  Neither is inductive: a handler decides on what it read earlier. `InFlight` says what it may
  still rely on (the version it read is old, or the draft is still undecided; a draft seen
  approved is approved or simulated), and is inductive with the two, draft by draft (`Agree`).
  `DraftRows` and `SimRows` reduce every step to what it does to one draft's rows.
* `LegacyRefinesGovernedRun`: `Spec => ImplementsGovernedRun`, from `StageMoves` and the fact
  that a step touches the rows of one draft.
* `OneRequestPerEffect`, `ReplaysTellTheTruth` and `LegacyTrailIsComplete`: the record, replay
  and trail properties. `TableSteps` first reduces every step, under the invariants above, to
  what it writes: a draft proposed, approved or rejected, a simulation claimed or settled, each
  with its one new record (or the new code of the record of the claim) and its one audit row.
  That a claim finds the draft approved, and a settlement the record it rewrites, comes from
  `InFlight` and `ClaimsRecorded`.

`Catalog_proofs` proves, for all tenants, items, versions, runs, handlers and requests:

* `CatalogTypeCorrect`, `NumbersStayDense`, `EditsStaySerial`, `PinsStayPublished`,
  `RunsStayPublished`: each property of the run `catalog`. The inductive invariant
  `CatalogInv` is their conjunction with `InHand`, what a handler may still rely on when it
  commits: a number it is to insert is at most one above the versions there are; a row it read
  is the row there is, as long as `lock_version` has not moved; a pin it checked, or the stack
  it read, is published. `InHand` survives the steps of others because of `Grows`, proved
  once for every step: items stay, `lock_version` only rises, what is published is final.
* `CatalogRefinesShelf`: `Spec => ImplementsVersionShelf`. Dense numbers make a version's number its
  place on the shelf (a map of n versions onto 1 to n is injective), so a commit appends one
  entry or changes one.

`OrderIntake_proofs` proves, for all ERP catalogs, bounds, subjects and arguments:

* `IntakeTypeCorrect`, `ApprovableIsExact`, `PayloadCarriesTheOrder` and `PathsAgree`: the
  properties of the run `order_intake`. The invariant `Intake` says how each stage was computed
  from the one before; `PatternsAgree` compares what the two grammars ask of codes and prices; the rest is about the operators. That an order's lines can be sorted by
  SKU, which the canonical form rests on, is shown by a least counterexample: the strict
  subsets of a finite set are well founded, so a smallest set of codes without a sorting would
  exist, and putting its least code before a sorting of the others refutes it.

`AiPlatform_proofs` proves, for all preparations, messages, owners, operators, keys, handlers,
workers, caps and bounds:

* `AiTypeCorrect` and `RowsAgree`: `Spec => []AiTypeOK` and `Spec => []PreparationAgreement`. The
  inductive invariant is `AiRowsOK`: the two with `HandlersInformed` (who is about to reserve has
  read a policy, and policies are never deleted), `LimitsRecorded` (the daily limit of every
  policy that is or was read is that of a recorded PUT) and `RowsComplete` (a preparation has its
  message, a settled one its usage). It gives every step one of the forms of `RowStep`: a policy
  written, a preparation queued, started, given up as unknown or closed, a run prepared by the
  mail route, a lease lost, or no row changed. The rest looks at these forms.
* `NoSecondSpending`: `Spec => []OneCallPerPreparation`, from `WorkersOnce`: a worker at work
  committed the invocation of its preparation, no two workers are at work for the same one, and
  nothing is out before the call. Leases play no part in it: the invocation row alone protects.
* `AiTrailIsComplete`, `SourcesPrepareOnce`, `PolicyUpdatesKept` and the action property
  `SettledPreparationsStay`; `OneRequestPerPreparation`, from `RecordsTell` as above.

`AiLedger_proofs` proves `LedgerAlwaysBalances` and `SpendStaysWithinLimits`, for any set of
preparation identifiers, an infinite one included: `FinitelyMany` of them exist at a time. A
reservation, a settlement and an unknown outcome each move one summand; `SumLemmas` says what
that does to a sum. `SpendWithinLimits` follows the day whose bucket a step changes: a
reservation brings the limit its handler read, which `LimitsRecorded` says some PUT has set; a
settlement keeps the limit the day had; and records are never changed, so no limit is lost
(`LimitsGrow`). It does not say the limit in force: a reservation whose handler read the policy
before the owner lowered it is still made, in the code as in the model. `SumFunctionOnSet` is a fold, defined by recursion, and TLAPS cannot
instantiate the library's induction theorems; so its laws (it is a natural number, any element
may be taken off first, it looks at nothing but the values over its set) are proved by least
counterexample, from the well-foundedness of strict inclusion among finite sets.

Assumptions of the proofs are those of the modules: requests have the shape their routes check,
bounds are natural numbers, a worker has at least one attempt, and NULL (`None`) is no row,
record, identifier or outcome. The runs evaluate every one of them on their instances.

Every invariant, action property and refinement the passing runs check is thereby proved.
Model-checked only: the three liveness properties (`ExecutionSettles`, `PreparationSettles`,
`SimulationSettles`), since TLAPS proves no liveness under fairness.

## 5. Not modelled

* Configuration, engine and session set-up, migrations and scripts: they run before or beside
  the program, alone, and keep no state of their own. What a session does (commit, roll back,
  close) is in the actions.
* Authentication: the token lookup reads rows no modelled operation writes. Its result
  (tenant, principal, roles) is a constant of the models and every role check is modelled.
* Data without control: prompt text, token estimates, encryption, hashing, JSON schemas, HTTP
  headers, metrics, time stamps and the GET handlers.
* v1: the integrity check of a stored proposal and the branches for an operation that is
  already terminal when its own handler finalizes it. Nothing modelled writes those rows
  meanwhile, so the branches cannot be reached.
* Triggers and listeners that refuse changes of published versions and audit rows:
  `ImplementsVersionShelf` and the trail properties show that no operation would fire them.
* v1 drafts whose process dies during a simulation stay `simulating`: `LegacyDraft` has the
  death, `DraftAgreement` tells such a draft from one whose handler lives, `SimulationSettles`
  exempts it, and no property promises a recovery the code does not have. Nor is there one
  about which answer the loser of two equal approvals gets (see above).
* A finalization of the outbox worker that fails forever, and a policy switched off between
  the worker's check and its call: `PROJECT.json` says why no property covers them.
* The deployment runs several AI tenants over one database; no statement of the AI path joins
  two, so its models have one.
