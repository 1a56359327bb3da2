-------------------------------- MODULE Catalog -------------------------------
(***************************************************************************)
(* The catalog of agents and workflows, v2/catalog.py, and what runs take  *)
(* from it, _published_stack in v2/runs.py.  Agents and workflows are      *)
(* items; an item has numbered versions, drafts until they are published.  *)
(* A version of a workflow pins a version of an agent.  A handler reads    *)
(* rows in statements of their own and then commits; SQLAlchemy keeps what *)
(* was read and adds lock_version to the WHERE clause of the UPDATE.       *)
(***************************************************************************)
EXTENDS Naturals, Sequences, FiniteSets

CONSTANTS
    Tenant, Principal,
    TenantOf,     \* the tenant of a principal
    RolesOf,      \* its roles
    Agent,        \* agents.id, the identifiers uuid4 may draw
    Workflow,     \* workflows.id
    Version,      \* agent_versions.id and workflow_versions.id
    Run,          \* runs.id; a run prepared by AI counts from its preparation
    Slug,         \* agents.slug and workflows.slug
    Slot,         \* request handlers that may be in flight at a time
    Submission,   \* the requests clients may send, and send again
    MaxLock,      \* bound on lock_version, for model checking only
    None          \* SQL NULL, or no row

Item == Agent \cup Workflow
Role == {"owner", "builder", "operator", "approver", "auditor"}

(* A definition of an agent may carry an AI section that does not validate;*)
(* a configuration of a workflow names a connector, an action and its      *)
(* public parameters, or a pair that is not in the registry.               *)
Definition == {"plain", "revised", "bad_ai"}
Config == {"erp", "m365", "bad_pair"}
Content == [pin : Version \cup {None}, body : Definition \cup Config]

CatalogOp == {"create_item", "create_version", "update", "publish"}
RunOp == {"dry_run", "prepare"}

ASSUME PrincipalAssumption == /\ TenantOf \in [Principal -> Tenant]
                              /\ RolesOf \in [Principal -> SUBSET Role]
Detail == {"ok", "insufficient_role", "definition", "item_not_found", "slug_exists",
           "version_conflict", "version_not_found", "published_version_immutable",
           "optimistic_lock_conflict", "internal_error", "invalid_connector_configuration",
           "published_agent_version_not_found", "workflow_not_found", "workflow_not_published",
           "agent_version_unavailable", "ai_workflow_incompatible", "agent_ai_definition_invalid"}
Reply == [code : Nat, detail : Detail]
ASSUME NoneAssumption ==
    None \notin Tenant \cup Item \cup Version \cup Run \cup Content \cup Reply
ASSUME KindsAssumption == Agent \cap Workflow = {}
ASSUME LockAssumption == MaxLock \in Nat
ASSUME SubmissionAssumption ==
    /\ Submission \subseteq [op : CatalogOp \cup RunOp, principal : Principal, item : Item,
                             slug : Slug \cup {None}, version : Version \cup {None},
                             lock : Nat, content : Content]
    /\ \A s \in Submission :
          /\ s.op \in {"update", "publish"} => s.version \in Version
          /\ s.op \in RunOp => s.item \in Workflow
          /\ s.item \in Agent => s.content.pin = None /\ s.content.body \in Definition
          /\ s.item \in Workflow => s.content.pin \in Version /\ s.content.body \in Config

VARIABLES
    item,     \* agents and workflows: tenant and slug
    ver,      \* agent_versions and workflow_versions
    run,      \* what a run or an AI preparation took from the catalog
    req,      \* the handlers in flight
    log,      \* history: what each version said, and the lock_version its editor named
    signed    \* history: the lock_version the publisher named

vars == <<item, ver, run, req, log, signed>>

NoVersion == [item |-> None, number |-> 0, status |-> "absent", content |-> None, lock |-> 0]
NoRun == [stage |-> "absent", item |-> None, wv |-> None, av |-> None,
          workflow |-> None, agent |-> None]
Idle == [pc |-> "idle", sub |-> None, mem |-> None, reply |-> None]

Row == [item : Item, number : Nat \ {0}, status : {"draft", "published"},
        content : Content, lock : Nat \ {0}]
Stack == [wv : Version, workflow : Content, av : Version, agent : Content \cup {None}]

Init ==
    /\ item = [i \in Item |-> None]
    /\ ver = [v \in Version |-> NoVersion]
    /\ run = [r \in Run |-> NoRun]
    /\ req = [q \in Slot |-> Idle]
    /\ log = [v \in Version |-> <<>>]
    /\ signed = [v \in Version |-> 0]

-------------------------------------------------------------------------------
(* The roles the routes ask for: BuilderContext, OperatorContext and, for  *)
(* an AI preparation, PreparerContext.                                     *)
AllowedRoles(operation) ==
    CASE operation \in CatalogOp -> {"owner", "builder"}
      [] operation = "dry_run" -> {"owner", "builder", "operator"}
      [] operation = "prepare" -> {"owner", "operator"}
Authorized(s) == RolesOf[s.principal] \cap AllowedRoles(s.op) # {}
TenantOfRequest(s) == TenantOf[s.principal]

(* _agent and _workflow: an item of another tenant is not found.           *)
Visible(i, tenant) == item[i] # None /\ item[i].tenant = tenant

Exists(v) == ver[v].status # "absent"
VersionsOf(i) == {v \in Version : Exists(v) /\ ver[v].item = i}

Answer(q, code, detail) ==
    req' = [req EXCEPT ![q].pc = "done", ![q].reply = [code |-> code, detail |-> detail]]
Goto(q, pc, mem) == req' = [req EXCEPT ![q].pc = pc, ![q].mem = mem]

Begin(q) ==
    /\ req[q].pc = "idle"
    /\ \E s \in Submission :
          req' = [req EXCEPT ![q] =
             IF ~Authorized(s)
             THEN [Idle EXCEPT !.pc = "done", !.sub = s,
                               !.reply = [code |-> 403, detail |-> "insufficient_role"]]
             ELSE [Idle EXCEPT !.pc = IF s.op = "create_item" THEN "commit" ELSE "read",
                               !.sub = s]]
    /\ UNCHANGED <<item, ver, run, log, signed>>

Reading(q, pc, operations) ==
    /\ req[q].pc = pc /\ req[q].sub.op \in operations
    /\ UNCHANGED <<item, ver, run, log, signed>>

-------------------------------------------------------------------------------
(* create_agent and create_workflow: one INSERT, which uq_agents_tenant_slug*)
(* or uq_workflows_tenant_slug may refuse.                                 *)
SlugFree(s) ==
    \A i \in IF s.item \in Agent THEN Agent ELSE Workflow :
        item[i] # [tenant |-> TenantOfRequest(s), slug |-> s.slug]

CommitItem(q) ==
    LET s == req[q].sub IN
    /\ req[q].pc = "commit" /\ s.op = "create_item" /\ SlugFree(s)
    /\ item[s.item] = None
    /\ item' = [item EXCEPT ![s.item] = [tenant |-> TenantOfRequest(s), slug |-> s.slug]]
    /\ Answer(q, 201, "ok")
    /\ UNCHANGED <<ver, run, log, signed>>

SlugTaken(q) ==
    /\ req[q].pc = "commit" /\ req[q].sub.op = "create_item" /\ ~SlugFree(req[q].sub)
    /\ Answer(q, 409, "slug_exists")
    /\ UNCHANGED <<item, ver, run, log, signed>>

(* _validate_workflow_version: the connector pair and its public           *)
(* configuration, then the pinned agent version, which must be published.  *)
PinHolds_AnyStatus(s) ==
    LET v == s.content.pin IN Exists(v) /\ ver[v].item \in Agent
                              /\ Visible(ver[v].item, TenantOfRequest(s))
PinHolds(s) ==
    LET v == s.content.pin IN
    /\ ver[v].status = "published" /\ ver[v].item \in Agent
    /\ Visible(ver[v].item, TenantOfRequest(s))

(* Validates the content of a workflow version; an agent's definition is   *)
(* validated by AgentVersionCreate only, before the handler runs.          *)
ContentFault(s) ==
    IF s.item \in Workflow /\ s.content.body = "bad_pair"
    THEN [code |-> 409, detail |-> "invalid_connector_configuration"]
    ELSE IF s.item \in Workflow /\ ~PinHolds(s)
    THEN [code |-> 404, detail |-> "published_agent_version_not_found"]
    ELSE None

Refuse(q, fault) == Answer(q, fault.code, fault.detail)

ReadItem(q) ==
    LET s == req[q].sub IN
    /\ Reading(q, "read", {"create_version"})
    /\ IF s.content.body = "bad_ai" THEN Answer(q, 422, "definition")
       ELSE IF ~Visible(s.item, TenantOfRequest(s)) THEN Answer(q, 404, "item_not_found")
       ELSE IF ContentFault(s) # None THEN Refuse(q, ContentFault(s))
       ELSE Goto(q, "number", None)

(* select(func.max(version)): the number the new version will claim.       *)
NextNumber(i) ==
    IF VersionsOf(i) = {} THEN 1
    ELSE 1 + (CHOOSE n \in {ver[v].number : v \in VersionsOf(i)} :
                 \A v \in VersionsOf(i) : ver[v].number <= n)
ReadNumber(q) ==
    /\ Reading(q, "number", {"create_version"})
    /\ Goto(q, "commit", NextNumber(req[q].sub.item))

(* uq_agent_versions_number and uq_workflow_versions_number.               *)
NumberFree_Unconstrained(i, n) == TRUE
NumberFree(i, n) == \A v \in VersionsOf(i) : ver[v].number # n

CommitVersion(q) ==
    LET s == req[q].sub
        n == req[q].mem IN
    /\ req[q].pc = "commit" /\ s.op = "create_version" /\ NumberFree(s.item, n)
    /\ \E v \in Version :
          /\ ~Exists(v)
          /\ ver' = [ver EXCEPT ![v] = [item |-> s.item, number |-> n, status |-> "draft",
                                        content |-> s.content, lock |-> 1]]
          /\ log' = [log EXCEPT ![v] = <<[content |-> s.content, base |-> 0]>>]
    /\ Answer(q, 201, "ok")
    /\ UNCHANGED <<item, run, signed>>

NumberTaken(q) ==
    LET s == req[q].sub IN
    /\ req[q].pc = "commit" /\ s.op = "create_version" /\ ~NumberFree(s.item, req[q].mem)
    /\ Answer(q, 409, "version_conflict")
    /\ UNCHANGED <<item, ver, run, log, signed>>

-------------------------------------------------------------------------------
(* The reads of update_... and publish_..._version: the row as it was read *)
(* stays in the session.                                                   *)
VersionFault(s) ==
    LET row == ver[s.version] IN
    IF ~Exists(s.version) \/ row.item # s.item THEN [code |-> 404, detail |-> "version_not_found"]
    ELSE IF ~Visible(s.item, TenantOfRequest(s))
    THEN [code |-> 404, detail |-> "version_not_found"]
    ELSE IF row.status # "draft" THEN [code |-> 409, detail |-> "published_version_immutable"]
    ELSE IF row.lock # s.lock THEN [code |-> 409, detail |-> "optimistic_lock_conflict"]
    ELSE None

ReadVersion(q) ==
    LET s == req[q].sub IN
    /\ Reading(q, "read", {"update", "publish"})
    /\ IF VersionFault(s) # None THEN Refuse(q, VersionFault(s))
       ELSE Goto(q, IF s.op = "update" THEN "validate" ELSE "commit", ver[s.version])

Validate(q) ==
    /\ Reading(q, "validate", {"update"})
    /\ IF ContentFault(req[q].sub) # None THEN Refuse(q, ContentFault(req[q].sub))
       ELSE Goto(q, "commit", req[q].mem)

(* version_id_col: UPDATE ... WHERE lock_version = the one read.  Triggers *)
(* that refuse an UPDATE of a published row stand behind it; they are left *)
(* out, and ImplementsVersionShelf shows that none would ever fire.        *)
LockHolds_Unchecked(q) == TRUE
LockHolds(q) == ver[req[q].sub.version].lock = req[q].mem.lock

(* Assigning what was read changes nothing: no UPDATE is sent.             *)
NoChange(q) == req[q].sub.op = "update" /\ req[q].sub.content = req[q].mem.content

CommitNothing(q) ==
    /\ req[q].pc = "commit" /\ req[q].sub.op = "update" /\ NoChange(q)
    /\ Answer(q, 200, "ok")
    /\ UNCHANGED <<item, ver, run, log, signed>>

CommitUpdate(q) ==
    LET s == req[q].sub
        v == s.version IN
    /\ req[q].pc = "commit" /\ s.op = "update" /\ ~NoChange(q) /\ LockHolds(q)
    /\ req[q].mem.lock < MaxLock
    /\ ver' = [ver EXCEPT ![v].content = s.content, ![v].lock = req[q].mem.lock + 1]
    /\ log' = [log EXCEPT ![v] = Append(@, [content |-> s.content, base |-> s.lock])]
    /\ Answer(q, 200, "ok")
    /\ UNCHANGED <<item, run, signed>>

CommitPublish(q) ==
    LET s == req[q].sub
        v == s.version IN
    /\ req[q].pc = "commit" /\ s.op = "publish" /\ LockHolds(q)
    /\ ver' = [ver EXCEPT ![v].status = "published", ![v].lock = req[q].mem.lock + 1]
    /\ signed' = [signed EXCEPT ![v] = s.lock]
    /\ Answer(q, 200, "ok")
    /\ UNCHANGED <<item, run, log>>

(* StaleDataError reaches no handler: the transaction is rolled back and   *)
(* the client is told of an internal error.                                *)
StaleWrite(q) ==
    /\ req[q].pc = "commit" /\ req[q].sub.op \in {"update", "publish"}
    /\ ~NoChange(q) /\ ~LockHolds(q)
    /\ Answer(q, 500, "internal_error")
    /\ UNCHANGED <<item, ver, run, log, signed>>

-------------------------------------------------------------------------------
(* _published_stack: the published version of highest number, then, in a   *)
(* statement of its own, the agent version it pins.                        *)
Published_AnyStatus(i) == VersionsOf(i)
Published(i) == {v \in VersionsOf(i) : ver[v].status = "published"}
Candidates(i) ==
    {v \in Published(i) : \A w \in Published(i) : ver[w].number <= ver[v].number}

ReadStack(q) ==
    LET s == req[q].sub IN
    /\ Reading(q, "read", RunOp)
    /\ IF ~Visible(s.item, TenantOfRequest(s)) THEN Answer(q, 404, "workflow_not_found")
       ELSE IF Candidates(s.item) = {} THEN Answer(q, 409, "workflow_not_published")
       ELSE \E v \in Candidates(s.item) :
               Goto(q, "pinned", [wv |-> v, workflow |-> ver[v].content,
                                  av |-> ver[v].content.pin, agent |-> None])

(* _agent_ai_limits validates the AI section of the pinned definition.     *)
AiValid(definition) == definition # "bad_ai"

(* The pinned agent version, looked for in the tenant.                     *)
PinAvailable(v, tenant) ==
    ver[v].status = "published" /\ ver[v].item \in Agent /\ Visible(ver[v].item, tenant)

ReadPinned(q) ==
    LET s == req[q].sub
        stack == req[q].mem
        row == ver[stack.av] IN
    /\ Reading(q, "pinned", RunOp)
    /\ IF ~PinAvailable(stack.av, TenantOfRequest(s))
       THEN Answer(q, 409, "agent_version_unavailable")
       ELSE IF s.op = "prepare" /\ stack.workflow.body # "erp"
       THEN Answer(q, 409, "ai_workflow_incompatible")
       ELSE IF s.op = "prepare" /\ ~AiValid(row.content.body)
       THEN Answer(q, 409, "agent_ai_definition_invalid")
       ELSE Goto(q, "commit", [stack EXCEPT !.agent = row.content])

(* _new_proposed_run copies both versions into the run.                    *)
CommitRun(q) ==
    LET s == req[q].sub
        stack == req[q].mem IN
    /\ req[q].pc = "commit" /\ s.op = "dry_run"
    /\ \E r \in Run :
          /\ run[r].stage = "absent"
          /\ run' = [run EXCEPT ![r] = [stage |-> "proposed", item |-> s.item, wv |-> stack.wv,
                                        av |-> stack.av, workflow |-> stack.workflow,
                                        agent |-> stack.agent]]
    /\ Answer(q, 201, "ok")
    /\ UNCHANGED <<item, ver, log, signed>>

(* enqueue_preparation keeps the identifiers of both versions only.        *)
CommitPreparation(q) ==
    LET s == req[q].sub
        stack == req[q].mem IN
    /\ req[q].pc = "commit" /\ s.op = "prepare"
    /\ \E r \in Run :
          /\ run[r].stage = "absent"
          /\ run' = [run EXCEPT ![r] = [NoRun EXCEPT !.stage = "queued", !.item = s.item,
                                                     !.wv = stack.wv, !.av = stack.av]]
    /\ Answer(q, 202, "ok")
    /\ UNCHANGED <<item, ver, log, signed>>

(* The AI worker's _finalize_success reads the pinned rows again, however  *)
(* much later.                                                             *)
ProposePrepared(r) ==
    LET wrow == ver[run[r].wv]
        arow == ver[run[r].av] IN
    /\ run[r].stage = "queued" /\ wrow.status = "published"
    /\ PinAvailable(run[r].av, item[run[r].item].tenant)
    /\ run' = [run EXCEPT ![r].stage = "proposed", ![r].workflow = wrow.content,
                          ![r].agent = arow.content]
    /\ UNCHANGED <<item, ver, req, log, signed>>

-------------------------------------------------------------------------------
(* The answer leaves, or the process dies before its commit.               *)
Respond(q) ==
    /\ req[q].pc # "idle"
    /\ req' = [req EXCEPT ![q] = Idle]
    /\ UNCHANGED <<item, ver, run, log, signed>>

Create(q) == CommitItem(q) \/ SlugTaken(q) \/ ReadItem(q) \/ ReadNumber(q)
             \/ CommitVersion(q) \/ NumberTaken(q)
Write(q) == ReadVersion(q) \/ Validate(q) \/ CommitNothing(q) \/ CommitUpdate(q)
            \/ CommitPublish(q) \/ StaleWrite(q)
Prepare(q) == ReadStack(q) \/ ReadPinned(q) \/ CommitRun(q) \/ CommitPreparation(q)

Next == \/ \E q \in Slot : Begin(q) \/ Create(q) \/ Write(q) \/ Prepare(q) \/ Respond(q)
        \/ \E r \in Run : ProposePrepared(r)

Spec == Init /\ [][Next]_vars

-------------------------------------------------------------------------------
(* The shape of the tables and of the handlers in flight.                  *)
ItemRow == [tenant : Tenant, slug : Slug \cup {None}]
RunRow == [stage : {"queued", "proposed"}, item : Workflow, wv : Version, av : Version,
           workflow : Content \cup {None}, agent : Content \cup {None}]
Pc == {"idle", "read", "number", "validate", "pinned", "commit", "done"}

(* A handler and what it keeps of what it read.                            *)
HandlerOK(r) ==
    /\ r = [pc |-> r.pc, sub |-> r.sub, mem |-> r.mem, reply |-> r.reply]
    /\ r.pc \in Pc
    /\ r.pc = "done" => r.reply \in Reply
    /\ r.pc # "idle" => r.sub \in Submission
    /\ r.pc = "commit" /\ r.sub.op = "create_version" => r.mem \in Nat \ {0}
    /\ r.pc \in {"validate", "commit"} /\ r.sub.op \in {"update", "publish"} => r.mem \in Row
    /\ r.pc \in {"pinned", "commit"} /\ r.sub.op \in RunOp => r.mem \in Stack
CatalogTypeOK ==
    /\ item \in [Item -> ItemRow \cup {None}]
    /\ ver \in [Version -> Row \cup {NoVersion}]
    /\ run \in [Run -> RunRow \cup {NoRun}]
    /\ log \in [Version -> Seq([content : Content, base : Nat])]
    /\ signed \in [Version -> Nat]
    /\ req = [q \in Slot |-> req[q]] /\ \A q \in Slot : HandlerOK(req[q])

(* README.md: "una nuova versione usa il numero N+1".  The versions of an  *)
(* item are numbered 1 to n, each number once, although handlers that      *)
(* create them read the same maximum.                                      *)
NumbersAreDense ==
    \A i \in Item :
        {ver[v].number : v \in VersionsOf(i)} = 1..Cardinality(VersionsOf(i))

(* No edit is lost or made blindly: lock_version counts the edits, each    *)
(* editor named the lock_version of the text it replaced, and what is      *)
(* published is the text whose lock_version its publisher named, although  *)
(* edits and publications race between their reads and their commits.      *)
EditsAreSerial ==
    \A v \in Version :
        LET n == Len(log[v]) IN
        /\ \A i \in 1..n : log[v][i].base = i - 1
        /\ n > 0 <=> Exists(v)
        /\ n > 0 => ver[v].content = log[v][n].content
        /\ ver[v].lock = IF ver[v].status = "published" THEN n + 1 ELSE n
        /\ signed[v] = IF ver[v].status = "published" THEN n ELSE 0

(* README.md: "Ogni WorkflowVersion pinna una AgentVersion già pubblicata":*)
(* in every version of a workflow, draft or published, of the workflow's   *)
(* own tenant, although the pin is read before the row is written.         *)
SoundPin(a, i) ==
    /\ ver[a].status = "published" /\ ver[a].item \in Agent
    /\ item[ver[a].item] # None /\ item[i] # None
    /\ item[ver[a].item].tenant = item[i].tenant
PinsArePublished ==
    \A v \in Version : Exists(v) /\ ver[v].item \in Workflow => SoundPin(ver[v].content.pin, ver[v].item)

(* What a run carries is for ever the published text of a version of its   *)
(* own workflow and of the agent version this one pins; an AI preparation  *)
(* accepted earlier gets the pair it was accepted with, and an agent whose *)
(* AI section was broken by an edit prepares nothing.                      *)
RunsCarryPublishedStack ==
    \A r \in Run :
        run[r].stage # "absent" =>
            LET w == ver[run[r].wv] IN
            /\ w.status = "published" /\ w.item = run[r].item
            /\ run[r].av = w.content.pin /\ SoundPin(run[r].av, run[r].item)
            /\ run[r].stage = "proposed" => /\ run[r].workflow = w.content
                                            /\ run[r].agent = ver[run[r].av].content
            /\ run[r].stage = "queued" => AiValid(ver[run[r].av].content.body)
                                          /\ w.content.body = "erp"

-------------------------------------------------------------------------------
(* The catalog implements the promise of VersionShelf.                     *)
Numbered(i, n) == CHOOSE v \in VersionsOf(i) : ver[v].number = n
ShelfOf(i) ==
    [n \in 1..Cardinality(VersionsOf(i)) |->
        [status |-> ver[Numbered(i, n)].status, content |-> ver[Numbered(i, n)].content]]
Shelf == INSTANCE VersionShelf WITH Content <- {s.content : s \in Submission},
                                    shelf <- [i \in Item |-> ShelfOf(i)]
ImplementsVersionShelf == Shelf!Spec
===============================================================================
