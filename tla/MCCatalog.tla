------------------------------- MODULE MCCatalog ------------------------------
(* Four instances of Catalog in one run of TLC: each behaviour keeps to    *)
(* the requests and rows of one scenario.                                  *)
EXTENDS Catalog

CONSTANTS t1, t2, olga, anna, ugo, a1, a2, f1, v1, v2, v3, r1, s1, q1, q2

MCTenantOf == [p \in {olga, anna, ugo} |-> IF p = ugo THEN t2 ELSE t1]
MCRolesOf == [p \in {olga, anna, ugo} |-> IF p = anna THEN {"operator"} ELSE {"owner"}]

Text(pin, body) == [pin |-> pin, body |-> body]
Sub(operation, p, i, v, lock, text) ==
    [op |-> operation, principal |-> p, item |-> i, slug |-> s1, version |-> v,
     lock |-> lock, content |-> text]

(* One agent, whose versions are created, edited and published by requests *)
(* that name older and newer lock versions.                                *)
AgentRequests ==
    {Sub("create_item", olga, a1, None, 0, Text(None, "plain")),
     Sub("create_version", olga, a1, None, 0, Text(None, "plain")),
     Sub("create_version", olga, a1, None, 0, Text(None, "bad_ai")),
     Sub("publish", anna, a1, v1, 1, Text(None, "plain")),
     Sub("publish", olga, a1, v2, 1, Text(None, "plain"))} \cup
    {Sub("update", olga, a1, v1, lock, Text(None, body)) :
        lock \in 1..2, body \in {"plain", "revised"}} \cup
    {Sub("publish", olga, a1, v1, lock, Text(None, "plain")) : lock \in 1..2}

(* One workflow and the agent it pins, from the pin to the run: with two   *)
(* versions of the workflow, and with an agent whose AI section is broken  *)
(* by an edit.                                                             *)
StackRequests ==
    {Sub("create_item", olga, i, None, 0, IF i = a1 THEN Text(None, "plain") ELSE Text(v1, "erp")) :
        i \in {a1, f1}} \cup
    {Sub("create_version", olga, a1, None, 0, Text(None, "plain")),
     Sub("create_version", olga, f1, None, 0, Text(v1, "erp")),
     Sub("publish", olga, a1, v1, 1, Text(None, "plain")),
     Sub("publish", olga, f1, v2, 1, Text(v1, "erp")),
     Sub("prepare", anna, f1, None, 0, Text(v1, "erp"))}
WorkflowRequests ==
    StackRequests \cup
    {Sub("update", olga, f1, v2, 1, Text(v1, "m365")),
     Sub("publish", olga, f1, v2, 2, Text(v1, "erp")),
     Sub("publish", olga, f1, v3, 1, Text(v1, "erp")),
     Sub("dry_run", anna, f1, None, 0, Text(v1, "erp"))}
BrokenAiRequests ==
    StackRequests \cup
    {Sub("update", olga, a1, v1, 1, Text(None, "bad_ai")),
     Sub("publish", olga, a1, v1, 2, Text(None, "plain"))}

(* The same names in another tenant.                                       *)
TenantRequests ==
    {Sub("create_item", p, i, None, 0, IF i \in {a1, a2} THEN Text(None, "plain") ELSE Text(v1, "erp")) :
        p \in {olga, ugo}, i \in {a1, a2, f1}} \cup
    {Sub("create_version", p, a1, None, 0, Text(None, "plain")) : p \in {olga, ugo}} \cup
    {Sub("create_version", olga, f1, None, 0, Text(v1, "bad_pair")),
     Sub("update", olga, f1, v2, 1, Text(v2, "erp"))} \cup
    {Sub("publish", p, a1, v1, 1, Text(None, "plain")) : p \in {olga, ugo}} \cup
    {Sub("create_version", p, f1, None, 0, Text(v1, "erp")) : p \in {olga, ugo}} \cup
    {Sub("publish", p, f1, v2, 1, Text(v1, "erp")) : p \in {olga, ugo}} \cup
    {Sub("dry_run", p, f1, None, 0, Text(v1, "erp")) : p \in {olga, ugo}}

VARIABLE scenario

Scenario ==
    {[requests |-> AgentRequests, versions |-> {v1, v2}, runs |-> {}],
     [requests |-> WorkflowRequests, versions |-> {v1, v2, v3}, runs |-> {r1}],
     [requests |-> BrokenAiRequests, versions |-> {v1, v2}, runs |-> {r1}],
     [requests |-> TenantRequests, versions |-> {v1, v2}, runs |-> {r1}]}

AllRequests == UNION {s.requests : s \in Scenario}

Within(s) ==
    /\ \A q \in Slot : req[q].pc # "idle" => req[q].sub \in s.requests
    /\ \A v \in Version : Exists(v) => v \in s.versions
    /\ \A r \in Run : run[r].stage # "absent" => r \in s.runs

MCInit == Init /\ scenario \in Scenario
MCNext == Next /\ UNCHANGED scenario /\ Within(scenario)'
MCSpec == MCInit /\ [][MCNext]_<<vars, scenario>>
===============================================================================
