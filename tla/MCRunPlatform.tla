---------------------------- MODULE MCRunPlatform -----------------------------
(* Instances of RunPlatform for TLC: small sets of tenants, principals and *)
(* requests.                                                               *)
EXTENDS RunPlatform

CONSTANTS t1, t2, olga, anna, ugo, erp, m365, erp2, draft, r1, r2, m1, k1, k2, w1, w2, q1, q2

MCTenantOf == [p \in {olga, anna, ugo} |-> IF p = ugo THEN t2 ELSE t1]
MCRolesOf == [p \in {olga, anna, ugo} |->
                IF p = olga THEN {"operator"} ELSE IF p = anna THEN {"approver"} ELSE {"owner"}]
MCWorkflowTenant == [f \in {erp, m365, erp2, draft} |-> IF f \in {erp, m365} THEN t1 ELSE t2]
MCConnectorOf == [f \in {erp, m365, erp2, draft} |->
                    CASE f \in {erp, erp2} -> "simulated_erp"
                      [] f = m365 -> "m365_mail_intake_v1"
                      [] f = draft -> None]

Sub(operation, p, k, target, source, body) ==
    [op |-> operation, principal |-> p, key |-> k, target |-> target,
     source |-> source, body |-> body]

(* One run, proposed, decided and executed; the approval may lose against  *)
(* the rejection and each request may be sent twice.                       *)
LifecycleRequests ==
    {Sub("run.dry_run", olga, k1, m365, None, "plain"),
     Sub("run.approve", anna, k1, r1, None, "same_hash"),
     Sub("run.reject", anna, k1, r1, None, "plain"),
     Sub("run.execute", olga, k1, r1, None, "plain")}

(* Two keys over two runs: keys reused for another run, another actor or   *)
(* another payload, a role that may not decide, an owner of another tenant *)
(* and a stale proposal hash.                                              *)
KeyRequests ==
    {Sub("run.dry_run", olga, k, erp, None, "plain") : k \in {k1, k2}} \cup
    {Sub("run.approve", anna, k1, r, None, "same_hash") : r \in {r1, r2}} \cup
    {Sub("run.approve", anna, k2, r1, None, "other_hash"),
     Sub("run.approve", olga, k2, r1, None, "same_hash"),
     Sub("run.approve", ugo, k1, r1, None, "same_hash"),
     Sub("run.reject", anna, k2, r1, None, "plain"),
     Sub("run.execute", olga, k1, r1, None, "plain"),
     Sub("run.execute", ugo, k1, r1, None, "plain")}

(* Preparations from one message under two keys and two readings, beside   *)
(* the same message in another tenant.                                     *)
MailRequests ==
    {Sub("run.from_mail", olga, k, erp, m1, "matched") : k \in {k1, k2}} \cup
    {Sub("run.from_mail", olga, k1, erp, m1, "mismatched"),
     Sub("run.from_mail", olga, k2, erp, m1, "invalid"),
     Sub("run.from_mail", olga, k1, m365, m1, "matched"),
     Sub("run.from_mail", ugo, k1, erp2, m1, "matched"),
     Sub("run.from_mail", ugo, k1, draft, m1, "matched"),
     Sub("run.from_mail", ugo, k1, erp, m1, "matched"),
     Sub("run.approve", anna, k1, r1, None, "same_hash"),
     Sub("run.reject", anna, k1, r1, None, "plain"),
     Sub("run.execute", olga, k1, r1, None, "plain")}

(* One preparation, sent twice.                                            *)
RepeatedMail == {Sub("run.from_mail", olga, k1, erp, m1, "matched")}

(* Two runs that share one worker.                                         *)
SharedWorkerRequests ==
    {Sub("run.dry_run", olga, k1, m365, None, "plain"),
     Sub("run.dry_run", olga, k2, erp, None, "plain"),
     Sub("run.approve", anna, k1, r1, None, "same_hash"),
     Sub("run.approve", anna, k2, r2, None, "same_hash"),
     Sub("run.execute", olga, k1, r1, None, "plain"),
     Sub("run.execute", olga, k2, r2, None, "plain")}
===============================================================================
