---------------------------- MODULE MCLegacyDraft -----------------------------
(* Instances of LegacyDraft for TLC.                                       *)
EXTENDS LegacyDraft

CONSTANTS d1, d2, anna, bruno, k1, k2, q1, q2

Sub(operation, actor, k, target, body) ==
    [op |-> operation, actor |-> actor, key |-> k, target |-> target, body |-> body]

(* One draft: two decisions and two keys that compete for its simulation.  *)
LifeRequests ==
    {Sub("dry_run", anna, k1, None, "plain"),
     Sub("approve", anna, k1, d1, "same_hash"),
     Sub("reject", bruno, k1, d1, "plain"),
     Sub("simulate", anna, k1, d1, "plain"),
     Sub("simulate", anna, k2, d1, "plain")}

(* Two drafts, keys used again for another draft, actor or payload.        *)
KeyRequests ==
    {Sub("dry_run", anna, k, None, "plain") : k \in {k1, k2}} \cup
    {Sub("approve", anna, k1, d, "same_hash") : d \in {d1, d2}} \cup
    {Sub("dry_run", anna, k1, None, "other"),
     Sub("approve", bruno, k1, d1, "same_hash"),
     Sub("approve", anna, k2, d1, "other_hash"),
     Sub("simulate", anna, k1, d1, "plain"),
     Sub("simulate", anna, k1, d2, "plain")}

(* Both together, for two handlers: any two of the requests may race.      *)
AllRequests == LifeRequests \cup KeyRequests
===============================================================================
