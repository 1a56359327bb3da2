----------------------------- MODULE MCAiPlatform -----------------------------
(* Instances of AiPlatform for TLC.                                        *)
EXTENDS AiPlatform, TLC

(* Identifiers and request handlers that no request names: TLC may take    *)
(* one for the other.                                                      *)
Interchangeable == Permutations(Preparation) \cup Permutations(Slot)

CONSTANTS olga, otto, p1, p2, m1, m2, k1, k2, k3, w1, w2, q1, q2

Prep(p, k, workflow, source) ==
    [op |-> "ai.preparation.create", principal |-> p, key |-> k, workflow |-> workflow,
     source |-> source, limits |-> None, version |-> 0]
Put(p, k, version, enabled, provider, max, daily) ==
    [op |-> "ai.policy.put", principal |-> p, key |-> k, workflow |-> None, source |-> None,
     limits |-> [enabled |-> enabled, provider |-> provider, max |-> max, daily |-> daily],
     version |-> version]

(* One policy and one source message: two workers over its preparation.    *)
OnePreparation ==
    {Put(olga, k1, 1, TRUE, "openai", 1, 2), Put(olga, k2, 1, FALSE, "openai", 1, 2),
     Prep(otto, k1, "sales_order", m1)}

(* Two messages that compete for the day's budget under a small or a large *)
(* limit for each, or while the owner changes the limit of one preparation *)
(* or lowers that of the day.                                              *)
BudgetUnder(max) ==
    {Put(olga, k1, 1, TRUE, "fake", max, 2),
     Prep(otto, k1, "sales_order", m1), Prep(otto, k2, "sales_order", m2)}
ChangingBudget == BudgetUnder(1) \cup {Put(olga, k2, 1, TRUE, "fake", 2, 2)}
LoweredBudget == BudgetUnder(1) \cup {Put(olga, k2, 1, TRUE, "fake", 1, 1)}

(* Keys and versions reused by other requests, sources claimed twice, and  *)
(* requests that are refused.                                              *)
Contention ==
    {Put(olga, k1, 1, TRUE, "fake", 2, 4), Put(olga, k2, 1, TRUE, "fake", 1, 4),
     Put(olga, k1, 2, TRUE, "fake", 2, 4), Put(olga, k2, 1, TRUE, "fake", 2, 9),
     Put(otto, k2, 1, TRUE, "fake", 2, 4),
     Prep(otto, k1, "sales_order", m1), Prep(otto, k2, "sales_order", m1),
     Prep(olga, k1, "sales_order", m2), Prep(otto, k2, "other", m2)}
===============================================================================
