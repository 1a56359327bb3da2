----------------------------- MODULE MCAiScenarios ----------------------------
(* Five instances of AiPlatform in one run of TLC: each behaviour keeps to *)
(* the requests, days and workers of one scenario.                         *)
EXTENDS MCAiPlatform

VARIABLE scenario

Scenario ==
    {[requests |-> OnePreparation, days |-> 2, workers |-> {w1, w2}],
     [requests |-> BudgetUnder(1), days |-> 1, workers |-> {w1}],
     [requests |-> BudgetUnder(2), days |-> 1, workers |-> {w1}],
     [requests |-> ChangingBudget, days |-> 1, workers |-> {}],
     [requests |-> LoweredBudget, days |-> 1, workers |-> {}]}

AllRequests == UNION {s.requests : s \in Scenario}

Within(s) ==
    /\ \A q \in Slot : req[q].pc # "idle" => req[q].sub \in s.requests
    /\ \A w \in Worker : worker[w] # Resting => w \in s.workers
    /\ today <= s.days

MCInit == Init /\ scenario \in Scenario
MCNext == Next /\ UNCHANGED scenario /\ Within(scenario)'
MCSpec == MCInit /\ [][MCNext]_<<aiVars, scenario>>
===============================================================================
