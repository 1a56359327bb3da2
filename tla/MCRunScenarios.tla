---------------------------- MODULE MCRunScenarios ----------------------------
(* Three instances of RunPlatform in one run of TLC: each behaviour keeps  *)
(* to the requests, runs and workers of one scenario.                      *)
EXTENDS MCRunPlatform

VARIABLE scenario

Scenario ==
    {[requests |-> LifecycleRequests, runs |-> {r1}, workers |-> {w1, w2}],
     [requests |-> KeyRequests, runs |-> {r1, r2}, workers |-> {w1}],
     [requests |-> MailRequests, runs |-> {r1, r2}, workers |-> {w1}]}

AllRequests == UNION {s.requests : s \in Scenario}

Within(s) ==
    /\ \A q \in Slot : req[q].pc # "idle" => req[q].sub \in s.requests
    /\ \A r \in Run : run[r].status # "absent" => r \in s.runs
    /\ \A w \in Worker : worker[w] # Resting => w \in s.workers

MCInit == Init /\ scenario \in Scenario
MCNext == Next /\ UNCHANGED scenario /\ Within(scenario)'
MCSpec == MCInit /\ [][MCNext]_<<vars, scenario>>
===============================================================================
