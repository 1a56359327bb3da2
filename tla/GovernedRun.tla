------------------------------ MODULE GovernedRun -----------------------------
(***************************************************************************)
(* What the platform promises of a run, without requests, rows or workers: *)
(* it is proposed once, decided once, executed only after an approval and  *)
(* on request, the outside world is touched only while execution is        *)
(* pending, and an outcome is final and follows a touch.                   *)
(***************************************************************************)
CONSTANT Run

VARIABLES stage,    \* where each run is in its life
          touched   \* whether its connector has been called

Outcomes == {"executed", "failed", "unknown"}

Init == stage = [r \in Run |-> "absent"] /\ touched = [r \in Run |-> FALSE]

Move(r, from, to) == stage[r] = from /\ stage' = [stage EXCEPT ![r] = to]

Propose(r) == Move(r, "absent", "proposed") /\ UNCHANGED touched
Decide(r, decision) == Move(r, "proposed", decision) /\ UNCHANGED touched
Request(r) == Move(r, "approved", "execution_pending") /\ UNCHANGED touched

Touch(r) == /\ stage[r] = "execution_pending"
            /\ touched' = [touched EXCEPT ![r] = TRUE]
            /\ UNCHANGED stage

Settle(r, outcome) == /\ touched[r]
                      /\ Move(r, "execution_pending", outcome)
                      /\ UNCHANGED touched

Next == \E r \in Run : \/ Propose(r) \/ Request(r) \/ Touch(r)
                       \/ \E decision \in {"approved", "rejected"} : Decide(r, decision)
                       \/ \E outcome \in Outcomes : Settle(r, outcome)

Spec == Init /\ [][Next]_<<stage, touched>>
===============================================================================
