------------------------------ MODULE AiPlatform ------------------------------
(***************************************************************************)
(* The AI preparation API and the AI workers over one database.            *)
(***************************************************************************)
EXTENDS AiRequests, AiWorker, Functions

aiVars == <<aiStoreVars, req, aiWorkerVars>>

Init == AiStoreInit /\ AiRequestInit /\ AiWorkerInit

Next == \/ AiRequestNext /\ UNCHANGED aiWorkerVars
        \/ AiWorkerNext /\ UNCHANGED req

Spec == Init /\ [][Next]_aiVars

(* A worker that is not killed finishes process_once, whose calls time     *)
(* out; idle workers poll; leases run out.  Nothing bounds the crashes.    *)
Fairness ==
    /\ \A w \in Worker : WF_aiVars(Work(w) /\ UNCHANGED req)
    /\ \A p \in Preparation :
          /\ WF_aiVars(LeaseExpire(p) /\ UNCHANGED req)
          /\ WF_aiVars((\E w \in Worker : Claim(w, p)) /\ UNCHANGED req)

FairSpec == Spec /\ Fairness

-------------------------------------------------------------------------------
(* The shape of every row, every request handler and every worker.         *)
AiTypeOK == AiStoreTypeOK /\ AiRequestTypeOK /\ AiWorkerTypeOK

(* The budget ledger balances every day: what a day's bucket holds back is *)
(* exactly the reservations of its preparations that are waiting, at work  *)
(* or of unknown outcome, and what it counts as used is what the settled   *)
(* ones report, although handlers and workers add to it concurrently.      *)
Holding == {"queued", "processing", "unknown"}
Settled == {"completed", "failed"}
PreparedOn(d, statuses) == {p \in Preparation : prep[p].day = d /\ prep[p].status \in statuses}
ReservedBy == [p \in Preparation |-> prep[p].reserved]
UsedBy == [p \in Preparation |-> prep[p].used]
LedgerBalances ==
    \A d \in Day :
        /\ bucket[d].reserved = SumFunctionOnSet(ReservedBy, PreparedOn(d, Holding))
        /\ bucket[d].used = SumFunctionOnSet(UsedBy, PreparedOn(d, Settled))

(* What a day uses and reserves together stays within a daily limit that   *)
(* some version of the tenant's policy has set, and within the deployment's*)
(* cap, up to what providers reported beyond their reservations: no two    *)
(* enqueues take the same room, and one that read a policy which has been  *)
(* lowered since takes no more than that policy gave.                      *)
PolicyWrites == {k \in AiScope : k[1] = "ai.policy.put" /\ idem[k] # None}
DailyLimits == {idem[k].sub.limits.daily : k \in PolicyWrites}
ExcessOf == [p \in Preparation |-> IF prep[p].used # None /\ prep[p].used > prep[p].reserved
                                   THEN prep[p].used - prep[p].reserved ELSE 0]
SpendWithinLimits ==
    \A d \in Day : \E limit \in {0} \cup DailyLimits :
        bucket[d].used + bucket[d].reserved
            <= Smaller(limit, HardDaily) + SumFunctionOnSet(ExcessOf, PreparedOn(d, Settled))

(* README.md: "Un crash dopo il claim non causa una seconda spesa": a      *)
(* preparation's provider is called at most once, by at most one worker,   *)
(* and only after its invocation row is committed.                         *)
Spending(p) == {w \in Worker : worker[w].prep = p /\ worker[w].pc = "ready"}
OneCallPerPreparation ==
    \A p \in Preparation : /\ sent[p] + Cardinality(Spending(p)) <= 1
                           /\ sent[p] > 0 => inv[p] # "none"

(* The preparation, its event and its invocation tell the same story.      *)
PreparationAgreement ==
    \A p \in Preparation :
        LET status == prep[p].status IN
        /\ status = "absent" => event[p].status = "none" /\ inv[p] = "none"
        /\ status \notin {"absent", "completed"} => event[p].status = status
        /\ status = "completed" => event[p].status = "processed"
        /\ status = "queued" => inv[p] = "none"
        /\ status = "processing" => inv[p] = "started"
        /\ status \in Terminal => inv[p] = status
        /\ (event[p].owner # None) <=> (status = "processing")

(* A source message prepares at most one run, by the AI path or by the     *)
(* mail route, and a completed preparation is the one its source's claim   *)
(* names; a preparation that failed keeps its source claimed without a run.*)
OneRunPerSource ==
    /\ \A s \in Source : proposed[s] = IF claim[s].run THEN 1 ELSE 0
    /\ \A p \in Preparation :
          prep[p].status # "absent" =>
              claim[prep[p].source] = [prep |-> p, run |-> prep[p].status = "completed"]

(* Every preparation was queued by exactly one recorded request, and the   *)
(* record names a preparation of the source the request carried.           *)
RecordsOf(p) == {k \in AiScope : /\ k[1] = "ai.preparation.create"
                                  /\ idem[k] # None /\ idem[k].resource = p}
OneRecordPerPreparation ==
    \A p \in Preparation :
        /\ Cardinality(RecordsOf(p)) = IF prep[p].status = "absent" THEN 0 ELSE 1
        /\ \A k \in RecordsOf(p) : idem[k].sub.source = prep[p].source

(* No policy update is lost: the recorded puts wrote each version up to    *)
(* the current one once, each over the version its client had read.        *)
NoLostPolicyUpdate ==
    /\ {idem[k].resource : k \in PolicyWrites}
          = 1..(IF policy = None THEN 0 ELSE policy.version)
    /\ \A k \in PolicyWrites :
          idem[k].resource = IF idem[k].resource = 1 THEN 1 ELSE idem[k].sub.version + 1
    /\ \A j, k \in PolicyWrites : idem[j].resource = idem[k].resource => j = k

(* The audit trail of a preparation read alone gives its status.           *)
AiTrailTellsStatus ==
    \A p \in Preparation :
        LET status == prep[p].status IN
        audit[p] = CASE status = "absent" -> <<>>
                     [] status = "queued" -> <<"ai_preparation_queued">>
                     [] status = "processing" ->
                           <<"ai_preparation_queued", "ai_preparation_started">>
                     [] OTHER -> <<"ai_preparation_queued", "ai_preparation_started",
                                   EventOf(status)>>

(* A settled preparation never changes again, nor does the spending it     *)
(* settled: a worker whose claim was taken over drops its result.          *)
SettledPreparationIsFinal ==
    [][\A p \in Preparation : prep[p].status \in Terminal =>
          /\ prep'[p] = prep[p] /\ inv'[p] = inv[p] /\ audit'[p] = audit[p]
          /\ claim'[prep[p].source] = claim[prep[p].source]]_aiVars

(* Every queued preparation reaches an outcome, however often workers die. *)
PreparationSettles ==
    \A p \in Preparation : prep[p].status = "queued" ~> prep[p].status \in Terminal

-------------------------------------------------------------------------------
(* README.md: "La reservation resta contabilizzata negli esiti ambigui":   *)
(* a finalization after a call whose usage is not known leaves the bucket. *)
AmbiguousCallKeepsReservation ==
    [][\A w \in Worker :
          (/\ worker[w].pc = "answered" /\ worker[w].outcome \notin Answered \cup {"refused"}
           /\ worker'[w] = Resting) => bucket' = bucket]_aiVars
===============================================================================
