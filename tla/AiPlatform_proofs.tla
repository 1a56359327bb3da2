--------------------------- MODULE AiPlatform_proofs ---------------------------
(***************************************************************************)
(* Theorems about AiPlatform, for every set of preparations, sources, days,*)
(* principals, keys, handlers and workers and every cap and bound.         *)
(***************************************************************************)
EXTENDS AiPlatform, FiniteSetTheorems, SequenceTheorems, TLAPS

(* A handler that will reserve has read a policy, and no policy is ever    *)
(* deleted.                                                                *)
HandlersInformed ==
    \A q \in Slot :
        /\ (req[q].pc \in {"claim", "commit"} /\ req[q].sub.op = "ai.preparation.create")
              => req[q].seen \in Policy
        /\ req[q].seen # None => policy # None

(* A preparation keeps the source message of its request, and one whose    *)
(* budget is settled the usage it was settled with.                        *)
RowsComplete ==
    \A p \in Preparation :
        /\ prep[p].status # "absent" => prep[p].source \in Source
        /\ prep[p].status \in Settled => prep[p].used \in Nat

(* Every policy that is or was read has the daily limit of a recorded PUT. *)
LimitsRecorded ==
    /\ policy # None => policy.daily \in DailyLimits
    /\ \A q \in Slot : req[q].seen # None => req[q].seen.daily \in DailyLimits

(* What a step needs to know of the rows it reads.                         *)
AiRowsOK == AiTypeOK /\ HandlersInformed /\ LimitsRecorded /\ RowsComplete /\ PreparationAgreement

(* A worker that is at work committed the invocation of its preparation,   *)
(* which nobody else can have done, and no request is out before its call. *)
WorkersOnce ==
    /\ \A w \in Worker : worker[w].pc # "idle" => inv[worker[w].prep] # "none"
    /\ \A v, w \in Worker :
          (worker[v].pc # "idle" /\ worker[w].pc # "idle" /\ worker[v].prep = worker[w].prep)
             => v = w
    /\ \A w \in Worker :
          worker[w].pc \in {"claimed", "loaded", "ready"} => sent[worker[w].prep] = 0
    /\ \A p \in Preparation : sent[p] <= 1 /\ (sent[p] > 0 => inv[p] # "none")

(* The records that name a preparation: none, or one of its own source.    *)
RecordsTell ==
    \A p \in Preparation :
        IF prep[p].status = "absent" THEN RecordsOf(p) = {}
        ELSE \E k \in AiScope : RecordsOf(p) = {k} /\ idem[k].sub.source = prep[p].source

(* The preparations that exist, however many identifiers there are.        *)
Existing == {p \in Preparation : prep[p].status # "absent"}
FinitelyMany == IsFiniteSet(Existing)
-------------------------------------------------------------------------------
(* What a handler is at, what a worker is at.                              *)
Handler == [pc : Pc, sub : Submission \cup {None}, seen : Policy \cup {None},
            reply : Reply \cup {None}]
WorkerRow == [pc : WorkerPc, prep : Preparation \cup {None}, version : Nat, valid : BOOLEAN,
              outcome : Outcome \cup {None}, used : Nat \cup {None}]

(* The scope of a request is a scope, and starts with its operation.       *)
LEMMA AiScopeType ==
    ASSUME NEW s \in Submission
    PROVE  /\ ScopeOf(s) \in AiScope /\ ScopeOf(s)[1] = s.op
           /\ s.op \in Operation /\ s.key \in Key /\ s.version \in Nat
           /\ s.op = "ai.policy.put" => s.limits \in Limits
           /\ s.op = "ai.preparation.create" => s.source \in Source
BY AiSubmissionAssumption, AiTargetAssumption DEF ScopeOf, AiScope

(* Refusals, acceptances and replays are answers.                          *)
LEMMA AiRefusedType ==
    ASSUME NEW code \in {403, 404, 409}, NEW detail \in Detail
    PROVE  Refused(code, detail) \in Reply
BY DEF Refused, Reply

LEMMA AiAcceptedType ==
    ASSUME NEW s \in Submission, NEW resource \in Preparation \cup Nat
    PROVE  Accepted(s, resource) \in Reply
BY DEF Accepted, Reply, Detail

LEMMA AiReplayType ==
    ASSUME AiRequestTypeOK, NEW s \in Submission
    PROVE  Replay(s) \in Reply \cup {None}
<1>1. idem[ScopeOf(s)] \in IdemRecord \cup {None}
  BY AiScopeType DEF AiRequestTypeOK
<1>2. CASE idem[ScopeOf(s)] = None
  BY <1>2 DEF Replay
<1>3. CASE idem[ScopeOf(s)] \in IdemRecord
  <2>1. Accepted(s, idem[ScopeOf(s)].resource) \in Reply
    BY <1>3, AiAcceptedType DEF IdemRecord
  <2>2. Refused(409, "idempotency_key_reused") \in Reply
    BY AiRefusedType DEF Detail
  <2> QED BY <2>1, <2>2 DEF Replay
<1> QED BY <1>1, <1>2, <1>3

(* A handler is replaced by another well-formed one.                       *)
LEMMA HandlerBecomes ==
    ASSUME AiRequestTypeOK, HandlersInformed, NEW q \in Slot, NEW h \in Handler,
           req' = [req EXCEPT ![q] = h],
           h.pc # "idle" => h.sub \in Submission,
           h.pc = "done" => h.reply \in Reply,
           h.pc \in {"claim", "commit"} /\ h.sub.op = "ai.preparation.create" => h.seen \in Policy,
           h.seen # None => policy' # None,
           policy # None => policy' # None,
           idem' \in [AiScope -> IdemRecord \cup {None}]
    PROVE  AiRequestTypeOK' /\ HandlersInformed'
<1>1. req \in [Slot -> Handler] /\ \A z \in Slot : req'[z] = IF z = q THEN h ELSE req[z]
  BY DEF AiRequestTypeOK, Handler
<1>2. req' \in [Slot -> Handler]
  BY <1>1
<1>3. AiRequestTypeOK'
  <2>1. \A z \in Slot : /\ req'[z].pc # "idle" => req'[z].sub \in Submission
                        /\ req'[z].pc = "done" => req'[z].reply \in Reply
    BY <1>1 DEF AiRequestTypeOK
  <2> QED BY <1>2, <2>1 DEF AiRequestTypeOK, Handler
<1>4. HandlersInformed'
  BY <1>1 DEF HandlersInformed
<1> QED BY <1>3, <1>4

(* A handler that answers stays well formed.                               *)
LEMMA AnswerKeeps ==
    ASSUME AiRequestTypeOK, HandlersInformed, NEW q \in Slot, NEW reply \in Reply,
           Answer(q, reply), req[q].pc # "idle", policy # None => policy' # None,
           idem' \in [AiScope -> IdemRecord \cup {None}]
    PROVE  AiRequestTypeOK' /\ HandlersInformed'
<1> DEFINE h == [req[q] EXCEPT !.pc = "done", !.reply = reply]
<1>1. req[q] \in Handler /\ req[q].sub \in Submission
  BY DEF AiRequestTypeOK, Handler
<1>2. req' = [req EXCEPT ![q] = h]
  BY DEF Answer, AiRequestTypeOK
<1>3. /\ h \in Handler /\ h.pc = "done" /\ h.sub \in Submission
      /\ h.reply \in Reply /\ h.seen = req[q].seen
  BY <1>1 DEF Handler, Pc
<1>4. h.seen # None => policy' # None
  BY <1>3 DEF HandlersInformed
<1> HIDE DEF h
<1> QED BY <1>2, <1>3, <1>4, HandlerBecomes

(* A worker is replaced by another well-formed one.                        *)
LEMMA WorkerBecomes ==
    ASSUME AiWorkerTypeOK, NEW w \in Worker, NEW h \in WorkerRow,
           worker' = [worker EXCEPT ![w] = h],
           h.pc # "idle" => h.prep \in Preparation,
           h.pc = "answered" => h.outcome \in Outcome,
           h.outcome \in Answered => h.used \in Nat,
           event' \in [Preparation -> EventRow], sent' \in [Preparation -> Nat]
    PROVE  AiWorkerTypeOK'
<1>1. worker \in [Worker -> WorkerRow] /\ \A z \in Worker : worker'[z] = IF z = w THEN h ELSE worker[z]
  BY DEF AiWorkerTypeOK, WorkerRow
<1>2. worker' \in [Worker -> WorkerRow]
  BY <1>1
  <1>3. \A z \in Worker : /\ worker'[z].pc # "idle" => worker'[z].prep \in Preparation
                          /\ worker'[z].pc = "answered" => worker'[z].outcome \in Outcome
                          /\ worker'[z].outcome \in Answered => worker'[z].used \in Nat
  BY <1>1 DEF AiWorkerTypeOK
<1> QED BY <1>2, <1>3 DEF AiWorkerTypeOK, WorkerRow

(* A worker at rest is well formed.                                        *)
LEMMA RestingType ==
    /\ Resting \in WorkerRow /\ Resting.pc = "idle" /\ Resting.outcome = None
    /\ None \notin Answered /\ None \notin Outcome
BY AiWorkerAssumption DEF Resting, WorkerRow, WorkerPc, Answered, Outcome
-------------------------------------------------------------------------------
(* What a step does to the rows, whoever takes it: the rows of preparation *)
(* p move on together.                                                     *)
Moves(p, row, e, i, type) ==
    /\ prep' = [prep EXCEPT ![p] = row]
    /\ event' = [event EXCEPT ![p] = e]
    /\ inv' = [inv EXCEPT ![p] = i]
    /\ audit' = [audit EXCEPT ![p] = Append(@, type)]

(* The rows stay; the day may change.                                      *)
Quiet ==
    /\ UNCHANGED <<policy, bucket, prep, event, inv, claim, proposed, audit, idem>>
    /\ today' \in Day

LeaseLost(p) ==
    /\ event' = [event EXCEPT ![p].live = FALSE]
    /\ UNCHANGED <<policy, bucket, prep, inv, claim, proposed, audit, idem, today>>

PolicyWritten(s, version) ==
    /\ s.op = "ai.policy.put" /\ KeyFree(s) /\ version \in Nat
    /\ IF policy = None THEN version = 1
       ELSE version = policy.version + 1 /\ policy.version = s.version
    /\ policy' \in Policy /\ policy'.version = version /\ policy'.daily = s.limits.daily
    /\ Remember(s, version)
    /\ UNCHANGED <<bucket, prep, event, inv, claim, proposed, audit, today>>

Enqueued(s, p, row) ==
    /\ s.op = "ai.preparation.create" /\ KeyFree(s) /\ SourceFree(s)
    /\ prep[p].status = "absent"
    /\ row.status = "queued" /\ row.source = s.source /\ row.day = today
    /\ Moves(p, row, [event[p] EXCEPT !.status = "queued"], inv[p], "ai_preparation_queued")
    /\ bucket' = [bucket EXCEPT ![today].reserved = @ + row.reserved]
    /\ \E limit \in DailyLimits \cap Nat :
          bucket[today].used + bucket[today].reserved + row.reserved <= Smaller(limit, HardDaily)
    /\ claim' = [claim EXCEPT ![s.source] = [prep |-> p, run |-> FALSE]]
    /\ Remember(s, p)
    /\ UNCHANGED <<policy, proposed, today>>

ByMail(s) ==
    /\ claim[s] = Unclaimed
    /\ claim' = [claim EXCEPT ![s].run = TRUE]
    /\ proposed' = [proposed EXCEPT ![s] = @ + 1]
    /\ UNCHANGED <<policy, bucket, prep, event, inv, audit, idem, today>>

Started(p, e) ==
    /\ prep[p].status = "queued" /\ inv[p] = "none"
    /\ e.status = "processing" /\ e.owner \in Worker
    /\ Moves(p, [prep[p] EXCEPT !.status = "processing"], e, "started", "ai_preparation_started")
    /\ UNCHANGED <<policy, bucket, claim, proposed, idem, today>>

GivenUp(p, e) ==
    /\ prep[p].status = "processing"
    /\ e.status = "unknown" /\ e.owner = None
    /\ Moves(p, [prep[p] EXCEPT !.status = "unknown"], e, "unknown", "ai_preparation_unknown")
    /\ UNCHANGED <<policy, bucket, claim, proposed, idem, today>>

ClosedAs(p, status, used, e) ==
    /\ prep[p].status = "processing"
    /\ e.status = EventOutcome(status) /\ e.owner = None
    /\ Moves(p, [prep[p] EXCEPT !.status = status, !.used = used], e, status, EventOf(status))
    /\ bucket[prep[p].day].reserved >= prep[p].reserved
    /\ bucket' = [bucket EXCEPT ![prep[p].day] =
                     [used |-> @.used + used, reserved |-> @.reserved - prep[p].reserved]]
    /\ IF status = "completed"
       THEN /\ claim[prep[p].source] = [prep |-> p, run |-> FALSE]
            /\ claim' = [claim EXCEPT ![prep[p].source].run = TRUE]
            /\ proposed' = [proposed EXCEPT ![prep[p].source] = @ + 1]
       ELSE UNCHANGED <<claim, proposed>>
    /\ UNCHANGED <<policy, idem, today>>

RowStep ==
    \/ Quiet
    \/ \E p \in Preparation : LeaseLost(p)
    \/ \E s \in Submission, version \in Nat : PolicyWritten(s, version)
    \/ \E s \in Submission, p \in Preparation, row \in PrepRow : Enqueued(s, p, row)
    \/ \E s \in Source : ByMail(s)
    \/ \E p \in Preparation, e \in EventRow : Started(p, e)
    \/ \E p \in Preparation, e \in EventRow : GivenUp(p, e)
    \/ \E p \in Preparation, status \in Settled, used \in Nat, e \in EventRow :
          ClosedAs(p, status, used, e)

(* A policy update writes the version after the one its client has read.   *)
LEMMA PutMoves ==
    ASSUME AiRowsOK, NEW q \in Slot, CommitPolicy(q)
    PROVE  \E s \in Submission, version \in Nat : PolicyWritten(s, version)
<1> DEFINE s == req[q].sub
           version == WrittenVersion(q)
<1>1. s \in Submission /\ s.op = "ai.policy.put" /\ s.limits \in Limits
  <2>1. req[q].pc # "idle" /\ s.op = "ai.policy.put"
    BY DEF CommitPolicy
  <2>2. s \in Submission
    BY <2>1 DEF AiRowsOK, AiTypeOK, AiRequestTypeOK
  <2> QED BY <2>1, <2>2, AiScopeType
<1>2. (req[q].seen = None <=> policy = None) /\ policy \in Policy \cup {None}
  BY DEF CommitPolicy, LockHolds, AiRowsOK, HandlersInformed, AiTypeOK, AiStoreTypeOK
<1>3. /\ version \in Nat
      /\ IF policy = None THEN version = 1
         ELSE version = policy.version + 1 /\ policy.version = s.version
  BY <1>2 DEF CommitPolicy, LockHolds, WrittenVersion, Policy
<1>4. policy' \in Policy /\ policy'.version = version /\ policy'.daily = s.limits.daily
  <2>1. policy' = [enabled |-> s.limits.enabled, provider |-> s.limits.provider,
                   max |-> s.limits.max, daily |-> s.limits.daily, version |-> version]
    BY DEF CommitPolicy
  <2> HIDE DEF version
  <2> QED BY <1>1, <1>3, <2>1 DEF Limits, Policy
<1>5. /\ KeyFree(s) /\ Remember(s, version)
      /\ UNCHANGED <<bucket, prep, event, inv, claim, proposed, audit, today>>
  BY DEF CommitPolicy
<1> HIDE DEF s, version
<1> QED BY <1>1, <1>3, <1>4, <1>5 DEF PolicyWritten

(* An enqueue reserves within a recorded limit and the cap, and makes one  *)
(* preparation.                                                            *)
LEMMA EnqueueMoves ==
    ASSUME AiRowsOK, NEW q \in Slot, CommitEnqueue(q)
    PROVE  \E s \in Submission, p \in Preparation, row \in PrepRow : Enqueued(s, p, row)
<1> DEFINE s == req[q].sub
           amount == Reservation(req[q].seen)
<1>1. s \in Submission /\ s.op = "ai.preparation.create" /\ s.source \in Source
  <2>1. req[q].pc = "commit" /\ s.op = "ai.preparation.create"
    BY DEF CommitEnqueue
  <2>2. s \in Submission
    BY <2>1 DEF AiRowsOK, AiTypeOK, AiRequestTypeOK
  <2> QED BY <2>1, <2>2, AiScopeType
<1>2. req[q].seen \in Policy
  BY <1>1 DEF CommitEnqueue, AiRowsOK, HandlersInformed
<1>3. amount \in Nat
  BY <1>2, AiCapAssumption DEF Reservation, Smaller, Policy
<1>4. /\ bucket \in [Day -> [used : Nat, reserved : Nat]] /\ today \in Day
      /\ event \in [Preparation -> EventRow] /\ inv \in [Preparation -> {"none", "started"} \cup Terminal]
  BY DEF AiRowsOK, AiTypeOK, AiStoreTypeOK, AiWorkerTypeOK
<1>5. \E limit \in DailyLimits \cap Nat :
         bucket[today].used + bucket[today].reserved + amount <= Smaller(limit, HardDaily)
  <2>1. req[q].seen # None
    BY <1>2, AiRowAssumption
  <2>2. req[q].seen.daily \in DailyLimits \cap Nat
    BY <1>2, <2>1 DEF AiRowsOK, LimitsRecorded, Policy
  <2>3. bucket[today].used + bucket[today].reserved + amount <= Smaller(req[q].seen.daily, HardDaily)
    BY DEF CommitEnqueue, BudgetLeft
  <2> QED BY <2>2, <2>3
<1> DEFINE row == [status |-> "queued", source |-> s.source, provider |-> req[q].seen.provider,
                   reserved |-> amount, day |-> today, used |-> None]
<1>6. row \in PrepRow
  BY <1>1, <1>2, <1>3, <1>4 DEF PrepRow, PrepStatus, Policy
<1>7. PICK p \in Preparation :
          /\ prep[p].status = "absent"
          /\ bucket' = [bucket EXCEPT ![today].reserved = @ + amount]
          /\ prep' = [prep EXCEPT ![p] = row]
          /\ event' = [event EXCEPT ![p].status = "queued"]
          /\ claim' = [claim EXCEPT ![s.source] = [prep |-> p, run |-> FALSE]]
          /\ AuditedAs(p, "ai_preparation_queued")
          /\ Remember(s, p)
  BY DEF CommitEnqueue
<1>8. Moves(p, row, [event[p] EXCEPT !.status = "queued"], inv[p], "ai_preparation_queued")
  <2>1. event' = [event EXCEPT ![p] = [event[p] EXCEPT !.status = "queued"]]
    BY <1>4, <1>7
  <2>2. inv' = [inv EXCEPT ![p] = inv[p]]
    BY <1>4 DEF CommitEnqueue
  <2> QED BY <1>7, <2>1, <2>2 DEF Moves, AuditedAs
<1>9. KeyFree(s) /\ SourceFree(s) /\ UNCHANGED <<policy, proposed, today>>
  BY DEF CommitEnqueue
<1>10. row.status = "queued" /\ row.source = s.source /\ row.day = today /\ row.reserved = amount
  OBVIOUS
<1> HIDE DEF s, amount, row
<1>11. Enqueued(s, p, row)
  BY <1>1, <1>5, <1>7, <1>8, <1>9, <1>10 DEF Enqueued
<1> QED BY <1>1, <1>6, <1>11

(* An event that can be claimed tells where its preparation is, and an     *)
(* owned one that its preparation is in process.                           *)
LEMMA ClaimableTells ==
    ASSUME AiRowsOK, NEW p \in Preparation, Claimable(p)
    PROVE  /\ ~Invoked(p) => prep[p].status = "queued"
           /\ Invoked(p) => prep[p].status = "processing"
<1>1. prep[p].status \in PrepStatus \cup {"absent"}
  BY DEF AiRowsOK, AiTypeOK, AiStoreTypeOK, PrepRow
<1> QED BY <1>1 DEF AiRowsOK, PreparationAgreement, Claimable, Invoked, PrepStatus, Terminal

LEMMA OwnerTells ==
    ASSUME AiRowsOK, NEW w \in Worker, worker[w].pc # "idle", Owns(w)
    PROVE  /\ worker[w].prep \in Preparation
           /\ prep[worker[w].prep].status = "processing"
<1>1. worker[w].prep \in Preparation
  BY DEF AiRowsOK, AiTypeOK, AiWorkerTypeOK
<1>2. prep[worker[w].prep].status \in PrepStatus \cup {"absent"}
  BY <1>1 DEF AiRowsOK, AiTypeOK, AiStoreTypeOK, PrepRow
<1> QED BY <1>1, <1>2 DEF AiRowsOK, PreparationAgreement, Owns, PrepStatus, Terminal

(* A first claim starts the preparation.                                   *)
LEMMA ClaimMoves ==
    ASSUME AiRowsOK, NEW w \in Worker, NEW p \in Preparation, ClaimFirst(w, p)
    PROVE  \E e \in EventRow : Started(p, e)
<1> DEFINE e == [status |-> "processing", owner |-> w, live |-> TRUE,
                 version |-> event[p].version + 1]
<1>1. /\ event \in [Preparation -> EventRow] /\ prep \in [Preparation -> PrepRow]
  BY DEF AiRowsOK, AiTypeOK, AiWorkerTypeOK, AiStoreTypeOK
<1>2. e \in EventRow
  BY <1>1 DEF EventRow, EventStatus
<1>3. prep[p].status = "queued" /\ inv[p] = "none"
  BY ClaimableTells DEF ClaimFirst, Invoked
<1>4. Moves(p, [prep[p] EXCEPT !.status = "processing"], e, "started", "ai_preparation_started")
  <2>1. prep' = [prep EXCEPT ![p] = [prep[p] EXCEPT !.status = "processing"]]
    BY <1>1 DEF ClaimFirst
  <2>2. event' = [event EXCEPT ![p] = e]
    BY <1>1 DEF ClaimFirst
  <2> QED BY <2>1, <2>2 DEF ClaimFirst, Moves, AuditedAs
<1>5. UNCHANGED <<policy, bucket, claim, proposed, idem, today>>
  BY DEF ClaimFirst
<1>6. e.status = "processing" /\ e.owner \in Worker
  OBVIOUS
<1> HIDE DEF e
<1>7. Started(p, e)
  BY <1>3, <1>4, <1>5, <1>6 DEF Started
<1> QED BY <1>2, <1>7

(* A later one gives it up.                                                *)
LEMMA ReclaimMoves ==
    ASSUME AiRowsOK, NEW w \in Worker, NEW p \in Preparation, ClaimAgain(w, p)
    PROVE  \E e \in EventRow : GivenUp(p, e)
<1> DEFINE e == [status |-> "unknown", owner |-> None, live |-> FALSE,
                 version |-> event[p].version + 1]
<1>1. /\ event \in [Preparation -> EventRow] /\ prep \in [Preparation -> PrepRow]
  BY DEF AiRowsOK, AiTypeOK, AiWorkerTypeOK, AiStoreTypeOK
<1>2. e \in EventRow
  BY <1>1 DEF EventRow, EventStatus
<1>3. prep[p].status = "processing"
  BY ClaimableTells DEF ClaimAgain
<1>4. Moves(p, [prep[p] EXCEPT !.status = "unknown"], e, "unknown", "ai_preparation_unknown")
  <2>1. prep' = [prep EXCEPT ![p] = [prep[p] EXCEPT !.status = "unknown"]]
    BY <1>1 DEF ClaimAgain
  <2>2. event' = [event EXCEPT ![p] = e]
    BY <1>1 DEF ClaimAgain
  <2> QED BY <2>1, <2>2 DEF ClaimAgain, InvocationUnknown, Moves, AuditedAs
<1>5. UNCHANGED <<policy, bucket, claim, proposed, idem, today>>
  BY DEF ClaimAgain, KeepReservation
<1>6. e.status = "unknown" /\ e.owner = None
  OBVIOUS
<1> HIDE DEF e
<1>7. GivenUp(p, e)
  BY <1>3, <1>4, <1>5, <1>6 DEF GivenUp
<1> QED BY <1>2, <1>7

(* What every finalization leaves in the event.                            *)
ClosedEvent(p, status) ==
    [event[p] EXCEPT !.status = EventOutcome(status), !.owner = None, !.live = FALSE]

LEMMA CloseMoves ==
    ASSUME AiRowsOK, NEW p \in Preparation, NEW status \in Terminal, Close(p, status), NEW row,
           prep' = [prep EXCEPT ![p] = row]
    PROVE  /\ ClosedEvent(p, status) \in EventRow
           /\ ClosedEvent(p, status).status = EventOutcome(status)
           /\ ClosedEvent(p, status).owner = None
           /\ Moves(p, row, ClosedEvent(p, status), status, EventOf(status))
<1>1. event \in [Preparation -> EventRow]
  BY DEF AiRowsOK, AiTypeOK, AiWorkerTypeOK
<1>2. EventOutcome(status) \in EventStatus
  BY DEF EventOutcome, EventStatus, Terminal
<1>3. /\ ClosedEvent(p, status) \in EventRow
      /\ ClosedEvent(p, status).status = EventOutcome(status)
      /\ ClosedEvent(p, status).owner = None
  BY <1>1, <1>2 DEF ClosedEvent, EventRow
<1>4. event' = [event EXCEPT ![p] = ClosedEvent(p, status)]
  BY <1>1 DEF Close, ClosedEvent
<1> QED BY <1>3, <1>4 DEF Close, Moves, AuditedAs

(* A success closes as completed and names the run.                        *)
LEMMA SuccessMoves ==
    ASSUME AiRowsOK, NEW w \in Worker, FinalizeSuccess(w)
    PROVE  \E p \in Preparation, used \in Nat, e \in EventRow : ClosedAs(p, "completed", used, e)
<1> DEFINE p == worker[w].prep
           used == worker[w].used
<1>1. /\ p \in Preparation /\ prep[p].status = "processing"
  BY OwnerTells DEF FinalizeSuccess, Finalizable
<1>2. used \in Nat
  BY DEF FinalizeSuccess, HasOrder, AiRowsOK, AiTypeOK, AiWorkerTypeOK, Answered
<1>3. prep \in [Preparation -> PrepRow] /\ prep[p].source \in Source
  BY <1>1 DEF AiRowsOK, AiTypeOK, AiStoreTypeOK, RowsComplete
<1>4. /\ bucket[prep[p].day].reserved >= prep[p].reserved
      /\ claim[prep[p].source] = [prep |-> p, run |-> FALSE]
  BY DEF FinalizeSuccess, Finalizable, HasOrder, CanSettle, ClaimIsOpen
<1>5. /\ claim' = [claim EXCEPT ![prep[p].source].run = TRUE]
      /\ proposed' = [proposed EXCEPT ![prep[p].source] = @ + 1]
      /\ bucket' = [bucket EXCEPT ![prep[p].day] =
                     [used |-> @.used + used, reserved |-> @.reserved - prep[p].reserved]]
      /\ UNCHANGED <<policy, idem, today>>
      /\ Close(p, "completed")
  BY DEF FinalizeSuccess, SettleUsage, SettledDay
<1>6. prep' = [prep EXCEPT ![p] = [prep[p] EXCEPT !.status = "completed", !.used = used]]
  BY <1>1, <1>3 DEF FinalizeSuccess
<1> DEFINE e == ClosedEvent(p, "completed")
<1>7. /\ e \in EventRow /\ e.status = EventOutcome("completed") /\ e.owner = None
      /\ Moves(p, [prep[p] EXCEPT !.status = "completed", !.used = used], e, "completed",
               EventOf("completed"))
  BY <1>1, <1>5, <1>6, CloseMoves DEF Terminal
<1> HIDE DEF p, used, e
<1>8. ClosedAs(p, "completed", used, e)
  BY <1>1, <1>4, <1>5, <1>7 DEF ClosedAs
<1> QED BY <1>1, <1>2, <1>7, <1>8

(* A known failure closes as failed and settles what was reported.         *)
LEMMA FailureMoves ==
    ASSUME AiRowsOK, NEW w \in Worker, FinalizeFailed(w)
    PROVE  \E p \in Preparation, used \in Nat, e \in EventRow : ClosedAs(p, "failed", used, e)
<1> DEFINE p == worker[w].prep
           used == IF worker[w].outcome \in Answered THEN worker[w].used ELSE 0
<1>1. /\ p \in Preparation /\ prep[p].status = "processing"
  BY OwnerTells DEF FinalizeFailed, Finalizable
<1>2. used \in Nat
  BY DEF FinalizeFailed, AiRowsOK, AiTypeOK, AiWorkerTypeOK
<1>3. prep \in [Preparation -> PrepRow]
  BY <1>1 DEF AiRowsOK, AiTypeOK, AiStoreTypeOK
<1>4. bucket[prep[p].day].reserved >= prep[p].reserved
  BY DEF FinalizeFailed, Finalizable, CanSettle
<1>5. /\ UNCHANGED <<claim, proposed>>
      /\ bucket' = [bucket EXCEPT ![prep[p].day] =
                     [used |-> @.used + used, reserved |-> @.reserved - prep[p].reserved]]
      /\ UNCHANGED <<policy, idem, today>>
      /\ Close(p, "failed")
  BY DEF FinalizeFailed, SettleUsage, SettledDay
<1>6. prep' = [prep EXCEPT ![p] = [prep[p] EXCEPT !.status = "failed", !.used = used]]
  BY <1>1, <1>3 DEF FinalizeFailed
<1> DEFINE e == ClosedEvent(p, "failed")
<1>7. /\ e \in EventRow /\ e.status = EventOutcome("failed") /\ e.owner = None
      /\ Moves(p, [prep[p] EXCEPT !.status = "failed", !.used = used], e, "failed",
               EventOf("failed"))
  BY <1>1, <1>5, <1>6, CloseMoves DEF Terminal
<1> HIDE DEF p, used, e
<1>8. ClosedAs(p, "failed", used, e)
  BY <1>1, <1>4, <1>5, <1>7 DEF ClosedAs
<1> QED BY <1>1, <1>2, <1>7, <1>8

(* An ambiguous one gives it up.                                           *)
LEMMA AmbiguityMoves ==
    ASSUME AiRowsOK, NEW w \in Worker, FinalizeUnknown(w)
    PROVE  \E p \in Preparation, e \in EventRow : GivenUp(p, e)
<1> DEFINE p == worker[w].prep
<1>1. /\ p \in Preparation /\ prep[p].status = "processing"
  BY OwnerTells DEF FinalizeUnknown, Finalizable
<1>2. prep \in [Preparation -> PrepRow]
  BY <1>1 DEF AiRowsOK, AiTypeOK, AiStoreTypeOK
<1>3. UNCHANGED <<policy, bucket, claim, proposed, idem, today>> /\ Close(p, "unknown")
  BY DEF FinalizeUnknown, KeepReservation
<1>4. prep' = [prep EXCEPT ![p] = [prep[p] EXCEPT !.status = "unknown"]]
  BY <1>1, <1>2 DEF FinalizeUnknown
<1> DEFINE e == ClosedEvent(p, "unknown")
<1>5. /\ e \in EventRow /\ e.status = EventOutcome("unknown") /\ e.owner = None
      /\ Moves(p, [prep[p] EXCEPT !.status = "unknown"], e, "unknown", EventOf("unknown"))
  BY <1>1, <1>3, <1>4, CloseMoves DEF Terminal
<1> HIDE DEF p, e
<1>6. GivenUp(p, e)
  BY <1>1, <1>3, <1>5 DEF GivenUp, EventOutcome, EventOf
<1> QED BY <1>1, <1>5, <1>6

(* Every step of the system is one of these for the rows.                  *)
LEMMA EveryStepMoves ==
    ASSUME AiRowsOK, [Next]_aiVars
    PROVE  RowStep
<1>1. today \in Day
  BY DEF AiRowsOK, AiTypeOK, AiStoreTypeOK
<1>2. CASE UNCHANGED aiVars
  BY <1>1, <1>2 DEF RowStep, Quiet, aiVars, aiStoreVars
<1>3. CASE UNCHANGED aiStoreVars
  BY <1>1, <1>3 DEF RowStep, Quiet, aiStoreVars
<1>4. ASSUME NEW q \in Slot, Begin(q) \/ Handle(q) \/ Respond(q) \/ Abort(q) PROVE RowStep
  <2>1. CASE CommitPolicy(q)
    BY <2>1, PutMoves DEF RowStep
  <2>2. CASE CommitEnqueue(q)
    BY <2>2, EnqueueMoves DEF RowStep
  <2>3. CASE UNCHANGED aiStoreVars
    BY <1>3, <2>3
  <2> QED
    BY <1>4, <2>1, <2>2, <2>3
    DEF Begin, Handle, Read, ReadClaim, PolicyConflict, EnqueueConflict, Respond, Abort
<1>5. ASSUME NEW s \in Source, PrepareByMail(s) PROVE RowStep
  <2>1. ByMail(s)
    BY <1>5 DEF PrepareByMail, ByMail
  <2> QED BY <2>1 DEF RowStep
<1>6. CASE NextDay
  BY <1>6 DEF NextDay, RowStep, Quiet
<1>7. ASSUME NEW w \in Worker, Work(w) \/ Crash(w) PROVE RowStep
  <2>1. CASE FinalizeSuccess(w)
    BY <2>1, SuccessMoves DEF RowStep, Settled
  <2>2. CASE FinalizeFailed(w)
    BY <2>2, FailureMoves DEF RowStep, Settled
  <2>3. CASE FinalizeUnknown(w)
    BY <2>3, AmbiguityMoves DEF RowStep
  <2>4. CASE UNCHANGED aiStoreVars
    BY <1>3, <2>4
  <2> QED
    BY <1>7, <2>1, <2>2, <2>3, <2>4
    DEF Work, Crash, Prepare, Finalize, LoadWork, Refuse, RecordInputHash, Leave, Invoke, Return,
        Discard, Drop
<1>8. ASSUME NEW w \in Worker, NEW p \in Preparation, Claim(w, p) PROVE RowStep
  BY <1>8, ClaimMoves, ReclaimMoves DEF Claim, RowStep
<1>9. ASSUME NEW p \in Preparation, LeaseExpire(p) PROVE RowStep
  <2>1. LeaseLost(p)
    BY <1>9 DEF LeaseExpire, LeaseLost
  <2> QED BY <2>1 DEF RowStep
<1> QED BY <1>2, <1>4, <1>5, <1>6, <1>7, <1>8, <1>9 DEF Next, AiRequestNext, AiWorkerNext
-------------------------------------------------------------------------------
(* The rows of one preparation tell the same story.                        *)
Agree(status, e, i) ==
    /\ status = "absent" => e.status = "none" /\ i = "none"
    /\ status \notin {"absent", "completed"} => e.status = status
    /\ status = "completed" => e.status = "processed"
    /\ status = "queued" => i = "none"
    /\ status = "processing" => i = "started"
    /\ status \in Terminal => i = status
    /\ (e.owner # None) <=> (status = "processing")

LEMMA AgreementIsRowwise ==
    /\ PreparationAgreement <=> \A p \in Preparation : Agree(prep[p].status, event[p], inv[p])
    /\ PreparationAgreement' <=> \A p \in Preparation : Agree(prep'[p].status, event'[p], inv'[p])
BY DEF PreparationAgreement, Agree

InvStatus == {"none", "started"} \cup Terminal

(* The rows of the preparation change, those of the others do not.         *)
LEMMA MoveTells ==
    ASSUME AiRowsOK, NEW p \in Preparation, NEW row, NEW e, NEW i, NEW type,
           Moves(p, row, e, i, type)
    PROVE  /\ prep'[p] = row /\ event'[p] = e /\ inv'[p] = i
           /\ audit'[p] = Append(audit[p], type)
           /\ \A z \in Preparation \ {p} : /\ prep'[z] = prep[z] /\ event'[z] = event[z]
                                           /\ inv'[z] = inv[z] /\ audit'[z] = audit[z]
BY DEF Moves, AiRowsOK, AiTypeOK, AiStoreTypeOK, AiWorkerTypeOK

(* Preparations that keep agreeing and complete rows keep the invariants.  *)
LEMMA MoveKeeps ==
    ASSUME AiRowsOK, NEW p \in Preparation, NEW row \in PrepRow, NEW e \in EventRow,
           NEW i \in InvStatus, NEW type \in EventType, Moves(p, row, e, i, type),
           Agree(row.status, e, i), row.source \in Source,
           row.status \in Settled => row.used \in Nat
    PROVE  /\ prep' \in [Preparation -> PrepRow] /\ event' \in [Preparation -> EventRow]
           /\ inv' \in [Preparation -> InvStatus] /\ audit' \in [Preparation -> Seq(EventType)]
           /\ PreparationAgreement' /\ RowsComplete'
<1>1. /\ prep \in [Preparation -> PrepRow] /\ event \in [Preparation -> EventRow]
      /\ inv \in [Preparation -> InvStatus] /\ audit \in [Preparation -> Seq(EventType)]
  BY DEF AiRowsOK, AiTypeOK, AiStoreTypeOK, AiWorkerTypeOK, InvStatus
<1>2. Append(audit[p], type) \in Seq(EventType)
  BY <1>1
<1>3. /\ prep' \in [Preparation -> PrepRow] /\ event' \in [Preparation -> EventRow]
      /\ inv' \in [Preparation -> InvStatus]
  BY <1>1 DEF Moves
<1>4. audit' \in [Preparation -> Seq(EventType)]
  BY <1>1, <1>2 DEF Moves
<1>5. \A z \in Preparation : Agree(prep'[z].status, event'[z], inv'[z])
  <2>1. \A z \in Preparation : Agree(prep[z].status, event[z], inv[z])
    BY AgreementIsRowwise DEF AiRowsOK
  <2> QED BY <2>1, MoveTells
<1>6. RowsComplete'
  BY MoveTells DEF RowsComplete, AiRowsOK
<1> QED BY <1>3, <1>4, <1>5, <1>6, AgreementIsRowwise

(* The rows that a step leaves are well formed, complete and agree.        *)
RowsFollow ==
    /\ AiStoreTypeOK' /\ event' \in [Preparation -> EventRow]
    /\ idem' \in [AiScope -> IdemRecord \cup {None}]
    /\ policy # None => policy' # None
    /\ PreparationAgreement' /\ RowsComplete'

LEMMA RowsStayOK ==
    ASSUME AiRowsOK, RowStep
    PROVE  RowsFollow
<1> USE DEF RowsFollow
<1>1. /\ AiStoreTypeOK /\ event \in [Preparation -> EventRow]
      /\ idem \in [AiScope -> IdemRecord \cup {None}]
      /\ PreparationAgreement /\ RowsComplete
  BY DEF AiRowsOK, AiTypeOK, AiWorkerTypeOK, AiRequestTypeOK
<1>2. CASE Quiet
  BY <1>1, <1>2 DEF Quiet, AiStoreTypeOK, PreparationAgreement, RowsComplete
<1>3. ASSUME NEW p \in Preparation, LeaseLost(p) PROVE RowsFollow
  <2>1. event' = [event EXCEPT ![p] = [event[p] EXCEPT !.live = FALSE]]
    BY <1>1, <1>3 DEF LeaseLost
  <2>2. [event[p] EXCEPT !.live = FALSE] \in EventRow
    BY <1>1 DEF EventRow
  <2>3. event' \in [Preparation -> EventRow]
    BY <1>1, <2>1, <2>2
  <2>4. \A z \in Preparation : event'[z].status = event[z].status /\ event'[z].owner = event[z].owner
    BY <1>1, <2>1 DEF EventRow
  <2>5. PreparationAgreement'
    <3>1. \A z \in Preparation : Agree(prep[z].status, event[z], inv[z])
      BY <1>1, AgreementIsRowwise
    <3>2. \A z \in Preparation : Agree(prep'[z].status, event'[z], inv'[z])
      BY <1>3, <2>4, <3>1 DEF LeaseLost, Agree
    <3> QED BY <3>2, AgreementIsRowwise
  <2> QED BY <1>1, <1>3, <2>3, <2>5 DEF LeaseLost, AiStoreTypeOK, RowsComplete
<1>4. ASSUME NEW s \in Submission, NEW version \in Nat, PolicyWritten(s, version) PROVE RowsFollow
  <2>1. idem' \in [AiScope -> IdemRecord \cup {None}]
    BY <1>1, <1>4, AiScopeType DEF PolicyWritten, Remember, IdemRecord
  <2>2. policy' \in Policy /\ policy' # None
    BY <1>4, AiRowAssumption DEF PolicyWritten
  <2> QED BY <1>1, <1>4, <2>1, <2>2
          DEF PolicyWritten, AiStoreTypeOK, PreparationAgreement, RowsComplete
<1>5. ASSUME NEW s \in Submission, NEW p \in Preparation, NEW row \in PrepRow, Enqueued(s, p, row)
      PROVE  RowsFollow
  <2>1. idem' \in [AiScope -> IdemRecord \cup {None}]
    BY <1>1, <1>5, AiScopeType DEF Enqueued, Remember, IdemRecord
  <2> DEFINE e == [event[p] EXCEPT !.status = "queued"]
  <2>2. s.source \in Source /\ row.source \in Source
    BY <1>5, AiScopeType DEF Enqueued
  <2>3. Agree(prep[p].status, event[p], inv[p])
    BY <1>1, AgreementIsRowwise
  <2>4. e \in EventRow /\ e.status = "queued" /\ e.owner = event[p].owner
    BY <1>1 DEF EventRow, EventStatus
  <2>5. inv[p] \in InvStatus
    BY <1>1 DEF AiStoreTypeOK, InvStatus
  <2>6. Moves(p, row, e, inv[p], "ai_preparation_queued") /\ row.status = "queued"
    BY <1>5 DEF Enqueued
  <2>7. Agree(row.status, e, inv[p])
    <3> HIDE DEF e
    <3> QED BY <1>5, <2>3, <2>4, <2>6 DEF Agree, Enqueued, Terminal
  <2> HIDE DEF e
  <2>8. /\ prep' \in [Preparation -> PrepRow] /\ event' \in [Preparation -> EventRow]
        /\ inv' \in [Preparation -> InvStatus] /\ audit' \in [Preparation -> Seq(EventType)]
        /\ PreparationAgreement' /\ RowsComplete'
    BY <2>2, <2>4, <2>5, <2>6, <2>7, MoveKeeps DEF EventType, Settled
  <2>9. row.reserved \in Nat /\ today \in Day
    BY <1>1 DEF PrepRow, AiStoreTypeOK
  <2>10. bucket' \in [Day -> [used : Nat, reserved : Nat]]
    BY <1>1, <1>5, <2>9 DEF Enqueued, AiStoreTypeOK
  <2>11. claim' \in [Source -> [prep : Preparation \cup {None}, run : BOOLEAN]]
    BY <1>1, <1>5, <2>2 DEF Enqueued, AiStoreTypeOK
  <2>12. UNCHANGED <<policy, proposed, today>>
    BY <1>5 DEF Enqueued
  <2> QED BY <1>1, <2>1, <2>8, <2>10, <2>11, <2>12 DEF AiStoreTypeOK, InvStatus
<1>6. ASSUME NEW s \in Source, ByMail(s) PROVE RowsFollow
  <2>1. claim' \in [Source -> [prep : Preparation \cup {None}, run : BOOLEAN]]
    BY <1>1, <1>6 DEF ByMail, AiStoreTypeOK
  <2>2. proposed' \in [Source -> Nat]
    BY <1>1, <1>6 DEF ByMail, AiStoreTypeOK
  <2> QED BY <1>1, <1>6, <2>1, <2>2 DEF ByMail, AiStoreTypeOK, PreparationAgreement, RowsComplete
<1>7. ASSUME NEW p \in Preparation, NEW status \in {"processing", "unknown"}, NEW e \in EventRow,
             NEW i \in InvStatus, NEW type \in EventType,
             prep[p].status # "absent",
             Moves(p, [prep[p] EXCEPT !.status = status], e, i, type), Agree(status, e, i),
             UNCHANGED <<policy, bucket, claim, proposed, idem, today>>
      PROVE  RowsFollow
  <2> DEFINE row == [prep[p] EXCEPT !.status = status]
  <2>1. row \in PrepRow /\ row.status = status /\ row.source = prep[p].source
    BY <1>1 DEF AiStoreTypeOK, PrepRow, PrepStatus, Terminal
  <2>2. row.source \in Source /\ row.status \notin Settled
    BY <1>1, <1>7, <2>1 DEF RowsComplete, Settled
  <2> HIDE DEF row
  <2>3. /\ prep' \in [Preparation -> PrepRow] /\ event' \in [Preparation -> EventRow]
        /\ inv' \in [Preparation -> InvStatus] /\ audit' \in [Preparation -> Seq(EventType)]
        /\ PreparationAgreement' /\ RowsComplete'
    BY <1>7, <2>1, <2>2, MoveKeeps DEF row
  <2> QED BY <1>1, <1>7, <2>3 DEF AiStoreTypeOK, InvStatus
<1>8. ASSUME NEW p \in Preparation, NEW e \in EventRow, Started(p, e) PROVE RowsFollow
  <2>1. Agree("processing", e, "started")
    BY <1>8, AiWorkerAssumption DEF Started, Agree, Terminal
  <2>2. "started" \in InvStatus /\ "ai_preparation_started" \in EventType
    BY DEF InvStatus, EventType
  <2> QED BY <1>7, <1>8, <2>1, <2>2 DEF Started
<1>9. ASSUME NEW p \in Preparation, NEW e \in EventRow, GivenUp(p, e) PROVE RowsFollow
  <2>1. Agree("unknown", e, "unknown")
    BY <1>9 DEF GivenUp, Agree, Terminal
  <2>2. "unknown" \in InvStatus /\ "ai_preparation_unknown" \in EventType
    BY DEF InvStatus, EventType, Terminal
  <2> QED BY <1>7, <1>9, <2>1, <2>2 DEF GivenUp
<1>10. ASSUME NEW p \in Preparation, NEW status \in Settled, NEW used \in Nat, NEW e \in EventRow,
              ClosedAs(p, status, used, e)
       PROVE  RowsFollow
  <2> DEFINE row == [prep[p] EXCEPT !.status = status, !.used = used]
  <2>1. prep[p] \in PrepRow /\ prep[p].source \in Source
    BY <1>1, <1>10 DEF AiStoreTypeOK, RowsComplete, ClosedAs
  <2>2. row \in PrepRow /\ row.status = status /\ row.source = prep[p].source /\ row.used = used
    BY <2>1 DEF PrepRow, PrepStatus, Terminal, Settled
  <2>3. Agree(status, e, status)
    BY <1>10 DEF ClosedAs, Agree, Terminal, Settled, EventOutcome
  <2>4. status \in InvStatus /\ EventOf(status) \in EventType
    BY DEF InvStatus, EventType, EventOf, Terminal, Settled
  <2>5. Moves(p, row, e, status, EventOf(status))
    BY <1>10 DEF ClosedAs
  <2> HIDE DEF row
  <2>6. /\ prep' \in [Preparation -> PrepRow] /\ event' \in [Preparation -> EventRow]
        /\ inv' \in [Preparation -> InvStatus] /\ audit' \in [Preparation -> Seq(EventType)]
        /\ PreparationAgreement' /\ RowsComplete'
    BY <2>1, <2>2, <2>3, <2>4, <2>5, MoveKeeps
  <2> DEFINE d == prep[p].day
             amount == prep[p].reserved
  <2>7. d \in Day /\ amount \in Nat
    BY <2>1 DEF PrepRow
  <2>8. /\ bucket[d].reserved >= amount
        /\ bucket' = [bucket EXCEPT ![d] = [used |-> @.used + used, reserved |-> @.reserved - amount]]
    BY <1>10 DEF ClosedAs
  <2> HIDE DEF d, amount
  <2>9. bucket' \in [Day -> [used : Nat, reserved : Nat]]
    BY <1>1, <2>7, <2>8 DEF AiStoreTypeOK
  <2>10. /\ claim' \in [Source -> [prep : Preparation \cup {None}, run : BOOLEAN]]
         /\ proposed' \in [Source -> Nat]
    <3> DEFINE s == prep[p].source
    <3>1. CASE status = "completed"
      <4>1. /\ claim' = [claim EXCEPT ![s].run = TRUE] /\ proposed' = [proposed EXCEPT ![s] = @ + 1]
        BY <1>10, <3>1 DEF ClosedAs
      <4>2. s \in Source
        BY <2>1
      <4> HIDE DEF s
      <4>3. claim' \in [Source -> [prep : Preparation \cup {None}, run : BOOLEAN]]
        BY <1>1, <4>1, <4>2 DEF AiStoreTypeOK
      <4>4. proposed' \in [Source -> Nat]
        BY <1>1, <4>1, <4>2 DEF AiStoreTypeOK
      <4> QED BY <4>3, <4>4
    <3>2. CASE status # "completed"
      BY <1>1, <1>10, <3>2 DEF ClosedAs, AiStoreTypeOK
    <3> QED BY <3>1, <3>2
  <2>11. UNCHANGED <<policy, idem, today>>
    BY <1>10 DEF ClosedAs
  <2> QED BY <1>1, <2>6, <2>9, <2>10, <2>11 DEF AiStoreTypeOK, InvStatus
<1> QED BY <1>2, <1>3, <1>4, <1>5, <1>6, <1>8, <1>9, <1>10 DEF RowStep
-------------------------------------------------------------------------------
(* The reads of a handler find nothing wrong or give an answer.            *)
LEMMA ReadErrorsType ==
    ASSUME NEW s \in Submission
    PROVE  PutError(s) \in Reply \cup {None} /\ EnqueueError(s) \in Reply \cup {None}
BY AiRefusedType DEF PutError, EnqueueError, Detail

(* Every step leaves the handlers well formed and informed.                *)
LEMMA HandlersStayOK ==
    ASSUME AiRowsOK, [Next]_aiVars, RowsFollow
    PROVE  AiRequestTypeOK' /\ HandlersInformed'
<1> DEFINE Goal == AiRequestTypeOK' /\ HandlersInformed'
<1>1. AiRequestTypeOK /\ HandlersInformed
  BY DEF AiRowsOK, AiTypeOK
<1>2. /\ idem' \in [AiScope -> IdemRecord \cup {None}]
      /\ policy # None => policy' # None
  BY DEF RowsFollow
<1>3. CASE UNCHANGED req
  BY <1>1, <1>2, <1>3 DEF AiRequestTypeOK, HandlersInformed
<1>4. ASSUME NEW q \in Slot, req' = [req EXCEPT ![q] = Idle] PROVE Goal
  <2>1. Idle \in Handler /\ Idle.pc = "idle" /\ Idle.seen = None
    BY DEF Idle, Handler, Pc
  <2> HIDE DEF Idle
  <2> QED BY <1>1, <1>2, <1>4, <2>1, HandlerBecomes
<1>5. ASSUME NEW q \in Slot, NEW reply \in Reply, Answer(q, reply), req[q].pc # "idle" PROVE Goal
  BY <1>1, <1>2, <1>5, AnswerKeeps
<1>6. ASSUME NEW q \in Slot, req[q].pc # "idle" PROVE req[q] \in Handler /\ req[q].sub \in Submission
  BY <1>1, <1>6 DEF AiRequestTypeOK, Handler
<1>7. ASSUME NEW q \in Slot, Begin(q) PROVE Goal
  <2>1. PICK s \in Submission :
           req' = [req EXCEPT ![q] =
             IF ~Authorized(s)
             THEN [Idle EXCEPT !.pc = "done", !.sub = s,
                               !.reply = Refused(403, "insufficient_role")]
             ELSE IF Replay(s) # None
             THEN [Idle EXCEPT !.pc = "done", !.sub = s, !.reply = Replay(s)]
             ELSE [Idle EXCEPT !.pc = "read", !.sub = s]]
    BY <1>7 DEF Begin
  <2>2. ASSUME NEW reply \in Reply, req' = [req EXCEPT ![q] =
               [Idle EXCEPT !.pc = "done", !.sub = s, !.reply = reply]] PROVE Goal
    <3> DEFINE h == [Idle EXCEPT !.pc = "done", !.sub = s, !.reply = reply]
    <3>1. h \in Handler /\ h.pc = "done" /\ h.sub = s /\ h.reply = reply /\ h.seen = None
      BY DEF Idle, Handler, Pc
    <3>2. req' = [req EXCEPT ![q] = h]
      BY <2>2
    <3> HIDE DEF h
    <3> QED BY <1>1, <1>2, <3>1, <3>2, HandlerBecomes
  <2>3. CASE req' = [req EXCEPT ![q] = [Idle EXCEPT !.pc = "read", !.sub = s]]
    <3> DEFINE h == [Idle EXCEPT !.pc = "read", !.sub = s]
    <3>1. h \in Handler /\ h.pc = "read" /\ h.sub = s /\ h.seen = None
      BY DEF Idle, Handler, Pc
    <3>2. req' = [req EXCEPT ![q] = h]
      BY <2>3
    <3> HIDE DEF h
    <3> QED BY <1>1, <1>2, <3>1, <3>2, HandlerBecomes
  <2>4. Refused(403, "insufficient_role") \in Reply
    BY AiRefusedType DEF Detail
  <2>5. Replay(s) # None => Replay(s) \in Reply
    BY <1>1, AiReplayType
  <2> HIDE DEF Goal
  <2> QED BY <2>1, <2>2, <2>3, <2>4, <2>5
<1>8. ASSUME NEW q \in Slot, Read(q) PROVE Goal
  <2> DEFINE s == req[q].sub
             error == IF s.op = "ai.policy.put" THEN PutError(s) ELSE EnqueueError(s)
             pc == IF s.op = "ai.policy.put" THEN "commit" ELSE "claim"
             h == [req[q] EXCEPT !.pc = pc, !.seen = policy]
  <2>1. req[q] \in Handler /\ s \in Submission /\ s.op \in Operation /\ req[q].pc # "idle"
    BY <1>6, <1>8, AiScopeType DEF Read
  <2>2. CASE error # None
    <3>1. error \in Reply
      BY <2>1, <2>2, ReadErrorsType
    <3>2. Answer(q, error)
      BY <1>8, <2>2 DEF Read
    <3> QED BY <1>5, <2>1, <3>1, <3>2
  <2>3. CASE error = None
    <3>1. req' = [req EXCEPT ![q] = h]
      BY <1>1, <1>8, <2>3 DEF Read, AiRequestTypeOK
    <3>2. policy \in Policy \cup {None}
      BY DEF AiRowsOK, AiTypeOK, AiStoreTypeOK
    <3>3. h \in Handler /\ h.pc \in {"commit", "claim"} /\ h.sub = s /\ h.seen = policy
      BY <2>1, <3>2 DEF Handler, Pc
    <3>4. s.op = "ai.preparation.create" => policy \in Policy
      <4>1. ASSUME s.op = "ai.preparation.create" PROVE policy # None
        <5>1. EnqueueError(s) = None
          BY <2>3, <4>1
        <5>2. ASSUME policy = None PROVE FALSE
          <6>1. Refused(404, "ai_policy_not_found") = None
            BY <5>1, <5>2 DEF EnqueueError
          <6> QED BY <6>1, AiRowAssumption, AiRefusedType DEF Detail
        <5> QED BY <5>2
      <4> QED BY <3>2, <4>1
    <3> HIDE DEF h, s
    <3> QED BY <1>1, <1>2, <2>1, <3>1, <3>3, <3>4, HandlerBecomes
  <2> HIDE DEF Goal, error
  <2> QED BY <2>2, <2>3
<1>9. ASSUME NEW q \in Slot, ReadClaim(q) PROVE Goal
  <2> DEFINE h == [req[q] EXCEPT !.pc = "commit"]
  <2>1. req[q] \in Handler /\ req[q].sub \in Submission /\ req[q].pc = "claim"
    BY <1>6, <1>9 DEF ReadClaim
  <2>2. CASE Answer(q, Refused(409, "order_source_already_claimed"))
    <3>1. Refused(409, "order_source_already_claimed") \in Reply
      BY AiRefusedType DEF Detail
    <3> QED BY <1>5, <2>1, <2>2, <3>1
  <2>3. CASE req' = [req EXCEPT ![q].pc = "commit"]
    <3>1. req' = [req EXCEPT ![q] = h]
      BY <1>1, <2>3 DEF AiRequestTypeOK
    <3>2. /\ h \in Handler /\ h.pc = "commit" /\ h.sub = req[q].sub /\ h.seen = req[q].seen
      BY <2>1 DEF Handler, Pc
    <3>3. /\ h.sub.op = "ai.preparation.create" => h.seen \in Policy
          /\ h.seen # None => policy # None
      BY <1>1, <2>1, <3>2 DEF HandlersInformed
    <3> HIDE DEF h
    <3> QED BY <1>1, <1>2, <2>1, <3>1, <3>2, <3>3, HandlerBecomes
  <2> QED BY <1>9, <2>2, <2>3 DEF ReadClaim
<1>10. ASSUME NEW q \in Slot, CommitPolicy(q) PROVE Goal
  <2>1. req[q].pc # "idle" /\ Answer(q, Accepted(req[q].sub, WrittenVersion(q)))
    BY <1>10 DEF CommitPolicy
  <2>2. WrittenVersion(q) \in Nat
    <3>1. req[q].seen # None => policy \in Policy
      BY DEF AiRowsOK, HandlersInformed, AiTypeOK, AiStoreTypeOK
    <3> QED BY <3>1 DEF WrittenVersion, Policy
  <2> QED BY <1>5, <1>6, <2>1, <2>2, AiAcceptedType
<1>11. ASSUME NEW q \in Slot, CommitEnqueue(q) PROVE Goal
  <2>1. PICK p \in Preparation : Answer(q, Accepted(req[q].sub, p))
    BY <1>11 DEF CommitEnqueue
  <2>2. req[q].pc # "idle"
    BY <1>11 DEF CommitEnqueue
  <2> QED BY <1>5, <1>6, <2>1, <2>2, AiAcceptedType
<1>12. ASSUME NEW s \in Submission, NEW reply \in Reply PROVE ReplayOr(s, reply) \in Reply
  BY <1>1, AiReplayType DEF ReplayOr
<1>13. ASSUME NEW q \in Slot, PolicyConflict(q) PROVE Goal
  <2> DEFINE conflict == Refused(409, "optimistic_lock_conflict")
             reply == IF req[q].seen # None /\ ~LockHolds(q) THEN conflict
                      ELSE ReplayOr(req[q].sub, conflict)
  <2>1. req[q].pc # "idle" /\ Answer(q, reply)
    BY <1>13 DEF PolicyConflict
  <2>2. conflict \in Reply
    BY AiRefusedType DEF Detail
  <2>3. reply \in Reply
    BY <1>6, <1>12, <2>1, <2>2
  <2> HIDE DEF reply
  <2> QED BY <1>5, <2>1, <2>3
<1>14. ASSUME NEW q \in Slot, EnqueueConflict(q) PROVE Goal
  <2> DEFINE reply == IF ~BudgetLeft(q, today) THEN Refused(409, "ai_daily_budget_exceeded")
                      ELSE ReplayOr(req[q].sub, Refused(409, "order_source_already_claimed"))
  <2>1. req[q].pc # "idle" /\ Answer(q, reply)
    BY <1>14 DEF EnqueueConflict
  <2>2. /\ Refused(409, "ai_daily_budget_exceeded") \in Reply
        /\ Refused(409, "order_source_already_claimed") \in Reply
    BY AiRefusedType DEF Detail
  <2>3. reply \in Reply
    BY <1>6, <1>12, <2>1, <2>2
  <2> HIDE DEF reply
  <2> QED BY <1>5, <2>1, <2>3
<1>15. ASSUME NEW q \in Slot, Begin(q) \/ Handle(q) \/ Respond(q) \/ Abort(q) PROVE Goal
  <2>1. CASE Respond(q) \/ Abort(q)
    BY <1>4, <2>1 DEF Respond, Abort
  <2> HIDE DEF Goal
  <2> QED BY <1>7, <1>8, <1>9, <1>10, <1>11, <1>13, <1>14, <1>15, <2>1 DEF Handle
<1>16. CASE Next
  <2>1. ASSUME NEW s \in Source, PrepareByMail(s) PROVE UNCHANGED req
    BY <2>1 DEF PrepareByMail
  <2>2. NextDay => UNCHANGED req
    BY DEF NextDay
  <2>3. CASE AiRequestNext
    <3>1. CASE \E q \in Slot : Begin(q) \/ Handle(q) \/ Respond(q) \/ Abort(q)
      BY <1>15, <3>1
    <3>2. CASE (\E s \in Source : PrepareByMail(s)) \/ NextDay
      BY <1>3, <2>1, <2>2, <3>2
    <3> QED BY <2>3, <3>1, <3>2 DEF AiRequestNext
  <2> QED BY <1>3, <1>16, <2>3 DEF Next
<1> QED BY <1>3, <1>16 DEF aiVars

(* Every step leaves the workers well formed.                              *)
LEMMA WorkersStayOK ==
    ASSUME AiRowsOK, [Next]_aiVars, RowsFollow
    PROVE  AiWorkerTypeOK'
<1>1. /\ AiWorkerTypeOK /\ event \in [Preparation -> EventRow] /\ sent \in [Preparation -> Nat]
      /\ worker \in [Worker -> WorkerRow]
  BY DEF AiRowsOK, AiTypeOK, AiWorkerTypeOK, WorkerRow
<1>2. event' \in [Preparation -> EventRow]
  BY DEF RowsFollow
<1>3. CASE UNCHANGED aiWorkerVars
  BY <1>1, <1>2, <1>3 DEF AiWorkerTypeOK, aiWorkerVars
<1>4. ASSUME NEW w \in Worker, Rest(w), UNCHANGED sent PROVE AiWorkerTypeOK'
  BY <1>1, <1>2, <1>4, RestingType, WorkerBecomes DEF Rest
<1>5. ASSUME NEW w \in Worker, worker[w].pc # "idle" PROVE worker[w].prep \in Preparation
  BY <1>1, <1>5 DEF AiWorkerTypeOK
<1>6. ASSUME NEW w \in Worker, NEW p \in Preparation, Claim(w, p) PROVE AiWorkerTypeOK'
  <2>1. CASE ClaimFirst(w, p)
    <3> DEFINE h == [Resting EXCEPT !.pc = "claimed", !.prep = p, !.version = event[p].version + 1]
    <3>1. event[p].version + 1 \in Nat
      BY <1>1 DEF EventRow
    <3>2. h \in WorkerRow /\ h.pc = "claimed" /\ h.prep = p /\ h.outcome = None
      BY <3>1 DEF Resting, WorkerRow, WorkerPc
    <3>3. worker' = [worker EXCEPT ![w] = h] /\ UNCHANGED sent
      BY <2>1 DEF ClaimFirst
    <3> HIDE DEF h
    <3> QED BY <1>1, <1>2, <3>2, <3>3, RestingType, WorkerBecomes
  <2>2. CASE ClaimAgain(w, p)
    BY <1>3, <2>2 DEF ClaimAgain
  <2> QED BY <1>6, <2>1, <2>2 DEF Claim
<1>7. ASSUME NEW w \in Worker, LoadWork(w) PROVE AiWorkerTypeOK'
  <2> DEFINE valid == policy # None /\ policy.enabled /\ policy.provider = prep[worker[w].prep].provider
             h == [worker[w] EXCEPT !.pc = "loaded", !.valid = valid]
  <2>1. valid \in BOOLEAN
    <3>1. policy # None => policy.enabled \in BOOLEAN
      BY DEF AiRowsOK, AiTypeOK, AiStoreTypeOK, Policy
    <3> QED BY <3>1
  <2>2. worker[w].pc = "claimed" /\ worker[w] \in WorkerRow
    BY <1>1, <1>7 DEF LoadWork
  <2>3. worker' = [worker EXCEPT ![w] = h] /\ UNCHANGED sent
    BY <1>1, <1>7 DEF LoadWork
  <2> HIDE DEF valid
  <2>4. /\ h \in WorkerRow /\ h.pc = "loaded" /\ h.prep = worker[w].prep
        /\ h.outcome = worker[w].outcome /\ h.used = worker[w].used
    BY <2>1, <2>2 DEF WorkerRow, WorkerPc
  <2>5. h.outcome \in Answered => h.used \in Nat
    BY <1>1, <2>4 DEF AiWorkerTypeOK
  <2> HIDE DEF h
  <2> QED BY <1>1, <1>2, <1>5, <2>2, <2>3, <2>4, <2>5, WorkerBecomes
<1>8. ASSUME NEW w \in Worker, NEW pc \in {"ready", "calling"}, worker[w].pc # "idle",
             worker' = [worker EXCEPT ![w].pc = pc], sent' \in [Preparation -> Nat]
      PROVE  AiWorkerTypeOK'
  <2> DEFINE h == [worker[w] EXCEPT !.pc = pc]
  <2>1. worker' = [worker EXCEPT ![w] = h] /\ worker[w] \in WorkerRow
    BY <1>1, <1>8
  <2>2. /\ h \in WorkerRow /\ h.pc = pc /\ h.prep = worker[w].prep
        /\ h.outcome = worker[w].outcome /\ h.used = worker[w].used
    BY <2>1 DEF WorkerRow, WorkerPc
  <2>3. h.outcome \in Answered => h.used \in Nat
    BY <1>1, <2>2 DEF AiWorkerTypeOK
  <2> HIDE DEF h
  <2> QED BY <1>1, <1>2, <1>5, <1>8, <2>1, <2>2, <2>3, WorkerBecomes
<1>9. ASSUME NEW w \in Worker, Invoke(w) PROVE AiWorkerTypeOK'
  <2>1. worker[w].pc # "idle" /\ worker' = [worker EXCEPT ![w].pc = "calling"]
    BY <1>9 DEF Invoke
  <2>2. sent' \in [Preparation -> Nat]
    BY <1>1, <1>5, <1>9, <2>1 DEF Invoke
  <2> QED BY <1>8, <2>1, <2>2
<1>10. ASSUME NEW w \in Worker, NEW outcome \in Outcome, NEW used \in Nat \cup {None},
              worker[w].pc # "idle", outcome \in Answered => used \in Nat,
              worker' = [worker EXCEPT ![w].pc = "answered", ![w].outcome = outcome,
                                       ![w].used = used], UNCHANGED sent
       PROVE  AiWorkerTypeOK'
  <2> DEFINE h == [worker[w] EXCEPT !.pc = "answered", !.outcome = outcome, !.used = used]
  <2>1. worker' = [worker EXCEPT ![w] = h] /\ worker[w] \in WorkerRow
    BY <1>1, <1>10
  <2>2. /\ h \in WorkerRow /\ h.pc = "answered" /\ h.prep = worker[w].prep
        /\ h.outcome = outcome /\ h.used = used
    BY <2>1 DEF WorkerRow, WorkerPc
  <2> HIDE DEF h
  <2> QED BY <1>1, <1>2, <1>5, <1>10, <2>1, <2>2, WorkerBecomes
<1>11. ASSUME NEW w \in Worker, Refuse(w) PROVE AiWorkerTypeOK'
  <2>0. PICK outcome \in {"refused", "ambiguous"} :
            worker' = [worker EXCEPT ![w].pc = "answered", ![w].outcome = outcome]
    BY <1>11 DEF Refuse
  <2> DEFINE h == [worker[w] EXCEPT !.pc = "answered", !.outcome = outcome]
  <2>1. worker[w].pc # "idle" /\ worker[w] \in WorkerRow /\ UNCHANGED sent
    BY <1>1, <1>11 DEF Refuse
  <2>2. worker' = [worker EXCEPT ![w] = h]
    BY <1>1, <2>0
  <2>3. /\ h \in WorkerRow /\ h.pc = "answered" /\ h.prep = worker[w].prep /\ h.outcome = outcome
    BY <2>1 DEF WorkerRow, WorkerPc, Outcome
  <2>4. outcome \in Outcome /\ outcome \notin Answered
    BY DEF Outcome, Answered
  <2> HIDE DEF h
  <2> QED BY <1>1, <1>2, <1>5, <2>1, <2>2, <2>3, <2>4, WorkerBecomes
<1>12. ASSUME NEW w \in Worker, Return(w) PROVE AiWorkerTypeOK'
  <2> DEFINE provider == prep[worker[w].prep].provider
             Usage(outcome) == IF outcome \in Answered THEN 0..MaxUsage ELSE {None}
  <2>1. PICK outcome \in OutcomesOf(provider) : \E used \in Usage(outcome) :
            worker' = [worker EXCEPT ![w].pc = "answered", ![w].outcome = outcome,
                                     ![w].used = used]
    BY <1>12 DEF Return
  <2>2. PICK used \in Usage(outcome) :
            worker' = [worker EXCEPT ![w].pc = "answered", ![w].outcome = outcome,
                                     ![w].used = used]
    BY <2>1
  <2>3. outcome \in Outcome
    BY DEF OutcomesOf, Outcome
  <2>4. used \in Nat \cup {None} /\ (outcome \in Answered => used \in Nat)
    BY AiWorkerAssumption
  <2>5. worker[w].pc # "idle" /\ UNCHANGED sent
    BY <1>12 DEF Return
  <2> QED BY <1>10, <2>2, <2>3, <2>4, <2>5
<1>13. ASSUME NEW w \in Worker, Work(w) \/ Crash(w) PROVE AiWorkerTypeOK'
  <2>1. CASE RecordInputHash(w)
    <3>1. /\ worker[w].pc # "idle" /\ sent' \in [Preparation -> Nat]
          /\ worker' = [worker EXCEPT ![w].pc = "ready"]
      BY <1>1, <2>1 DEF RecordInputHash
    <3> QED BY <1>8, <3>1
  <2>2. CASE Leave(w) \/ Finalize(w) \/ Crash(w)
    <3>1. Rest(w) /\ UNCHANGED sent
      BY <2>2 DEF Leave, Finalize, FinalizeSuccess, FinalizeFailed, FinalizeUnknown, Discard,
                  Crash, Drop
    <3> QED BY <1>4, <3>1
  <2> QED BY <1>7, <1>9, <1>11, <1>12, <1>13, <2>1, <2>2 DEF Work, Prepare
<1>14. CASE Next
  <2>1. ASSUME NEW p \in Preparation, LeaseExpire(p) PROVE AiWorkerTypeOK'
    BY <1>3, <2>1 DEF LeaseExpire
  <2>2. CASE AiWorkerNext
    BY <1>6, <1>13, <2>1, <2>2 DEF AiWorkerNext
  <2> QED BY <1>3, <1>14, <2>2 DEF Next
<1> QED BY <1>3, <1>14 DEF aiVars, aiWorkerVars

-------------------------------------------------------------------------------
(* What a commit records is a record, under a key that was free.           *)
LEMMA Remembered ==
    ASSUME AiRowsOK, NEW s \in Submission, NEW resource \in Preparation \cup Nat,
           KeyFree(s), Remember(s, resource)
    PROVE  /\ ScopeOf(s) \in AiScope /\ ScopeOf(s)[1] = s.op /\ idem[ScopeOf(s)] = None
           /\ idem'[ScopeOf(s)] = [sub |-> s, resource |-> resource]
           /\ idem'[ScopeOf(s)] # None
           /\ \A k \in AiScope \ {ScopeOf(s)} : idem'[k] = idem[k]
<1>1. idem \in [AiScope -> IdemRecord \cup {None}]
  BY DEF AiRowsOK, AiTypeOK, AiRequestTypeOK
<1>2. ScopeOf(s) \in AiScope /\ ScopeOf(s)[1] = s.op
  BY AiScopeType
<1>3. [sub |-> s, resource |-> resource] \in IdemRecord
  BY DEF IdemRecord
<1>4. [sub |-> s, resource |-> resource] # None
  BY <1>3, AiRowAssumption
<1> QED BY <1>1, <1>2, <1>4 DEF KeyFree, Remember

(* Records are never changed, nor are the limits they set.                 *)
LEMMA LimitsGrow ==
    ASSUME AiRowsOK, RowStep
    PROVE  DailyLimits \subseteq DailyLimits'
<1>1. ASSUME \A k \in AiScope : idem[k] # None => idem'[k] = idem[k]
      PROVE  DailyLimits \subseteq DailyLimits'
  <2>1. \A k \in PolicyWrites : k \in PolicyWrites' /\ idem'[k] = idem[k]
    BY <1>1 DEF PolicyWrites
  <2> QED BY <2>1 DEF DailyLimits
<1>2. CASE UNCHANGED idem
  BY <1>1, <1>2
<1>3. ASSUME NEW s \in Submission, NEW resource \in Preparation \cup Nat,
             KeyFree(s), Remember(s, resource)
      PROVE  DailyLimits \subseteq DailyLimits'
  <2>1. \A k \in AiScope : idem[k] # None => idem'[k] = idem[k]
    BY <1>3, Remembered
  <2> QED BY <2>1, <1>1
<1> QED
  BY <1>2, <1>3 DEF RowStep, Quiet, LeaseLost, PolicyWritten, Enqueued, ByMail, Started, GivenUp,
                    ClosedAs

(* The limit of a PUT is recorded with it.                                 *)
LEMMA WrittenLimit ==
    ASSUME AiRowsOK, NEW s \in Submission, NEW version \in Nat, PolicyWritten(s, version)
    PROVE  policy'.daily \in DailyLimits'
<1>1. /\ ScopeOf(s) \in AiScope /\ ScopeOf(s)[1] = "ai.policy.put"
      /\ idem'[ScopeOf(s)] = [sub |-> s, resource |-> version] /\ idem'[ScopeOf(s)] # None
      /\ policy'.daily = s.limits.daily
  BY Remembered DEF PolicyWritten
<1>2. ScopeOf(s) \in PolicyWrites'
  BY <1>1 DEF PolicyWrites
<1>3. idem'[ScopeOf(s)].sub.limits.daily = s.limits.daily
  BY <1>1
<1> QED BY <1>1, <1>2, <1>3 DEF DailyLimits

(* A handler knows no policy but one it has read.                          *)
LEMMA SeenIsRead ==
    ASSUME AiRowsOK, [Next]_aiVars
    PROVE  \A z \in Slot : req'[z].seen \in {None, req[z].seen, policy}
<1> DEFINE Goal == \A z \in Slot : req'[z].seen \in {None, req[z].seen, policy}
<1>1. req \in [Slot -> Handler]
  BY DEF AiRowsOK, AiTypeOK, AiRequestTypeOK, Handler
<1>2. CASE UNCHANGED req
  BY <1>2
<1>3. ASSUME NEW q \in Slot, NEW h, req' = [req EXCEPT ![q] = h],
             h.seen \in {None, req[q].seen, policy}
      PROVE  Goal
  BY <1>1, <1>3
<1>4. ASSUME NEW q \in Slot, NEW reply, Answer(q, reply) PROVE Goal
  <2> DEFINE h == [req[q] EXCEPT !.pc = "done", !.reply = reply]
  <2>1. req' = [req EXCEPT ![q] = h] /\ h.seen = req[q].seen
    BY <1>1, <1>4 DEF Answer, Handler
  <2> HIDE DEF h, Goal
  <2> QED BY <1>3, <2>1
<1>5. ASSUME NEW q \in Slot, Begin(q) PROVE Goal
  <2>1. PICK s \in Submission :
           req' = [req EXCEPT ![q] =
             IF ~Authorized(s)
             THEN [Idle EXCEPT !.pc = "done", !.sub = s,
                               !.reply = Refused(403, "insufficient_role")]
             ELSE IF Replay(s) # None
             THEN [Idle EXCEPT !.pc = "done", !.sub = s, !.reply = Replay(s)]
             ELSE [Idle EXCEPT !.pc = "read", !.sub = s]]
    BY <1>5 DEF Begin
  <2>2. ASSUME NEW reply, NEW h, h = [Idle EXCEPT !.pc = "done", !.sub = s, !.reply = reply]
                                 \/ h = [Idle EXCEPT !.pc = "read", !.sub = s],
               req' = [req EXCEPT ![q] = h]
        PROVE  Goal
    <3>1. h.seen = None
      BY <2>2 DEF Idle
    <3> HIDE DEF Goal
    <3> QED BY <1>3, <2>2, <3>1
  <2> HIDE DEF Goal
  <2> QED BY <2>1, <2>2
<1>6. ASSUME NEW q \in Slot, Read(q) PROVE Goal
  <2> DEFINE pc == IF req[q].sub.op = "ai.policy.put" THEN "commit" ELSE "claim"
             h == [req[q] EXCEPT !.pc = pc, !.seen = policy]
  <2>1. CASE req' = [req EXCEPT ![q].pc = pc, ![q].seen = policy]
    <3>1. req' = [req EXCEPT ![q] = h] /\ h.seen = policy
      BY <1>1, <2>1 DEF Handler
    <3> HIDE DEF h, Goal
    <3> QED BY <1>3, <3>1
  <2> QED BY <1>4, <1>6, <2>1 DEF Read
<1>7. ASSUME NEW q \in Slot, ReadClaim(q) PROVE Goal
  <2> DEFINE h == [req[q] EXCEPT !.pc = "commit"]
  <2>1. CASE req' = [req EXCEPT ![q].pc = "commit"]
    <3>1. req' = [req EXCEPT ![q] = h] /\ h.seen = req[q].seen
      BY <1>1, <2>1 DEF Handler
    <3> HIDE DEF h, Goal
    <3> QED BY <1>3, <3>1
  <2> QED BY <1>4, <1>7, <2>1 DEF ReadClaim
<1>8. ASSUME NEW q \in Slot, Respond(q) \/ Abort(q) PROVE Goal
  <2>1. req' = [req EXCEPT ![q] = Idle] /\ Idle.seen = None
    BY <1>8 DEF Respond, Abort, Idle
  <2> QED BY <1>3, <2>1
<1>9. ASSUME NEW q \in Slot, Handle(q) PROVE Goal
  <2> HIDE DEF Goal
  <2> QED BY <1>4, <1>6, <1>7, <1>9
          DEF Handle, CommitPolicy, PolicyConflict, CommitEnqueue, EnqueueConflict
<1>10. CASE Next
  <2>1. CASE \E q \in Slot : Begin(q) \/ Handle(q) \/ Respond(q) \/ Abort(q)
    BY <1>5, <1>8, <1>9, <2>1
  <2>2. CASE (\E s \in Source : PrepareByMail(s)) \/ NextDay
    BY <1>2, <2>2 DEF PrepareByMail, NextDay
  <2> QED BY <1>2, <1>10, <2>1, <2>2 DEF Next, AiRequestNext
<1> QED BY <1>2, <1>10 DEF aiVars

(* So every policy that is read stays one whose limit is recorded.         *)
LEMMA LimitsStayRecorded ==
    ASSUME AiRowsOK, [Next]_aiVars, RowStep
    PROVE  LimitsRecorded'
<1>1. DailyLimits \subseteq DailyLimits'
  BY LimitsGrow
<1>2. policy' # None => policy'.daily \in DailyLimits'
  <2>1. CASE UNCHANGED policy
    BY <1>1, <2>1 DEF AiRowsOK, LimitsRecorded
  <2>2. CASE \E s \in Submission, version \in Nat : PolicyWritten(s, version)
    BY <2>2, WrittenLimit
  <2> QED
    BY <2>1, <2>2 DEF RowStep, Quiet, LeaseLost, Enqueued, ByMail, Started, GivenUp, ClosedAs
<1>3. ASSUME NEW q \in Slot, req'[q].seen # None PROVE req'[q].seen.daily \in DailyLimits'
  <2>1. req'[q].seen = req[q].seen \/ req'[q].seen = policy
    BY <1>3, SeenIsRead
  <2> QED BY <1>1, <1>3, <2>1 DEF AiRowsOK, LimitsRecorded
<1> QED BY <1>2, <1>3 DEF LimitsRecorded

-------------------------------------------------------------------------------
(* What every step may rely on holds from the start and stays.             *)
LEMMA AiRowsInit == Init => AiRowsOK
<1> SUFFICES ASSUME Init PROVE AiRowsOK
  OBVIOUS
<1>1. AiStoreTypeOK
  BY AiDayAssumption DEF Init, AiStoreInit, AiStoreTypeOK, NoPrep, PrepRow, Unclaimed
<1>2. AiRequestTypeOK
  BY DEF Init, AiRequestInit, AiStoreInit, AiRequestTypeOK, Idle, Pc
<1>3. AiWorkerTypeOK
  <2>1. event \in [Preparation -> EventRow]
    BY DEF Init, AiStoreInit, NoEvent, EventRow
  <2>2. worker \in [Worker -> WorkerRow] /\ \A w \in Worker : worker[w] = Resting
    BY RestingType DEF Init, AiWorkerInit
  <2>3. sent \in [Preparation -> Nat]
    BY DEF Init, AiWorkerInit
  <2> QED BY <2>1, <2>2, <2>3, RestingType DEF AiWorkerTypeOK, WorkerRow
<1>4. HandlersInformed
  BY DEF Init, AiRequestInit, HandlersInformed, Idle
<1>5. RowsComplete
  BY DEF Init, AiStoreInit, RowsComplete, NoPrep, Settled
<1>7. LimitsRecorded
  BY DEF Init, AiStoreInit, AiRequestInit, LimitsRecorded, Idle
<1>6. PreparationAgreement
  BY DEF Init, AiStoreInit, PreparationAgreement, NoPrep, NoEvent, Terminal
<1> QED BY <1>1, <1>2, <1>3, <1>4, <1>5, <1>6, <1>7 DEF AiRowsOK, AiTypeOK

LEMMA AiRowsStep ==
    ASSUME AiRowsOK, [Next]_aiVars
    PROVE  AiRowsOK' /\ RowStep
BY EveryStepMoves, RowsStayOK, HandlersStayOK, WorkersStayOK, LimitsStayRecorded
   DEF AiRowsOK, AiTypeOK, RowsFollow

LEMMA AiRowsAlways == Spec => []AiRowsOK
<1>1. AiRowsOK /\ [Next]_aiVars => AiRowsOK'
  BY AiRowsStep
<1> QED BY <1>1, AiRowsInit, PTL DEF Spec

(* Every row, handler and worker keeps its shape, whatever requests come,  *)
(* days pass and workers do or die.                                        *)
THEOREM AiTypeCorrect == Spec => []AiTypeOK
<1>1. AiRowsOK => AiTypeOK
  BY DEF AiRowsOK
<1> QED BY <1>1, AiRowsAlways, PTL

(* The preparation, its outbox event and its invocation always tell the    *)
(* same story: each commit of ai/service.py and ai/worker.py moves them    *)
(* together, and only a current claim finalizes.                           *)
THEOREM RowsAgree == Spec => []PreparationAgreement
<1>1. AiRowsOK => PreparationAgreement
  BY DEF AiRowsOK
<1> QED BY <1>1, AiRowsAlways, PTL

-------------------------------------------------------------------------------
(* An invocation row is never deleted.                                     *)
LEMMA InvocationStays ==
    ASSUME AiRowsOK, RowStep
    PROVE  \A p \in Preparation : inv[p] # "none" => inv'[p] # "none"
<1>1. inv \in [Preparation -> InvStatus]
  BY DEF AiRowsOK, AiTypeOK, AiStoreTypeOK, InvStatus
<1>2. ASSUME NEW p \in Preparation, NEW row, NEW e, NEW i, NEW type, Moves(p, row, e, i, type),
             i # "none" \/ i = inv[p]
      PROVE  \A z \in Preparation : inv[z] # "none" => inv'[z] # "none"
  BY <1>2, MoveTells
<1>3. ASSUME NEW s \in Submission, NEW p \in Preparation, NEW row \in PrepRow, Enqueued(s, p, row)
      PROVE  \A z \in Preparation : inv[z] # "none" => inv'[z] # "none"
  BY <1>2, <1>3 DEF Enqueued
<1>4. ASSUME NEW p \in Preparation, NEW e \in EventRow, Started(p, e) \/ GivenUp(p, e)
      PROVE  \A z \in Preparation : inv[z] # "none" => inv'[z] # "none"
  BY <1>2, <1>4 DEF Started, GivenUp
<1>5. ASSUME NEW p \in Preparation, NEW status \in Settled, NEW used \in Nat, NEW e \in EventRow,
             ClosedAs(p, status, used, e)
      PROVE  \A z \in Preparation : inv[z] # "none" => inv'[z] # "none"
  BY <1>2, <1>5 DEF ClosedAs, Settled
<1>6. CASE UNCHANGED inv
  BY <1>6
<1> QED BY <1>3, <1>4, <1>5, <1>6 DEF RowStep, Quiet, LeaseLost, PolicyWritten, ByMail

(* Every step keeps each preparation with one worker and one call.         *)
LEMMA WorkersStayOnce ==
    ASSUME AiRowsOK, WorkersOnce, [Next]_aiVars
    PROVE  WorkersOnce'
<1>1. /\ worker \in [Worker -> WorkerRow] /\ sent \in [Preparation -> Nat]
      /\ \A w \in Worker : worker[w].pc # "idle" => worker[w].prep \in Preparation
  BY DEF AiRowsOK, AiTypeOK, AiWorkerTypeOK, WorkerRow
<1>2. \A p \in Preparation : inv[p] # "none" => inv'[p] # "none"
  BY AiRowsStep, InvocationStays
<1>3. CASE UNCHANGED aiWorkerVars
  BY <1>1, <1>2, <1>3 DEF WorkersOnce, aiWorkerVars
<1>4. ASSUME NEW w \in Worker, UNCHANGED sent, \A v \in Worker \ {w} : worker'[v] = worker[v],
             \/ worker'[w].pc = "idle"
             \/ /\ worker'[w].prep = worker[w].prep /\ worker[w].pc # "idle"
                /\ worker'[w].pc \in {"claimed", "loaded", "ready"}
                      => worker[w].pc \in {"claimed", "loaded", "ready"}
      PROVE  WorkersOnce'
  <2>1. \A v \in Worker : worker'[v].pc # "idle"
           => worker[v].pc # "idle" /\ worker'[v].prep = worker[v].prep
    BY <1>4
  <2>2. \A v \in Worker : worker'[v].pc \in {"claimed", "loaded", "ready"}
           => worker[v].pc \in {"claimed", "loaded", "ready"}
    BY <1>4
  <2> QED BY <1>1, <1>2, <1>4, <2>1, <2>2 DEF WorkersOnce
<1>5. ASSUME NEW w \in Worker, NEW p \in Preparation, Claim(w, p) PROVE WorkersOnce'
  <2>1. CASE ClaimFirst(w, p)
    <3>1. /\ worker'[w].pc = "claimed" /\ worker'[w].prep = p
          /\ \A v \in Worker \ {w} : worker'[v] = worker[v]
          /\ UNCHANGED sent /\ inv[p] = "none"
      BY <1>1, <2>1 DEF ClaimFirst, Resting, Invoked
    <3>2. inv'[p] = "started"
      BY <2>1 DEF ClaimFirst, AiRowsOK, AiTypeOK, AiStoreTypeOK
    <3>3. \A v \in Worker : worker[v].pc # "idle" => worker[v].prep # p
      BY <3>1 DEF WorkersOnce
    <3>4. sent[p] = 0
      BY <1>1, <3>1 DEF WorkersOnce
    <3> QED BY <1>1, <1>2, <3>1, <3>2, <3>3, <3>4 DEF WorkersOnce
  <2>2. CASE ClaimAgain(w, p)
    BY <1>3, <2>2 DEF ClaimAgain
  <2> QED BY <1>5, <2>1, <2>2 DEF Claim
<1>6. ASSUME NEW w \in Worker, Invoke(w) PROVE WorkersOnce'
  <2> DEFINE p == worker[w].prep
  <2>1. worker[w].pc = "ready" /\ p \in Preparation /\ sent[p] = 0 /\ inv[p] # "none"
    BY <1>1, <1>6 DEF Invoke, WorkersOnce
  <2>2. /\ worker'[w].pc = "calling" /\ worker'[w].prep = p
        /\ \A v \in Worker \ {w} : worker'[v] = worker[v]
    BY <1>1, <1>6 DEF Invoke, WorkerRow
  <2>3. sent'[p] = 1 /\ \A z \in Preparation \ {p} : sent'[z] = sent[z]
    BY <1>1, <1>6, <2>1 DEF Invoke
  <2>4. \A v \in Worker \ {w} : worker[v].pc # "idle" => worker[v].prep # p
    BY <2>1 DEF WorkersOnce
  <2> HIDE DEF p
  <2>5. \A v \in Worker : /\ worker'[v].pc # "idle" <=> worker[v].pc # "idle"
                          /\ worker'[v].pc # "idle" => worker'[v].prep = worker[v].prep
    BY <2>1, <2>2 DEF p
  <2>6. /\ \A v \in Worker : worker'[v].pc # "idle" => inv'[worker'[v].prep] # "none"
        /\ \A u, v \in Worker :
             (worker'[u].pc # "idle" /\ worker'[v].pc # "idle" /\ worker'[u].prep = worker'[v].prep)
                => u = v
    BY <1>1, <1>2, <2>5 DEF WorkersOnce
  <2>7. \A v \in Worker :
           worker'[v].pc \in {"claimed", "loaded", "ready"} => sent'[worker'[v].prep] = 0
    BY <1>1, <2>2, <2>3, <2>4 DEF WorkersOnce
  <2>8. \A z \in Preparation : sent'[z] <= 1 /\ (sent'[z] > 0 => inv'[z] # "none")
    BY <1>2, <2>1, <2>3 DEF WorkersOnce
  <2> QED BY <2>6, <2>7, <2>8 DEF WorkersOnce
<1>7. ASSUME NEW w \in Worker, Work(w) \/ Crash(w) PROVE WorkersOnce'
  <2>1. CASE Leave(w) \/ Finalize(w) \/ Crash(w)
    <3>1. Rest(w) /\ UNCHANGED sent
      BY <2>1 DEF Leave, Finalize, FinalizeSuccess, FinalizeFailed, FinalizeUnknown, Discard,
                  Crash, Drop
    <3>2. worker'[w].pc = "idle" /\ \A v \in Worker \ {w} : worker'[v] = worker[v]
      BY <1>1, <3>1 DEF Rest, Resting
    <3> QED BY <1>4, <3>1, <3>2
  <2>2. CASE LoadWork(w)
    <3>1. /\ worker[w].pc = "claimed" /\ worker'[w].prep = worker[w].prep /\ UNCHANGED sent
          /\ \A v \in Worker \ {w} : worker'[v] = worker[v]
      BY <1>1, <2>2 DEF LoadWork, WorkerRow
    <3> QED BY <1>4, <3>1
  <2>3. CASE Refuse(w)
    <3>1. /\ worker[w].pc # "idle" /\ worker'[w].prep = worker[w].prep /\ UNCHANGED sent
          /\ worker'[w].pc = "answered" /\ \A v \in Worker \ {w} : worker'[v] = worker[v]
      BY <1>1, <2>3 DEF Refuse, WorkerRow
    <3> QED BY <1>4, <3>1
  <2>4. CASE RecordInputHash(w)
    <3>1. /\ worker[w].pc = "loaded" /\ worker'[w].prep = worker[w].prep /\ UNCHANGED sent
          /\ \A v \in Worker \ {w} : worker'[v] = worker[v]
      BY <1>1, <2>4 DEF RecordInputHash, WorkerRow
    <3> QED BY <1>4, <3>1
  <2>5. CASE Return(w)
    <3>1. PICK outcome, used :
            worker' = [worker EXCEPT ![w].pc = "answered", ![w].outcome = outcome,
                                     ![w].used = used]
      BY <2>5 DEF Return
    <3>2. worker[w].pc = "calling" /\ UNCHANGED sent
      BY <2>5 DEF Return
    <3>3. /\ worker'[w].prep = worker[w].prep /\ worker'[w].pc = "answered"
          /\ \A v \in Worker \ {w} : worker'[v] = worker[v]
      BY <1>1, <3>1 DEF WorkerRow
    <3> QED BY <1>4, <3>2, <3>3
  <2> QED BY <1>6, <1>7, <2>1, <2>2, <2>3, <2>4, <2>5 DEF Work, Prepare
<1>8. CASE Next
  <2>1. ASSUME NEW p \in Preparation, LeaseExpire(p) PROVE WorkersOnce'
    BY <1>3, <2>1 DEF LeaseExpire
  <2>2. CASE AiWorkerNext
    BY <1>5, <1>7, <2>1, <2>2 DEF AiWorkerNext
  <2> QED BY <1>3, <1>8, <2>2 DEF Next
<1> QED BY <1>3, <1>8 DEF aiVars, aiWorkerVars

LEMMA WorkersOnceAlways == Spec => [](AiRowsOK /\ WorkersOnce)
<1>1. Init => WorkersOnce
  BY DEF Init, AiWorkerInit, AiStoreInit, WorkersOnce, Resting
<1>2. AiRowsOK /\ WorkersOnce /\ [Next]_aiVars => WorkersOnce'
  BY WorkersStayOnce
<1> QED BY <1>1, <1>2, AiRowsAlways, PTL DEF Spec

(* README.md: "Un crash dopo il claim non causa una seconda spesa".  For   *)
(* every number of workers, crashes and expired leases, a preparation's    *)
(* provider is called at most once, by one worker, after the commit of the *)
(* invocation row.                                                         *)
THEOREM NoSecondSpending == Spec => []OneCallPerPreparation
<1>1. AiRowsOK /\ WorkersOnce => OneCallPerPreparation
  <2> SUFFICES ASSUME AiRowsOK, WorkersOnce, NEW p \in Preparation
               PROVE  sent[p] + Cardinality(Spending(p)) <= 1 /\ (sent[p] > 0 => inv[p] # "none")
    BY DEF OneCallPerPreparation
  <2>1. sent[p] \in Nat /\ sent[p] <= 1 /\ (sent[p] > 0 => inv[p] # "none")
    BY DEF AiRowsOK, AiTypeOK, AiWorkerTypeOK, WorkersOnce
  <2>2. CASE Spending(p) = {}
    BY <2>1, <2>2, FS_EmptySet
  <2>3. ASSUME NEW w \in Spending(p) PROVE Spending(p) = {w} /\ sent[p] = 0
    BY <2>3 DEF Spending, WorkersOnce
  <2>4. CASE Spending(p) # {}
    <3>1. PICK w \in Spending(p) : Spending(p) = {w} /\ sent[p] = 0
      BY <2>3, <2>4
    <3>2. Cardinality(Spending(p)) = 1
      BY <3>1, FS_Singleton
    <3> QED BY <3>1, <3>2
  <2> QED BY <2>2, <2>4
<1> QED BY <1>1, WorkersOnceAlways, PTL

-------------------------------------------------------------------------------
(* The trail a status leaves.                                              *)
TrailOf(status) ==
    CASE status = "absent" -> <<>>
      [] status = "queued" -> <<"ai_preparation_queued">>
      [] status = "processing" -> <<"ai_preparation_queued", "ai_preparation_started">>
      [] OTHER -> <<"ai_preparation_queued", "ai_preparation_started", EventOf(status)>>

LEMMA TrailIsRowwise ==
    /\ AiTrailTellsStatus <=> \A p \in Preparation : audit[p] = TrailOf(prep[p].status)
    /\ AiTrailTellsStatus' <=> \A p \in Preparation : audit'[p] = TrailOf(prep'[p].status)
BY DEF AiTrailTellsStatus, TrailOf

(* A sequence with one more element.                                       *)
LEMMA AppendToOne ==
    ASSUME NEW S, NEW a \in S, NEW b \in S
    PROVE  Append(<<a>>, b) = <<a, b>>
<1> DEFINE s == Append(<<a>>, b)
           t == <<a, b>>
<1>1. <<a>> \in Seq(S) /\ Len(<<a>>) = 1 /\ <<a>>[1] = a
  OBVIOUS
<1>2. s \in Seq(S) /\ Len(s) = 2 /\ s[1] = a /\ s[2] = b
  BY <1>1, AppendProperties
<1>3. t \in Seq(S) /\ Len(t) = 2 /\ t[1] = a /\ t[2] = b
  OBVIOUS
<1> HIDE DEF s, t
<1>4. \A i \in 1..Len(s) : s[i] = t[i]
  BY <1>2, <1>3
<1> QED BY <1>2, <1>3, <1>4, SeqEqual DEF s, t

LEMMA AppendToTwo ==
    ASSUME NEW S, NEW a \in S, NEW b \in S, NEW c \in S
    PROVE  Append(<<a, b>>, c) = <<a, b, c>>
<1> DEFINE s == Append(<<a, b>>, c)
           t == <<a, b, c>>
<1>1. <<a, b>> \in Seq(S) /\ Len(<<a, b>>) = 2 /\ <<a, b>>[1] = a /\ <<a, b>>[2] = b
  OBVIOUS
<1>2. s \in Seq(S) /\ Len(s) = 3 /\ s[1] = a /\ s[2] = b /\ s[3] = c
  BY <1>1, AppendProperties
<1>3. t \in Seq(S) /\ Len(t) = 3 /\ t[1] = a /\ t[2] = b /\ t[3] = c
  OBVIOUS
<1> HIDE DEF s, t
<1>4. \A i \in 1..Len(s) : s[i] = t[i]
  BY <1>2, <1>3
<1> QED BY <1>2, <1>3, <1>4, SeqEqual DEF s, t

(* Each move of a preparation adds what its new status asks for.           *)
LEMMA TrailsGrow ==
    /\ Append(TrailOf("absent"), "ai_preparation_queued") = TrailOf("queued")
    /\ Append(TrailOf("queued"), "ai_preparation_started") = TrailOf("processing")
    /\ \A status \in Terminal : Append(TrailOf("processing"), EventOf(status)) = TrailOf(status)
<1>1. /\ TrailOf("absent") = <<>> /\ TrailOf("queued") = <<"ai_preparation_queued">>
      /\ TrailOf("processing") = <<"ai_preparation_queued", "ai_preparation_started">>
  BY DEF TrailOf
<1>2. \A status \in Terminal : TrailOf(status) =
         <<"ai_preparation_queued", "ai_preparation_started", EventOf(status)>>
  BY DEF TrailOf, Terminal
<1>3. /\ "ai_preparation_queued" \in EventType /\ "ai_preparation_started" \in EventType
      /\ \A status \in Terminal : EventOf(status) \in EventType
  BY DEF EventType, EventOf, Terminal
<1>4. Append(<<>>, "ai_preparation_queued") = <<"ai_preparation_queued">>
  OBVIOUS
<1>5. Append(<<"ai_preparation_queued">>, "ai_preparation_started")
         = <<"ai_preparation_queued", "ai_preparation_started">>
  BY <1>3, AppendToOne
<1>6. \A status \in Terminal :
         Append(<<"ai_preparation_queued", "ai_preparation_started">>, EventOf(status))
            = <<"ai_preparation_queued", "ai_preparation_started", EventOf(status)>>
  BY <1>3, AppendToTwo
<1> QED BY <1>1, <1>2, <1>4, <1>5, <1>6

LEMMA TrailStays ==
    ASSUME AiRowsOK, AiTrailTellsStatus, RowStep
    PROVE  AiTrailTellsStatus'
<1>1. \A p \in Preparation : audit[p] = TrailOf(prep[p].status)
  BY TrailIsRowwise
<1>2. ASSUME NEW p \in Preparation, NEW row, NEW e, NEW i, NEW type, Moves(p, row, e, i, type),
             Append(TrailOf(prep[p].status), type) = TrailOf(row.status)
      PROVE  AiTrailTellsStatus'
  <2>1. \A z \in Preparation : audit'[z] = TrailOf(prep'[z].status)
    BY <1>1, <1>2, MoveTells
  <2> QED BY <2>1, TrailIsRowwise
<1>3. \A p \in Preparation : prep[p] \in PrepRow
  BY DEF AiRowsOK, AiTypeOK, AiStoreTypeOK
<1>4. ASSUME NEW s \in Submission, NEW p \in Preparation, NEW row \in PrepRow, Enqueued(s, p, row)
      PROVE  AiTrailTellsStatus'
  BY <1>2, <1>4, TrailsGrow DEF Enqueued
<1>5. ASSUME NEW p \in Preparation, NEW e \in EventRow, Started(p, e) PROVE AiTrailTellsStatus'
  <2> DEFINE row == [prep[p] EXCEPT !.status = "processing"]
  <2>1. row.status = "processing"
    BY <1>3 DEF PrepRow
  <2>2. /\ prep[p].status = "queued"
        /\ Moves(p, row, e, "started", "ai_preparation_started")
    BY <1>5 DEF Started
  <2> HIDE DEF row
  <2> QED BY <1>2, <2>1, <2>2, TrailsGrow
<1>6. ASSUME NEW p \in Preparation, NEW e \in EventRow, GivenUp(p, e) PROVE AiTrailTellsStatus'
  <2> DEFINE row == [prep[p] EXCEPT !.status = "unknown"]
  <2>1. row.status = "unknown"
    BY <1>3 DEF PrepRow
  <2>2. /\ prep[p].status = "processing"
        /\ Moves(p, row, e, "unknown", "ai_preparation_unknown")
    BY <1>6 DEF GivenUp
  <2>3. EventOf("unknown") = "ai_preparation_unknown" /\ "unknown" \in Terminal
    BY DEF EventOf, Terminal
  <2>4. Append(TrailOf("processing"), "ai_preparation_unknown") = TrailOf("unknown")
    BY <2>3, TrailsGrow
  <2> HIDE DEF row
  <2> QED BY <1>2, <2>1, <2>2, <2>4
<1>7. ASSUME NEW p \in Preparation, NEW status \in Settled, NEW used \in Nat, NEW e \in EventRow,
             ClosedAs(p, status, used, e)
      PROVE  AiTrailTellsStatus'
  <2> DEFINE row == [prep[p] EXCEPT !.status = status, !.used = used]
  <2>1. row.status = status
    BY <1>3 DEF PrepRow
  <2>2. /\ prep[p].status = "processing"
        /\ Moves(p, row, e, status, EventOf(status))
    BY <1>7 DEF ClosedAs
  <2>3. status \in Terminal
    BY DEF Settled, Terminal
  <2> HIDE DEF row
  <2> QED BY <1>2, <2>1, <2>2, <2>3, TrailsGrow
<1>8. CASE UNCHANGED <<prep, audit>>
  BY <1>8 DEF AiTrailTellsStatus
<1> QED BY <1>4, <1>5, <1>6, <1>7, <1>8 DEF RowStep, Quiet, LeaseLost, PolicyWritten, ByMail

(* The audit trail of a preparation, read alone, tells its status.         *)
THEOREM AiTrailIsComplete == Spec => []AiTrailTellsStatus
<1>1. Init => AiTrailTellsStatus
  BY DEF Init, AiStoreInit, NoPrep, AiTrailTellsStatus
<1>2. AiRowsOK /\ AiTrailTellsStatus /\ [Next]_aiVars => AiTrailTellsStatus'
  BY AiRowsStep, TrailStays
<1> QED BY <1>1, <1>2, AiRowsAlways, PTL DEF Spec

-------------------------------------------------------------------------------
(* A claim that names nothing is of none of the preparations there are.    *)
LEMMA ClaimsName ==
    ASSUME OneRunPerSource, NEW p \in Preparation, prep[p].status # "absent"
    PROVE  /\ claim[prep[p].source] = [prep |-> p, run |-> prep[p].status = "completed"]
           /\ claim[prep[p].source].prep = p /\ claim[prep[p].source] # Unclaimed
<1>1. claim[prep[p].source] = [prep |-> p, run |-> prep[p].status = "completed"]
  BY DEF OneRunPerSource
<1>2. p # None
  BY AiNoneAssumption
<1> QED BY <1>1, <1>2 DEF Unclaimed

LEMMA SourcesStayOnce ==
    ASSUME AiRowsOK, OneRunPerSource, RowStep
    PROVE  OneRunPerSource'
<1>1. /\ prep \in [Preparation -> PrepRow] /\ proposed \in [Source -> Nat]
      /\ claim \in [Source -> [prep : Preparation \cup {None}, run : BOOLEAN]]
      /\ \A p \in Preparation : prep[p].status # "absent" => prep[p].source \in Source
  BY DEF AiRowsOK, AiTypeOK, AiStoreTypeOK, RowsComplete
<1>2. CASE UNCHANGED <<prep, claim, proposed>>
  BY <1>2 DEF OneRunPerSource
<1>3. ASSUME NEW s \in Submission, NEW p \in Preparation, NEW row \in PrepRow, Enqueued(s, p, row)
      PROVE  OneRunPerSource'
  <2>1. /\ s.source \in Source /\ claim[s.source] = Unclaimed
        /\ row.source = s.source /\ row.status = "queued"
    BY <1>3, AiScopeType DEF Enqueued, SourceFree
  <2>2. prep'[p] = row /\ \A z \in Preparation \ {p} : prep'[z] = prep[z]
    BY <1>3, MoveTells DEF Enqueued
  <2>3. /\ claim'[s.source] = [prep |-> p, run |-> FALSE]
        /\ \A t \in Source \ {s.source} : claim'[t] = claim[t]
    BY <1>1, <1>3, <2>1 DEF Enqueued
  <2>4. \A t \in Source : proposed'[t] = IF claim'[t].run THEN 1 ELSE 0
    <3>1. proposed' = proposed /\ claim[s.source].run = FALSE
      BY <1>3, <2>1 DEF Enqueued, Unclaimed
    <3> QED BY <2>3, <3>1 DEF OneRunPerSource
  <2>5. ASSUME NEW z \in Preparation, prep'[z].status # "absent"
        PROVE  claim'[prep'[z].source] = [prep |-> z, run |-> prep'[z].status = "completed"]
    <3>1. CASE z = p
      BY <2>1, <2>2, <2>3, <3>1
    <3>2. CASE z # p
      <4>1. prep'[z] = prep[z] /\ prep[z].status # "absent" /\ prep[z].source \in Source
        BY <1>1, <2>2, <2>5, <3>2
      <4>2. prep[z].source # s.source
        BY <2>1, <4>1, ClaimsName
      <4> QED BY <2>3, <4>1, <4>2, ClaimsName
    <3> QED BY <3>1, <3>2
  <2> QED BY <2>4, <2>5 DEF OneRunPerSource
<1>4. ASSUME NEW s \in Source, ByMail(s) PROVE OneRunPerSource'
  <2>1. /\ claim[s] = Unclaimed /\ claim'[s].run = TRUE
        /\ \A t \in Source \ {s} : claim'[t] = claim[t] /\ proposed'[t] = proposed[t]
        /\ proposed'[s] = proposed[s] + 1 /\ UNCHANGED prep
    BY <1>1, <1>4 DEF ByMail
  <2>2. proposed[s] = 0
    BY <2>1 DEF OneRunPerSource, Unclaimed
  <2>3. \A t \in Source : proposed'[t] = IF claim'[t].run THEN 1 ELSE 0
    BY <2>1, <2>2 DEF OneRunPerSource
  <2>4. \A z \in Preparation : prep[z].status # "absent" => prep[z].source # s
    BY <2>1, ClaimsName
  <2> QED BY <1>1, <2>1, <2>3, <2>4 DEF OneRunPerSource
<1>5. ASSUME NEW p \in Preparation, NEW row, prep'[p] = row, prep[p].status = "processing",
             \A z \in Preparation \ {p} : prep'[z] = prep[z],
             row.source = prep[p].source, row.status \notin {"absent", "completed"},
             UNCHANGED <<claim, proposed>>
      PROVE  OneRunPerSource'
  BY <1>5 DEF OneRunPerSource
<1>6. ASSUME NEW p \in Preparation, NEW status
      PROVE  /\ [prep[p] EXCEPT !.status = status].status = status
             /\ [prep[p] EXCEPT !.status = status].source = prep[p].source
             /\ \A used : /\ [prep[p] EXCEPT !.status = status, !.used = used].status = status
                          /\ [prep[p] EXCEPT !.status = status, !.used = used].source = prep[p].source
  BY <1>1 DEF PrepRow
<1>7. ASSUME NEW p \in Preparation, NEW e \in EventRow, Started(p, e) PROVE OneRunPerSource'
  <2> DEFINE row == [prep[p] EXCEPT !.status = "processing"]
  <2>1. prep'[p] = row /\ \A z \in Preparation \ {p} : prep'[z] = prep[z]
    BY <1>7, MoveTells DEF Started
  <2>2. row.status = "processing" /\ row.source = prep[p].source
    BY <1>6
  <2>3. prep[p].status = "queued" /\ UNCHANGED <<claim, proposed>>
    BY <1>7 DEF Started
  <2> HIDE DEF row
  <2> QED BY <2>1, <2>2, <2>3 DEF OneRunPerSource
<1>8. ASSUME NEW p \in Preparation, NEW e \in EventRow, GivenUp(p, e) PROVE OneRunPerSource'
  <2> DEFINE row == [prep[p] EXCEPT !.status = "unknown"]
  <2>1. prep'[p] = row /\ \A z \in Preparation \ {p} : prep'[z] = prep[z]
    BY <1>8, MoveTells DEF GivenUp
  <2>2. row.status = "unknown" /\ row.source = prep[p].source
    BY <1>6
  <2>3. prep[p].status = "processing" /\ UNCHANGED <<claim, proposed>>
    BY <1>8 DEF GivenUp
  <2> HIDE DEF row
  <2> QED BY <1>5, <2>1, <2>2, <2>3
<1>9. ASSUME NEW p \in Preparation, NEW status \in Settled, NEW used \in Nat, NEW e \in EventRow,
             ClosedAs(p, status, used, e)
      PROVE  OneRunPerSource'
  <2> DEFINE row == [prep[p] EXCEPT !.status = status, !.used = used]
             s == prep[p].source
  <2>1. prep'[p] = row /\ \A z \in Preparation \ {p} : prep'[z] = prep[z]
    BY <1>9, MoveTells DEF ClosedAs
  <2>2. row.status = status /\ row.source = s
    BY <1>6
  <2>3. prep[p].status = "processing" /\ s \in Source
    BY <1>1, <1>9 DEF ClosedAs
  <2>4. CASE status # "completed"
    <3>1. UNCHANGED <<claim, proposed>>
      BY <1>9, <2>4 DEF ClosedAs
    <3>2. status # "absent"
      BY DEF Settled
    <3> HIDE DEF row
    <3> QED BY <1>5, <2>1, <2>2, <2>3, <2>4, <3>1, <3>2
  <2>5. CASE status = "completed"
    <3>1. /\ claim[s] = [prep |-> p, run |-> FALSE]
          /\ claim' = [claim EXCEPT ![s].run = TRUE] /\ proposed' = [proposed EXCEPT ![s] = @ + 1]
      BY <1>9, <2>5 DEF ClosedAs
    <3> HIDE DEF row, s
    <3>2. /\ claim'[s] = [prep |-> p, run |-> TRUE]
          /\ \A t \in Source \ {s} : claim'[t] = claim[t]
      <4>1. claim[s] \in [prep : Preparation \cup {None}, run : BOOLEAN] /\ claim[s].prep = p
        BY <1>1, <2>3, <3>1
      <4>2. /\ claim'[s] \in [prep : Preparation \cup {None}, run : BOOLEAN]
            /\ claim'[s].prep = p /\ claim'[s].run = TRUE
            /\ \A t \in Source \ {s} : claim'[t] = claim[t]
        BY <1>1, <2>3, <3>1, <4>1
      <4> QED BY <4>2
    <3>3. /\ proposed'[s] = proposed[s] + 1 /\ proposed[s] = 0
          /\ \A t \in Source \ {s} : proposed'[t] = proposed[t]
      BY <1>1, <2>3, <3>1 DEF OneRunPerSource
    <3>4. \A t \in Source : proposed'[t] = IF claim'[t].run THEN 1 ELSE 0
      BY <3>2, <3>3 DEF OneRunPerSource
    <3>5. ASSUME NEW z \in Preparation, prep'[z].status # "absent"
          PROVE  claim'[prep'[z].source] = [prep |-> z, run |-> prep'[z].status = "completed"]
      <4>1. CASE z = p
        BY <2>1, <2>2, <2>5, <3>2, <4>1
      <4>2. CASE z # p
        <5>1. prep'[z] = prep[z] /\ prep[z].status # "absent" /\ prep[z].source \in Source
          BY <1>1, <2>1, <3>5, <4>2
        <5>2. claim[prep[z].source].prep = z
          BY <5>1, ClaimsName
        <5>3. prep[z].source # s
          BY <3>1, <4>2, <5>2
        <5> QED BY <3>2, <5>1, <5>3, ClaimsName
      <4> QED BY <4>1, <4>2
    <3> QED BY <3>4, <3>5 DEF OneRunPerSource
  <2> QED BY <2>4, <2>5
<1> QED BY <1>2, <1>3, <1>4, <1>7, <1>8, <1>9 DEF RowStep, Quiet, LeaseLost, PolicyWritten

LEMMA SourcesAlways == Spec => [](AiRowsOK /\ OneRunPerSource)
<1>1. Init => OneRunPerSource
  BY DEF Init, AiStoreInit, OneRunPerSource, Unclaimed, NoPrep
<1>2. AiRowsOK /\ OneRunPerSource /\ [Next]_aiVars => OneRunPerSource'
  BY AiRowsStep, SourcesStayOnce
<1> QED BY <1>1, <1>2, AiRowsAlways, PTL DEF Spec

(* A source message prepares at most one run, by the AI path or by mail,   *)
(* and what a completed preparation proposed is the run its claim names.   *)
THEOREM SourcesPrepareOnce == Spec => []OneRunPerSource
BY SourcesAlways, PTL

(* A settled preparation never changes again: rows, trail and claim.       *)
LEMMA SettledStays ==
    ASSUME AiRowsOK, OneRunPerSource, RowStep, NEW z \in Preparation, prep[z].status \in Terminal
    PROVE  /\ prep'[z] = prep[z] /\ inv'[z] = inv[z] /\ audit'[z] = audit[z]
           /\ claim'[prep[z].source] = claim[prep[z].source]
<1>1. /\ prep[z].status # "absent" /\ prep[z].source \in Source
      /\ claim \in [Source -> [prep : Preparation \cup {None}, run : BOOLEAN]]
      /\ claim[prep[z].source].prep = z /\ claim[prep[z].source] # Unclaimed
  BY ClaimsName DEF AiRowsOK, AiTypeOK, AiStoreTypeOK, RowsComplete, Terminal
<1>2. ASSUME NEW p \in Preparation, NEW row, NEW e, NEW i, NEW type, Moves(p, row, e, i, type),
             prep[p].status \notin Terminal
      PROVE  prep'[z] = prep[z] /\ inv'[z] = inv[z] /\ audit'[z] = audit[z]
  BY <1>2, MoveTells
<1>3. ASSUME NEW s \in Submission, NEW p \in Preparation, NEW row \in PrepRow, Enqueued(s, p, row)
      PROVE  /\ prep'[z] = prep[z] /\ inv'[z] = inv[z] /\ audit'[z] = audit[z]
             /\ claim'[prep[z].source] = claim[prep[z].source]
  <2>1. prep'[z] = prep[z] /\ inv'[z] = inv[z] /\ audit'[z] = audit[z]
    BY <1>2, <1>3 DEF Enqueued, Terminal
  <2>2. s.source \in Source /\ s.source # prep[z].source
    BY <1>1, <1>3, AiScopeType DEF Enqueued, SourceFree
  <2> QED BY <1>1, <1>3, <2>1, <2>2 DEF Enqueued
<1>4. ASSUME NEW p \in Preparation, NEW e \in EventRow, Started(p, e) \/ GivenUp(p, e)
      PROVE  /\ prep'[z] = prep[z] /\ inv'[z] = inv[z] /\ audit'[z] = audit[z]
             /\ claim'[prep[z].source] = claim[prep[z].source]
  BY <1>2, <1>4 DEF Started, GivenUp, Terminal
<1>5. ASSUME NEW p \in Preparation, NEW status \in Settled, NEW used \in Nat, NEW e \in EventRow,
             ClosedAs(p, status, used, e)
      PROVE  /\ prep'[z] = prep[z] /\ inv'[z] = inv[z] /\ audit'[z] = audit[z]
             /\ claim'[prep[z].source] = claim[prep[z].source]
  <2>1. prep'[z] = prep[z] /\ inv'[z] = inv[z] /\ audit'[z] = audit[z]
    BY <1>2, <1>5 DEF ClosedAs, Terminal
  <2>2. CASE status # "completed"
    BY <1>5, <2>1, <2>2 DEF ClosedAs
  <2>3. CASE status = "completed"
    <3> DEFINE s == prep[p].source
    <3>1. claim[s].prep = p /\ claim' = [claim EXCEPT ![s].run = TRUE]
      BY <1>5, <2>3 DEF ClosedAs
    <3>2. z # p
      BY <1>5 DEF ClosedAs, Terminal
    <3>3. prep[z].source # s
      BY <1>1, <3>1, <3>2
    <3> HIDE DEF s
    <3> QED BY <1>1, <2>1, <3>1, <3>3
  <2> QED BY <2>2, <2>3
<1>6. ASSUME NEW s \in Source, ByMail(s)
      PROVE  /\ prep'[z] = prep[z] /\ inv'[z] = inv[z] /\ audit'[z] = audit[z]
             /\ claim'[prep[z].source] = claim[prep[z].source]
  BY <1>1, <1>6 DEF ByMail
<1>7. CASE UNCHANGED <<prep, inv, audit, claim>>
  BY <1>7
<1> QED BY <1>3, <1>4, <1>5, <1>6, <1>7 DEF RowStep, Quiet, LeaseLost, PolicyWritten

(* A worker whose claim was taken over never overwrites an outcome.        *)
THEOREM SettledPreparationsStay == Spec => SettledPreparationIsFinal
<1>1. AiRowsOK /\ OneRunPerSource /\ [Next]_aiVars =>
         [\A p \in Preparation : prep[p].status \in Terminal =>
             /\ prep'[p] = prep[p] /\ inv'[p] = inv[p] /\ audit'[p] = audit[p]
             /\ claim'[prep[p].source] = claim[prep[p].source]]_aiVars
  BY AiRowsStep, SettledStays
<1> QED BY <1>1, SourcesAlways, PTL DEF Spec, SettledPreparationIsFinal

-------------------------------------------------------------------------------
(* Rows that keep their existence and sources keep their records.          *)
LEMMA RecordsKept ==
    ASSUME RecordsTell,
           \A p \in Preparation : /\ prep'[p].status = "absent" <=> prep[p].status = "absent"
                                  /\ prep'[p].source = prep[p].source,
           \A k \in AiScope : k[1] = "ai.preparation.create" => idem'[k] = idem[k]
    PROVE  RecordsTell'
<1>1. ASSUME NEW p \in Preparation PROVE RecordsOf(p)' = RecordsOf(p)
  BY DEF RecordsOf
<1>2. ASSUME NEW p \in Preparation
      PROVE  IF prep'[p].status = "absent" THEN RecordsOf(p)' = {}
             ELSE \E k \in AiScope : RecordsOf(p)' = {k} /\ idem'[k].sub.source = prep'[p].source
  <2>1. CASE prep[p].status = "absent"
    BY <1>1, <2>1 DEF RecordsTell
  <2>2. CASE prep[p].status # "absent"
    <3>1. PICK k \in AiScope : RecordsOf(p) = {k} /\ idem[k].sub.source = prep[p].source
      BY <2>2 DEF RecordsTell
    <3>2. k[1] = "ai.preparation.create"
      BY <3>1 DEF RecordsOf
    <3> QED BY <1>1, <2>2, <3>1, <3>2
  <2> QED BY <2>1, <2>2
<1> QED BY <1>2 DEF RecordsTell

LEMMA RecordsStay ==
    ASSUME AiRowsOK, RecordsTell, RowStep
    PROVE  RecordsTell'
<1>1. \A p \in Preparation : prep[p] \in PrepRow
  BY DEF AiRowsOK, AiTypeOK, AiStoreTypeOK
<1>2. CASE UNCHANGED <<prep, idem>>
  BY <1>2, RecordsKept
<1>3. ASSUME NEW s \in Submission, NEW version \in Nat, PolicyWritten(s, version) PROVE RecordsTell'
  <2>1. /\ ScopeOf(s)[1] = "ai.policy.put" /\ UNCHANGED prep
        /\ \A k \in AiScope \ {ScopeOf(s)} : idem'[k] = idem[k]
    BY <1>3, Remembered DEF PolicyWritten
  <2> QED BY <2>1, RecordsKept
<1>4. ASSUME NEW s \in Submission, NEW p \in Preparation, NEW row \in PrepRow, Enqueued(s, p, row)
      PROVE  RecordsTell'
  <2> DEFINE k0 == ScopeOf(s)
  <2>1. /\ k0 \in AiScope /\ k0[1] = "ai.preparation.create" /\ idem[k0] = None
        /\ idem'[k0] = [sub |-> s, resource |-> p] /\ idem'[k0] # None
        /\ \A k \in AiScope \ {k0} : idem'[k] = idem[k]
    BY <1>4, Remembered DEF Enqueued
  <2>2. /\ prep'[p] = row /\ row.status = "queued" /\ row.source = s.source
        /\ \A z \in Preparation \ {p} : prep'[z] = prep[z]
        /\ RecordsOf(p) = {}
    BY <1>4, MoveTells DEF Enqueued, RecordsTell
  <2> HIDE DEF k0
  <2>3. RecordsOf(p)' = {k0}
    <3>1. \A k \in AiScope \ {k0} : k \notin RecordsOf(p)'
      BY <2>1, <2>2 DEF RecordsOf
    <3>2. k0 \in RecordsOf(p)' /\ RecordsOf(p)' \subseteq AiScope
      BY <2>1 DEF RecordsOf
    <3> QED BY <3>1, <3>2
  <2>4. ASSUME NEW z \in Preparation, z # p
        PROVE  IF prep'[z].status = "absent" THEN RecordsOf(z)' = {}
               ELSE \E k \in AiScope : RecordsOf(z)' = {k} /\ idem'[k].sub.source = prep'[z].source
    <3>1. RecordsOf(z)' = RecordsOf(z) /\ k0 \notin RecordsOf(z)
      BY <2>1, <2>4 DEF RecordsOf
    <3>2. CASE prep[z].status = "absent"
      BY <2>2, <2>4, <3>1, <3>2 DEF RecordsTell
    <3>3. CASE prep[z].status # "absent"
      <4>1. PICK k \in AiScope : RecordsOf(z) = {k} /\ idem[k].sub.source = prep[z].source
        BY <3>3 DEF RecordsTell
      <4>2. idem'[k] = idem[k] /\ prep'[z] = prep[z]
        BY <2>1, <2>2, <2>4, <3>1, <4>1
      <4> QED BY <3>1, <3>3, <4>1, <4>2
    <3> QED BY <3>2, <3>3
  <2>5. idem'[k0].sub.source = prep'[p].source
    BY <2>1, <2>2
  <2> QED BY <2>1, <2>2, <2>3, <2>4, <2>5 DEF RecordsTell
<1>5. ASSUME NEW p \in Preparation, NEW row, NEW e, NEW i, NEW type, Moves(p, row, e, i, type),
             prep[p].status = "queued" \/ prep[p].status = "processing",
             row.status # "absent", row.source = prep[p].source, UNCHANGED idem
      PROVE  RecordsTell'
  <2>1. prep'[p] = row /\ \A z \in Preparation \ {p} : prep'[z] = prep[z]
    BY <1>5, MoveTells
  <2>2. \A z \in Preparation : /\ prep'[z].status = "absent" <=> prep[z].status = "absent"
                               /\ prep'[z].source = prep[z].source
    BY <1>5, <2>1
  <2> QED BY <1>5, <2>2, RecordsKept
<1>6. ASSUME NEW p \in Preparation, NEW e \in EventRow, Started(p, e) PROVE RecordsTell'
  <2> DEFINE row == [prep[p] EXCEPT !.status = "processing"]
  <2>1. row.status = "processing" /\ row.source = prep[p].source
    BY <1>1 DEF PrepRow
  <2>2. /\ prep[p].status = "queued" /\ UNCHANGED idem
        /\ Moves(p, row, e, "started", "ai_preparation_started")
    BY <1>6 DEF Started
  <2> HIDE DEF row
  <2> QED BY <1>5, <2>1, <2>2
<1>7. ASSUME NEW p \in Preparation, NEW e \in EventRow, GivenUp(p, e) PROVE RecordsTell'
  <2> DEFINE row == [prep[p] EXCEPT !.status = "unknown"]
  <2>1. row.status = "unknown" /\ row.source = prep[p].source
    BY <1>1 DEF PrepRow
  <2>2. /\ prep[p].status = "processing" /\ UNCHANGED idem
        /\ Moves(p, row, e, "unknown", "ai_preparation_unknown")
    BY <1>7 DEF GivenUp
  <2> HIDE DEF row
  <2> QED BY <1>5, <2>1, <2>2
<1>8. ASSUME NEW p \in Preparation, NEW status \in Settled, NEW used \in Nat, NEW e \in EventRow,
             ClosedAs(p, status, used, e)
      PROVE  RecordsTell'
  <2> DEFINE row == [prep[p] EXCEPT !.status = status, !.used = used]
  <2>1. row.status # "absent" /\ row.source = prep[p].source
    BY <1>1 DEF PrepRow, Settled
  <2>2. /\ prep[p].status = "processing" /\ UNCHANGED idem
        /\ Moves(p, row, e, status, EventOf(status))
    BY <1>8 DEF ClosedAs
  <2> HIDE DEF row
  <2> QED BY <1>5, <2>1, <2>2
<1> QED BY <1>2, <1>3, <1>4, <1>6, <1>7, <1>8 DEF RowStep, Quiet, LeaseLost, ByMail

(* Every preparation was queued by exactly one recorded request, for the   *)
(* source it carries, however clients repeat requests and reuse keys.      *)
THEOREM OneRequestPerPreparation == Spec => []OneRecordPerPreparation
<1>1. Init => RecordsTell
  BY DEF Init, AiStoreInit, RecordsTell, RecordsOf, NoPrep
<1>2. AiRowsOK /\ RecordsTell /\ [Next]_aiVars => RecordsTell'
  BY AiRowsStep, RecordsStay
<1>3. RecordsTell => OneRecordPerPreparation
  <2> SUFFICES ASSUME RecordsTell, NEW p \in Preparation
               PROVE  /\ Cardinality(RecordsOf(p)) = IF prep[p].status = "absent" THEN 0 ELSE 1
                      /\ \A k \in RecordsOf(p) : idem[k].sub.source = prep[p].source
    BY DEF OneRecordPerPreparation
  <2>1. CASE prep[p].status = "absent"
    BY <2>1, FS_EmptySet DEF RecordsTell
  <2>2. CASE prep[p].status # "absent"
    <3>1. PICK k \in AiScope : RecordsOf(p) = {k} /\ idem[k].sub.source = prep[p].source
      BY <2>2 DEF RecordsTell
    <3>2. Cardinality(RecordsOf(p)) = 1
      BY <3>1, FS_Singleton
    <3> QED BY <2>2, <3>1, <3>2
  <2> QED BY <2>1, <2>2
<1> QED BY <1>1, <1>2, <1>3, AiRowsAlways, PTL DEF Spec

-------------------------------------------------------------------------------
CurrentVersion == IF policy = None THEN 0 ELSE policy.version

LEMMA PutsStay ==
    ASSUME AiRowsOK, NoLostPolicyUpdate, RowStep
    PROVE  NoLostPolicyUpdate'
<1>1. CASE UNCHANGED <<policy, idem>>
  BY <1>1 DEF NoLostPolicyUpdate, PolicyWrites
<1>2. ASSUME NEW s \in Submission, NEW p \in Preparation, NEW row \in PrepRow, Enqueued(s, p, row)
      PROVE  NoLostPolicyUpdate'
  <2>1. /\ ScopeOf(s)[1] = "ai.preparation.create" /\ UNCHANGED policy
        /\ \A k \in AiScope \ {ScopeOf(s)} : idem'[k] = idem[k]
    BY <1>2, Remembered DEF Enqueued
  <2>2. \A k \in AiScope : k[1] = "ai.policy.put" => idem'[k] = idem[k]
    BY <2>1
  <2>3. PolicyWrites' = PolicyWrites
    BY <2>2 DEF PolicyWrites
  <2>4. \A k \in PolicyWrites : idem'[k] = idem[k]
    BY <2>2 DEF PolicyWrites
  <2>5. {idem'[k].resource : k \in PolicyWrites'} = {idem[k].resource : k \in PolicyWrites}
    BY <2>3, <2>4
  <2> QED BY <2>1, <2>3, <2>4, <2>5 DEF NoLostPolicyUpdate
<1>3. ASSUME NEW s \in Submission, NEW version \in Nat, PolicyWritten(s, version)
      PROVE  NoLostPolicyUpdate'
  <2> DEFINE k0 == ScopeOf(s)
             N == CurrentVersion
  <2>1. /\ k0 \in AiScope /\ k0[1] = "ai.policy.put" /\ idem[k0] = None
        /\ idem'[k0] = [sub |-> s, resource |-> version] /\ idem'[k0] # None
        /\ \A k \in AiScope \ {k0} : idem'[k] = idem[k]
    BY <1>3, Remembered DEF PolicyWritten
  <2>2. /\ N \in Nat /\ version = N + 1 /\ CurrentVersion' = version
        /\ version = (IF version = 1 THEN 1 ELSE s.version + 1)
    <3>1. policy \in Policy \cup {None} /\ s.version \in Nat
      BY AiScopeType DEF AiRowsOK, AiTypeOK, AiStoreTypeOK
    <3>2. policy' # None /\ policy'.version = version
      BY <1>3, AiRowAssumption DEF PolicyWritten
    <3> QED BY <1>3, <3>1, <3>2 DEF PolicyWritten, CurrentVersion, Policy
  <2>3. /\ {idem[k].resource : k \in PolicyWrites} = 1..N
        /\ \A k \in PolicyWrites :
              idem[k].resource = IF idem[k].resource = 1 THEN 1 ELSE idem[k].sub.version + 1
        /\ \A j, k \in PolicyWrites : idem[j].resource = idem[k].resource => j = k
    BY DEF NoLostPolicyUpdate, CurrentVersion
  <2> HIDE DEF k0, N
  <2>4. PolicyWrites' = PolicyWrites \cup {k0} /\ k0 \notin PolicyWrites
    BY <2>1 DEF PolicyWrites
  <2>5. \A k \in PolicyWrites : idem'[k] = idem[k]
    BY <2>1, <2>4 DEF PolicyWrites
  <2>6. idem'[k0].resource = version /\ idem'[k0].sub = s
    BY <2>1
  <2>7. {idem'[k].resource : k \in PolicyWrites'} = 1..version
    <3>1. {idem'[k].resource : k \in PolicyWrites'}
             = {idem[k].resource : k \in PolicyWrites} \cup {version}
      BY <2>4, <2>5, <2>6
    <3>2. 1..version = (1..N) \cup {version}
      BY <2>2
    <3> QED BY <2>3, <3>1, <3>2
  <2>8. \A k \in PolicyWrites : idem[k].resource # version
    <3>1. \A k \in PolicyWrites : idem[k].resource \in 1..N
      BY <2>3
    <3>2. version \notin 1..N
      BY <2>2
    <3> QED BY <3>1, <3>2
  <2>9. \A k \in PolicyWrites' :
           idem'[k].resource = IF idem'[k].resource = 1 THEN 1 ELSE idem'[k].sub.version + 1
    BY <2>2, <2>3, <2>4, <2>5, <2>6
  <2>10. \A j, k \in PolicyWrites' : idem'[j].resource = idem'[k].resource => j = k
    BY <2>3, <2>4, <2>5, <2>6, <2>8
  <2> QED BY <2>2, <2>7, <2>9, <2>10 DEF NoLostPolicyUpdate, CurrentVersion
<1> QED BY <1>1, <1>2, <1>3
        DEF RowStep, Quiet, LeaseLost, ByMail, Started, GivenUp, ClosedAs

(* The optimistic lock of PUT loses no update: the recorded puts wrote     *)
(* every version once, each over the version its client had read.          *)
THEOREM PolicyUpdatesKept == Spec => []NoLostPolicyUpdate
<1>1. Init => NoLostPolicyUpdate
  BY DEF Init, AiStoreInit, NoLostPolicyUpdate, PolicyWrites
<1>2. AiRowsOK /\ NoLostPolicyUpdate /\ [Next]_aiVars => NoLostPolicyUpdate'
  BY AiRowsStep, PutsStay
<1> QED BY <1>1, <1>2, AiRowsAlways, PTL DEF Spec
================================================================================
