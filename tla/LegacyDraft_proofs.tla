-------------------------- MODULE LegacyDraft_proofs --------------------------
(***************************************************************************)
(* Theorems about LegacyDraft, for every set of drafts, actors, keys,      *)
(* handlers and requests.                                                  *)
(***************************************************************************)
EXTENDS LegacyDraft, FiniteSetTheorems, SequenceTheorems, TLAPS

(* What a handler looks up and answers is well formed.                     *)
LEMMA ScopeType ==
    ASSUME NEW s \in Submission
    PROVE  /\ <<s.op, s.key>> \in Scope /\ HashOf(s) \in Hash
           /\ s.op \in Operation /\ s.actor \in Actor /\ s.key \in Key
           /\ s.op # "dry_run" => s.target \in Draft
BY SubmissionAssumption DEF Scope, HashOf, Hash, Operation

(* A refusal is an answer.                                                 *)
LEMMA RefusedType ==
    ASSUME NEW code \in {404, 409}, NEW detail \in Detail
    PROVE  Refused(code, detail) \in Reply
BY DEF Refused, Reply

(* So is an acceptance.                                                    *)
LEMMA AcceptedType ==
    ASSUME NEW code \in Code, NEW d \in Draft
    PROVE  Accepted(code, d) \in Reply
BY DEF Accepted, Reply, Detail

(* A replay is an answer or no answer.                                     *)
LEMMA ReplayType ==
    ASSUME LegacyTypeOK, NEW s \in Submission
    PROVE  /\ Replay(s) \in Reply \cup {None}
           /\ idem[<<s.op, s.key>>] # None => Replay(s) \in Reply
<1>1. idem[<<s.op, s.key>>] \in IdemRecord \cup {None}
  BY ScopeType DEF LegacyTypeOK
<1>2. CASE idem[<<s.op, s.key>>] = None
  BY <1>2 DEF Replay
<1>3. CASE idem[<<s.op, s.key>>] \in IdemRecord
  <2>1. Accepted(idem[<<s.op, s.key>>].code, idem[<<s.op, s.key>>].resource) \in Reply
    BY <1>3, AcceptedType DEF IdemRecord
  <2>2. Refused(409, "idempotency_key_reused") \in Reply
    BY RefusedType DEF Detail
  <2> QED BY <2>1, <2>2 DEF Replay
<1> QED BY <1>1, <1>2, <1>3

(* The reads of a handler find nothing wrong or give an answer.            *)
LEMMA ReadErrorType ==
    ASSUME NEW s \in Submission
    PROVE  ReadError(s) \in Reply \cup {None} /\ ClaimConflict(s.target) \in Reply
BY RefusedType DEF ReadError, ClaimConflict, Detail

(* The part of LegacyTypeOK that is about the handlers.                    *)
HandlersOK ==
    /\ req \in [Slot -> ReqRow]
    /\ \A q \in Slot :
          /\ req[q].pc # "idle" => req[q].sub \in Submission
          /\ req[q].pc = "done" => req[q].reply \in Reply
          /\ req[q].pc \in {"read", "existing", "claimed", "returned", "raised"} =>
                req[q].sub.target \in Draft
          /\ req[q].pc \in {"existing", "claimed", "returned", "raised"} =>
                req[q].sub.op = "simulate"

(* A handler that answers stays well formed.                               *)
LEMMA AnswerType ==
    ASSUME HandlersOK, NEW q \in Slot, NEW reply \in Reply, req[q].pc # "idle", Answer(q, reply)
    PROVE  HandlersOK'
<1>1. req[q] \in ReqRow /\ req[q].sub \in Submission
  BY DEF HandlersOK
<1>2. req' = [req EXCEPT ![q] = [req[q] EXCEPT !.pc = "done", !.reply = reply]]
  BY DEF Answer, HandlersOK
<1>3. /\ req'[q] \in ReqRow /\ req'[q].pc = "done"
      /\ req'[q].sub = req[q].sub /\ req'[q].reply = reply
  BY <1>1, <1>2 DEF HandlersOK, ReqRow, Pc
<1>4. \A z \in Slot \ {q} : req'[z] = req[z]
  BY <1>2 DEF HandlersOK
<1>5. req' \in [Slot -> ReqRow]
  BY <1>2, <1>3 DEF HandlersOK
<1> QED BY <1>1, <1>3, <1>4, <1>5 DEF HandlersOK

(* So does one that moves on.                                              *)
LEMMA GotoType ==
    ASSUME HandlersOK, NEW q \in Slot, NEW pc \in {"commit", "claimed", "returned", "raised"},
           req[q].pc # "idle", Goto(q, pc),
           pc # "commit" => req[q].sub.op = "simulate" /\ req[q].sub.target \in Draft
    PROVE  HandlersOK'
BY DEF HandlersOK, Goto, ReqRow, Pc

(* And one whose client went away, or whose process died.                  *)
LEMMA IdleType ==
    ASSUME HandlersOK, NEW q \in Slot, req' = [req EXCEPT ![q] = Idle]
    PROVE  HandlersOK'
BY DEF HandlersOK, Idle, ReqRow, Pc

(* An audit row keeps every trail a sequence of events.                    *)
LEMMA AuditedType ==
    ASSUME LegacyTypeOK, NEW d \in Draft, NEW type \in EventType, NEW actor \in Actor,
           Audited(d, type, actor)
    PROVE  audit' \in [Draft -> Seq(AuditEvent)]
<1>0. [type |-> type, actor |-> actor] \in AuditEvent
  BY DEF AuditEvent
<1>1. Append(audit[d], [type |-> type, actor |-> actor]) \in Seq(AuditEvent)
  BY <1>0 DEF LegacyTypeOK
<1> QED BY <1>1 DEF Audited, LegacyTypeOK

(* Remember writes a well-formed record under the key of its request.      *)
LEMMA RememberType ==
    ASSUME LegacyTypeOK, NEW s \in Submission, NEW code \in Code, NEW d \in Draft,
           Remember(s, code, d)
    PROVE  idem' \in [Scope -> IdemRecord \cup {None}]
<1>1. [actor |-> s.actor, hash |-> HashOf(s), code |-> code, resource |-> d] \in IdemRecord
  BY ScopeType DEF IdemRecord
<1> QED BY <1>1 DEF Remember, LegacyTypeOK

(* The rows a step writes, one lemma for each kind of step.                *)
LEMMA DryRunEffect ==
    ASSUME LegacyTypeOK, NEW q \in Slot, CommitDryRun(q)
    PROVE  /\ req[q].sub \in Submission /\ req[q].sub.op = "dry_run"
           /\ \E d \in Draft :
                /\ draft[d].status = "absent"
                /\ draft' \in [Draft -> DraftRow]
                /\ draft'[d] = [draft[d] EXCEPT !.status = "proposed", !.version = 1]
                /\ \A e \in Draft \ {d} : draft'[e] = draft[e]
                /\ Audited(d, "draft_proposed", req[q].sub.actor)
                /\ Remember(req[q].sub, 201, d)
                /\ Answer(q, Accepted(201, d))
<1>1. PICK d \in Draft :
         /\ draft[d].status = "absent"
         /\ draft' = [draft EXCEPT ![d].status = "proposed", ![d].version = 1]
         /\ Audited(d, "draft_proposed", req[q].sub.actor)
         /\ Remember(req[q].sub, 201, d)
         /\ Answer(q, Accepted(201, d))
  BY DEF CommitDryRun
<1>2. draft' = [draft EXCEPT ![d] = [draft[d] EXCEPT !.status = "proposed", !.version = 1]]
  BY <1>1 DEF LegacyTypeOK
<1>3. [draft[d] EXCEPT !.status = "proposed", !.version = 1] \in DraftRow
  BY DEF LegacyTypeOK, DraftRow, DraftStatus
<1>4. /\ draft' \in [Draft -> DraftRow]
      /\ draft'[d] = [draft[d] EXCEPT !.status = "proposed", !.version = 1]
      /\ \A e \in Draft \ {d} : draft'[e] = draft[e]
  BY <1>2, <1>3 DEF LegacyTypeOK
<1>5. req[q].sub \in Submission /\ req[q].sub.op = "dry_run"
  BY DEF LegacyTypeOK, CommitDryRun
<1> QED BY <1>1, <1>4, <1>5

(* A decision moves its draft to the next version.                         *)
Decided(row, s) ==
    IF s.op = "approve"
    THEN [row EXCEPT !.status = "approved", !.version = row.version + 1, !.approver = s.actor]
    ELSE [row EXCEPT !.status = "rejected", !.version = row.version + 1, !.rejecter = s.actor]

LEMMA DecisionEffect ==
    ASSUME LegacyTypeOK, NEW q \in Slot, CommitDecision(q)
    PROVE  LET d == req[q].sub.target IN
           /\ req[q].sub \in Submission /\ d \in Draft /\ req[q].sub.actor \in Actor
           /\ draft' \in [Draft -> DraftRow]
           /\ draft'[d] = Decided(draft[d], req[q].sub)
           /\ \A e \in Draft \ {d} : draft'[e] = draft[e]
<1> DEFINE s == req[q].sub
           d == s.target
<1>1. s \in Submission /\ d \in Draft /\ s.actor \in Actor
  BY ScopeType DEF CommitDecision, LegacyTypeOK
<1>2. draft' = [draft EXCEPT ![d] = Decided(draft[d], s)]
  <2>1. CASE s.op = "approve"
    <3>1. draft' = [draft EXCEPT ![d].status = "approved",
                                 ![d].version = draft[d].version + 1, ![d].approver = s.actor]
      BY <2>1 DEF CommitDecision
    <3>2. draft' = [draft EXCEPT ![d] = [draft[d] EXCEPT !.status = "approved",
                                 !.version = draft[d].version + 1, !.approver = s.actor]]
      BY <1>1, <3>1 DEF LegacyTypeOK
    <3> QED BY <2>1, <3>2 DEF Decided
  <2>2. CASE s.op # "approve"
    <3>1. draft' = [draft EXCEPT ![d].status = "rejected",
                                 ![d].version = draft[d].version + 1, ![d].rejecter = s.actor]
      BY <2>2 DEF CommitDecision
    <3>2. draft' = [draft EXCEPT ![d] = [draft[d] EXCEPT !.status = "rejected",
                                 !.version = draft[d].version + 1, !.rejecter = s.actor]]
      BY <1>1, <3>1 DEF LegacyTypeOK
    <3> QED BY <2>2, <3>2 DEF Decided
  <2> QED BY <2>1, <2>2
<1>3. Decided(draft[d], s) \in DraftRow
  <2>1. draft[d] \in DraftRow
    BY <1>1 DEF LegacyTypeOK
  <2>2. draft[d].version + 1 \in Nat
    BY <2>1 DEF DraftRow
  <2> QED BY <1>1, <2>1, <2>2 DEF Decided, DraftRow, DraftStatus
<1> QED BY <1>1, <1>2, <1>3 DEF LegacyTypeOK

(* A finalization gives the simulation its outcome.                        *)
LEMMA FinalEffect ==
    ASSUME LegacyTypeOK, NEW q \in Slot, FinalizeSuccess(q) \/ FinalizeFailure(q)
    PROVE  LET s == req[q].sub
               d == s.target IN
           /\ Owner(q, d) /\ req[q].pc # "claimed"
           /\ s \in Submission /\ d \in Draft /\ s.actor \in Actor /\ s.op = "simulate"
           /\ sim' \in [Draft -> SimRow]
           /\ sim'[d] = [sim[d] EXCEPT !.status = SimOutcome(q)]
           /\ draft' \in [Draft -> DraftRow]
           /\ draft'[d] = IF FinalizeSuccess(q)
                          THEN [draft[d] EXCEPT !.status = "simulated", !.version = @ + 1]
                          ELSE draft[d]
           /\ \A e \in Draft \ {d} : draft'[e] = draft[e] /\ sim'[e] = sim[e]
           /\ SimOutcome(q) = IF FinalizeSuccess(q) THEN "simulated" ELSE "simulation_failed"
<1> DEFINE s == req[q].sub
           d == s.target
<1>1. /\ Owner(q, d) /\ req[q].pc # "claimed"
      /\ s \in Submission /\ d \in Draft /\ s.actor \in Actor /\ s.op = "simulate"
  BY ScopeType DEF FinalizeSuccess, FinalizeFailure, Caught, LegacyTypeOK, Owner
<1>2. draft[d] \in DraftRow /\ sim[d] \in SimRow /\ draft[d].version + 1 \in Nat
  BY <1>1 DEF LegacyTypeOK, DraftRow
<1>3. SimOutcome(q) = IF FinalizeSuccess(q) THEN "simulated" ELSE "simulation_failed"
  BY DEF FinalizeSuccess, FinalizeFailure, Caught, SimOutcome
<1>4. sim' = [sim EXCEPT ![d] = [sim[d] EXCEPT !.status = SimOutcome(q)]]
  BY <1>1 DEF FinalizeSuccess, FinalizeFailure, LegacyTypeOK
<1>5. [sim[d] EXCEPT !.status = SimOutcome(q)] \in SimRow
  BY <1>2, <1>3 DEF SimRow, SimStatus
<1>6. draft' = [draft EXCEPT ![d] =
                  IF FinalizeSuccess(q)
                  THEN [draft[d] EXCEPT !.status = "simulated", !.version = draft[d].version + 1]
                  ELSE draft[d]]
  <2>1. CASE FinalizeSuccess(q)
    BY <1>1, <2>1 DEF FinalizeSuccess, LegacyTypeOK
  <2>2. CASE ~FinalizeSuccess(q)
    BY <1>1, <2>2 DEF FinalizeFailure, LegacyTypeOK
  <2> QED BY <2>1, <2>2
<1>7. [draft[d] EXCEPT !.status = "simulated", !.version = draft[d].version + 1] \in DraftRow
  BY <1>2 DEF DraftRow, DraftStatus
<1> QED BY <1>1, <1>2, <1>3, <1>4, <1>5, <1>6, <1>7 DEF LegacyTypeOK

(* The empty service is well formed.                                       *)
LEMMA InitType == Init => LegacyTypeOK
BY DEF Init, LegacyTypeOK, DraftRow, SimRow, ReqRow, NoDraft, NoSim, Idle, Pc, DraftStatus, SimStatus

(* What the type of idempotency_records needs to survive a finalization:   *)
(* the claim of a simulation left the record that its outcome rewrites.    *)
Finalizing(q) == req[q].pc \in {"claimed", "returned", "raised"}
ClaimsRecorded ==
    \A q \in Slot :
        Finalizing(q) =>
            LET s == req[q].sub
                rec == idem[<<"simulate", s.key>>] IN
            /\ rec # None /\ rec.actor = s.actor /\ rec.hash = HashOf(s)
            /\ rec.resource = s.target

(* A record keeps its actor, payload and resource: only its code changes,  *)
(* and only by a finalization.                                             *)
SameRecord(k) ==
    /\ idem'[k].actor = idem[k].actor /\ idem'[k].hash = idem[k].hash
    /\ idem'[k].resource = idem[k].resource

(* What a step does to the records: nothing, one new record, or the code   *)
(* of a record that exists.                                                *)
LEMMA RememberKeeps ==
    ASSUME LegacyTypeOK, NEW s \in Submission, NEW code \in Code, NEW d \in Draft,
           KeyFree(s), Remember(s, code, d)
    PROVE  /\ idem'[<<s.op, s.key>>] =
                  [actor |-> s.actor, hash |-> HashOf(s), code |-> code, resource |-> d]
           /\ \A k \in Scope : idem[k] # None => idem'[k] = idem[k]
BY ScopeType DEF Remember, KeyFree, LegacyTypeOK

(* A finalization rewrites the code of the record of its claim.            *)
LEMMA RecordOutcomeKeeps ==
    ASSUME LegacyTypeOK, ClaimsRecorded, NEW q \in Slot, Finalizing(q),
           NEW code \in Code, RecordOutcome(req[q].sub, code)
    PROVE  LET k == <<"simulate", req[q].sub.key>> IN
           /\ k \in Scope /\ idem[k] \in IdemRecord
           /\ idem' \in [Scope -> IdemRecord \cup {None}]
           /\ idem'[k] = [idem[k] EXCEPT !.code = code]
           /\ \A j \in Scope \ {k} : idem'[j] = idem[j]
<1> DEFINE k == <<"simulate", req[q].sub.key>>
<1>1. req[q].sub \in Submission /\ req[q].sub.op = "simulate"
  BY DEF LegacyTypeOK, Finalizing
<1>2. k \in Scope
  BY <1>1, ScopeType
<1>3. idem[k] \in IdemRecord
  BY <1>2 DEF ClaimsRecorded, LegacyTypeOK
<1>4. idem' = [idem EXCEPT ![k] = [idem[k] EXCEPT !.code = code]]
  BY <1>1, <1>2 DEF RecordOutcome, LegacyTypeOK
<1>5. [idem[k] EXCEPT !.code = code] \in IdemRecord
  BY <1>3 DEF IdemRecord
<1> QED BY <1>2, <1>3, <1>4, <1>5 DEF LegacyTypeOK

(* Every step keeps the tables and the handlers well formed.               *)
LEMMA TypeStep == LegacyTypeOK /\ ClaimsRecorded /\ [Next]_vars => LegacyTypeOK'
<1> SUFFICES ASSUME LegacyTypeOK, ClaimsRecorded, [Next]_vars PROVE LegacyTypeOK'
  OBVIOUS
<1>h. HandlersOK
  BY DEF LegacyTypeOK, HandlersOK
<1>u. ASSUME UNCHANGED <<rows, history>>, HandlersOK' PROVE LegacyTypeOK'
  BY <1>u DEF LegacyTypeOK, HandlersOK, rows, history
<1>1. CASE UNCHANGED vars
  BY <1>1 DEF LegacyTypeOK, vars, rows, history
<1>2. ASSUME NEW q \in Slot, Begin(q) PROVE LegacyTypeOK'
  <2>1. PICK s \in Submission :
           req' = [req EXCEPT ![q] = [pc |-> IF Replay(s) # None THEN "done"
                                            ELSE IF s.op = "dry_run" THEN "commit"
                                            ELSE "read",
                                     sub |-> s, seen |-> 0, reply |-> Replay(s)]]
    BY <1>2 DEF Begin
  <2>2. Replay(s) \in Reply \cup {None} /\ (s.op # "dry_run" => s.target \in Draft)
    BY ReplayType, ScopeType
  <2>3. HandlersOK'
    BY <1>h, <2>1, <2>2 DEF HandlersOK, ReqRow, Pc
  <2> QED BY <1>2, <1>u, <2>3 DEF Begin
<1>3. ASSUME NEW q \in Slot, Read(q) PROVE LegacyTypeOK'
  <2> DEFINE s == req[q].sub
  <2>1. s \in Submission /\ s.target \in Draft /\ req[q].pc # "idle"
    BY <1>3, <1>h DEF Read, HandlersOK
  <2>2. ReadError(s) \in Reply \cup {None}
    BY <2>1, ReadErrorType
  <2>3. CASE ReadError(s) # None
    BY <1>3, <1>h, <1>u, <2>1, <2>2, <2>3, AnswerType DEF Read
  <2>4. CASE ReadError(s) = None
    <3>1. req' = [req EXCEPT ![q] = [req[q] EXCEPT
                    !.pc = IF s.op = "simulate" THEN "existing" ELSE "commit",
                    !.seen = draft[s.target].version]]
      BY <1>3, <1>h, <2>4 DEF Read, HandlersOK
    <3>2. draft[s.target].version \in Nat
      BY <2>1 DEF LegacyTypeOK, DraftRow
    <3>3. req'[q] \in ReqRow /\ req'[q].sub = s /\ req'[q].pc \in {"existing", "commit"}
          /\ (req'[q].pc = "existing" => s.op = "simulate")
      BY <1>h, <3>1, <3>2 DEF HandlersOK, ReqRow, Pc
    <3>4. req' \in [Slot -> ReqRow] /\ \A z \in Slot \ {q} : req'[z] = req[z]
      BY <1>h, <3>1, <3>3 DEF HandlersOK
    <3>5. HandlersOK'
      BY <1>h, <2>1, <3>3, <3>4 DEF HandlersOK
    <3> QED BY <1>3, <1>u, <3>5 DEF Read
  <2> QED BY <2>3, <2>4
<1>4. ASSUME NEW q \in Slot, ReadExisting(q) PROVE LegacyTypeOK'
  <2>1. req[q].sub \in Submission /\ req[q].pc # "idle"
    BY <1>4, <1>h DEF ReadExisting, HandlersOK
  <2>2. HandlersOK'
    BY <1>4, <1>h, <2>1, ReadErrorType, AnswerType, GotoType DEF ReadExisting
  <2> QED BY <1>4, <1>u, <2>2 DEF ReadExisting
<1>5. ASSUME NEW q \in Slot, CommitDryRun(q) PROVE LegacyTypeOK'
  <2> DEFINE s == req[q].sub
  <2>1. s \in Submission /\ s.actor \in Actor /\ req[q].pc # "idle"
    BY <1>5, <1>h, ScopeType DEF CommitDryRun, HandlersOK
  <2>2. PICK d \in Draft :
           /\ draft' \in [Draft -> DraftRow]
           /\ Audited(d, "draft_proposed", s.actor) /\ Remember(s, 201, d)
           /\ Answer(q, Accepted(201, d))
    BY <1>5, DryRunEffect
  <2>4. audit' \in [Draft -> Seq(AuditEvent)] /\ idem' \in [Scope -> IdemRecord \cup {None}]
    BY <2>1, <2>2, AuditedType, RememberType DEF EventType, Code
  <2>5. HandlersOK'
    BY <1>h, <2>1, <2>2, AcceptedType, AnswerType DEF Code
  <2> QED BY <1>5, <2>2, <2>4, <2>5 DEF CommitDryRun, LegacyTypeOK, HandlersOK, history
<1>6. ASSUME NEW q \in Slot, CommitDecision(q) PROVE LegacyTypeOK'
  <2> DEFINE s == req[q].sub
             d == s.target
  <2>1. s \in Submission /\ s.actor \in Actor /\ d \in Draft /\ req[q].pc # "idle"
    BY <1>6, <1>h, ScopeType DEF CommitDecision, HandlersOK
  <2>3. draft' \in [Draft -> DraftRow]
    BY <1>6, DecisionEffect
  <2>4. /\ Audited(d, "proposal_approved", s.actor) \/ Audited(d, "proposal_rejected", s.actor)
        /\ Remember(s, 200, d) /\ Answer(q, Accepted(200, d))
    BY <1>6 DEF CommitDecision
  <2>5. audit' \in [Draft -> Seq(AuditEvent)] /\ idem' \in [Scope -> IdemRecord \cup {None}]
    BY <2>1, <2>4, AuditedType, RememberType DEF EventType, Code
  <2>6. HandlersOK'
    BY <1>h, <2>1, <2>4, AcceptedType, AnswerType DEF Code
  <2> QED BY <1>6, <2>3, <2>5, <2>6 DEF CommitDecision, LegacyTypeOK, HandlersOK, history
<1>7. ASSUME NEW q \in Slot, StaleDecision(q) \/ KeyTaken(q) \/ ClaimLost(q) PROVE LegacyTypeOK'
  <2> DEFINE s == req[q].sub
  <2>1. s \in Submission /\ req[q].pc # "idle"
    BY <1>7, <1>h DEF StaleDecision, KeyTaken, ClaimLost, HandlersOK
  <2>2. Refused(409, "concurrent_modification") \in Reply
    BY RefusedType DEF Detail
  <2>3. HandlersOK'
    BY <1>7, <1>h, <2>1, <2>2, ReplayType, ReadErrorType, AnswerType
       DEF StaleDecision, KeyTaken, ClaimLost, KeyFree
  <2> QED BY <1>7, <1>u, <2>3 DEF StaleDecision, KeyTaken, ClaimLost
<1>8. ASSUME NEW q \in Slot, CommitClaim(q) PROVE LegacyTypeOK'
  <2> DEFINE s == req[q].sub
             d == s.target
  <2>1. s \in Submission /\ s.actor \in Actor /\ s.key \in Key /\ d \in Draft /\ req[q].pc # "idle"
    BY <1>8, <1>h, ScopeType DEF CommitClaim, HandlersOK
  <2>2. sim' \in [Draft -> SimRow]
    BY <1>8, <2>1 DEF CommitClaim, LegacyTypeOK, SimRow, SimStatus
  <2>3. audit' \in [Draft -> Seq(AuditEvent)] /\ idem' \in [Scope -> IdemRecord \cup {None}]
    BY <1>8, <2>1, AuditedType, RememberType DEF CommitClaim, EventType, Code
  <2>4. HandlersOK'
    BY <1>8, <1>h, <2>1, GotoType DEF CommitClaim
  <2> QED BY <1>8, <2>2, <2>3, <2>4 DEF CommitClaim, LegacyTypeOK, HandlersOK, history
<1>9. ASSUME NEW q \in Slot, Call(q) PROVE LegacyTypeOK'
  <2>1. req[q].sub.target \in Draft /\ req[q].sub.op = "simulate" /\ req[q].pc # "idle"
    BY <1>9, <1>h DEF Call, HandlersOK
  <2>2. calls' \in [Draft -> Nat]
    BY <1>9, <2>1 DEF Call, LegacyTypeOK
  <2>3. HandlersOK'
    BY <1>9, <1>h, <2>1, GotoType DEF Call
  <2> QED BY <1>9, <2>2, <2>3 DEF Call, LegacyTypeOK, HandlersOK, rows
<1>10. ASSUME NEW q \in Slot, FinalizeSuccess(q) \/ FinalizeFailure(q) PROVE LegacyTypeOK'
  <2> DEFINE s == req[q].sub
             d == s.target
  <2>1. s \in Submission /\ s.actor \in Actor /\ d \in Draft /\ req[q].pc # "idle"
    BY <1>10, <1>h, ScopeType DEF FinalizeSuccess, FinalizeFailure, Caught, HandlersOK
  <2>3. sim' \in [Draft -> SimRow] /\ draft' \in [Draft -> DraftRow]
    BY <1>10, FinalEffect
  <2>5. audit' \in [Draft -> Seq(AuditEvent)]
    BY <1>10, <2>1, AuditedType DEF FinalizeSuccess, FinalizeFailure, EventType
  <2>6. idem' \in [Scope -> IdemRecord \cup {None}]
    <3>1. Finalizing(q) /\ \E code \in Code : RecordOutcome(s, code)
      BY <1>10 DEF FinalizeSuccess, FinalizeFailure, Caught, Finalizing, Code
    <3> QED BY <3>1, RecordOutcomeKeeps
  <2>7. HandlersOK'
    BY <1>10, <1>h, <2>1, AcceptedType, AnswerType DEF FinalizeSuccess, FinalizeFailure, Code
  <2> QED BY <1>10, <2>3, <2>5, <2>6, <2>7
          DEF FinalizeSuccess, FinalizeFailure, LegacyTypeOK, HandlersOK, history
<1>11. ASSUME NEW q \in Slot, Respond(q) \/ Abort(q) PROVE LegacyTypeOK'
  <2>1. HandlersOK'
    BY <1>11, <1>h, IdleType DEF Respond, Abort
  <2> QED BY <1>11, <1>u, <2>1 DEF Respond, Abort
<1>12. ASSUME NEW q \in Slot, Abandon(q) PROVE LegacyTypeOK'
  <2>1. HandlersOK'
    BY <1>12, <1>h, IdleType DEF Abandon
  <2>2. orphaned' \in [Draft -> BOOLEAN]
    BY <1>12 DEF Abandon, LegacyTypeOK
  <2> QED BY <1>12, <2>1, <2>2 DEF Abandon, LegacyTypeOK, HandlersOK, rows
<1> QED BY <1>1, <1>2, <1>3, <1>4, <1>5, <1>6, <1>7, <1>8, <1>9, <1>10, <1>11, <1>12
        DEF Next, Handle, Simulate

(* A step changes nothing of the records but adds one or rewrites a code.  *)
LEMMA RecordsKept ==
    ASSUME LegacyTypeOK, ClaimsRecorded, [Next]_vars
    PROVE  \A k \in Scope : idem[k] # None =>
               idem'[k] # None /\ SameRecord(k)
<1>2. ASSUME NEW q \in Slot, CommitDryRun(q) \/ CommitDecision(q) \/ CommitClaim(q)
      PROVE  \A k \in Scope : idem[k] # None => idem'[k] = idem[k]
  <2>1. req[q].sub \in Submission /\ KeyFree(req[q].sub)
    BY <1>2 DEF CommitDryRun, CommitDecision, CommitClaim, LegacyTypeOK
  <2>2. \E d \in Draft, code \in Code : Remember(req[q].sub, code, d)
    <3>1. req[q].sub.op # "dry_run" => req[q].sub.target \in Draft
      BY <2>1, ScopeType
    <3>2. CASE CommitDryRun(q)
      BY <3>2 DEF CommitDryRun, Code
    <3>3. CASE CommitDecision(q)
      BY <3>1, <3>3 DEF CommitDecision, Code
    <3>4. CASE CommitClaim(q)
      BY <3>1, <3>4 DEF CommitClaim, Code
    <3> QED BY <1>2, <3>2, <3>3, <3>4
  <2> QED BY <2>1, <2>2, RememberKeeps
<1>3. ASSUME NEW q \in Slot, FinalizeSuccess(q) \/ FinalizeFailure(q)
      PROVE  \A k \in Scope : idem[k] # None => idem'[k] # None /\ SameRecord(k)
  <2>1. Finalizing(q) /\ \E code \in Code : RecordOutcome(req[q].sub, code)
    BY <1>3 DEF FinalizeSuccess, FinalizeFailure, Caught, Finalizing, Code
  <2>2. PICK code \in Code : RecordOutcome(req[q].sub, code)
    BY <2>1
  <2> DEFINE k == <<"simulate", req[q].sub.key>>
  <2>3. /\ idem[k] \in IdemRecord /\ idem'[k] = [idem[k] EXCEPT !.code = code]
        /\ \A j \in Scope \ {k} : idem'[j] = idem[j]
    BY <2>1, <2>2, RecordOutcomeKeeps
  <2>4. idem'[k] # None /\ SameRecord(k)
    BY <2>3, NoneAssumption DEF IdemRecord, SameRecord
  <2> QED BY <2>3, <2>4 DEF SameRecord
<1>4. ASSUME NEW q \in Slot,
             \/ Begin(q) \/ Read(q) \/ ReadExisting(q) \/ StaleDecision(q) \/ KeyTaken(q)
             \/ ClaimLost(q) \/ Call(q) \/ Respond(q) \/ Abort(q) \/ Abandon(q)
      PROVE  UNCHANGED idem
  <2>1. UNCHANGED rows
    BY <1>4 DEF Begin, Read, ReadExisting, StaleDecision, KeyTaken, ClaimLost, Call, Respond,
                Abort, Abandon
  <2> QED BY <2>1 DEF rows
<1>5. UNCHANGED vars => UNCHANGED idem
  BY DEF vars, rows
<1>6. ASSUME UNCHANGED idem PROVE \A k \in Scope : idem[k] # None => idem'[k] # None /\ SameRecord(k)
  BY <1>6 DEF SameRecord
<1>7. ASSUME \A k \in Scope : idem[k] # None => idem'[k] = idem[k]
      PROVE \A k \in Scope : idem[k] # None => idem'[k] # None /\ SameRecord(k)
  BY <1>7 DEF SameRecord
<1> QED BY <1>2, <1>3, <1>4, <1>5, <1>6, <1>7 DEF Next, Handle, Simulate

(* How a handler's own row changes when it answers, and when it moves on.  *)
LEMMA AnswerEffect ==
    ASSUME LegacyTypeOK, NEW q \in Slot, NEW reply, Answer(q, reply)
    PROVE  /\ req'[q].pc = "done" /\ req'[q].sub = req[q].sub /\ req'[q].reply = reply
           /\ \A z \in Slot \ {q} : req'[z] = req[z]
<1>1. req' = [req EXCEPT ![q] = [req[q] EXCEPT !.pc = "done", !.reply = reply]]
  BY DEF Answer, LegacyTypeOK
<1>2. req[q] \in ReqRow
  BY DEF LegacyTypeOK
<1> QED BY <1>1, <1>2 DEF LegacyTypeOK, ReqRow

LEMMA GotoEffect ==
    ASSUME LegacyTypeOK, NEW q \in Slot, NEW pc, Goto(q, pc)
    PROVE  /\ req'[q].pc = pc /\ req'[q].sub = req[q].sub /\ req'[q].seen = req[q].seen
           /\ \A z \in Slot \ {q} : req'[z] = req[z]
<1>1. req' = [req EXCEPT ![q] = [req[q] EXCEPT !.pc = pc]]
  BY DEF Goto, LegacyTypeOK
<1>2. req[q] \in ReqRow
  BY DEF LegacyTypeOK
<1> QED BY <1>1, <1>2 DEF LegacyTypeOK, ReqRow

(* How the handlers change in a step of one of them: the others stay, and  *)
(* only a claim and a call leave this one with a simulation to finish.     *)
LEMMA HandlerStep ==
    ASSUME LegacyTypeOK, NEW q \in Slot,
           Begin(q) \/ Handle(q) \/ Respond(q) \/ Abort(q) \/ Abandon(q)
    PROVE  /\ \A z \in Slot \ {q} : req'[z] = req[z]
           /\ CommitClaim(q) => req'[q].pc = "claimed" /\ req'[q].sub = req[q].sub
           /\ Call(q) => req'[q].pc \in {"returned", "raised"} /\ req'[q].sub = req[q].sub
           /\ ~CommitClaim(q) /\ ~Call(q) => ~Finalizing(q)'
           /\ req'[q].pc = "commit" /\ req'[q].sub.op # "dry_run" => Read(q) \/ ReadExisting(q)
           /\ req'[q].pc = "existing" => Read(q)
<1> USE DEF Finalizing
<1>1. CASE Begin(q)
  <2>1. PICK s \in Submission :
           req' = [req EXCEPT ![q] = [pc |-> IF Replay(s) # None THEN "done"
                                            ELSE IF s.op = "dry_run" THEN "commit"
                                            ELSE "read",
                                     sub |-> s, seen |-> 0, reply |-> Replay(s)]]
    BY <1>1 DEF Begin
  <2>2. /\ \A z \in Slot \ {q} : req'[z] = req[z]
        /\ req'[q].sub = s /\ req'[q].pc \in {"done", "commit", "read"}
        /\ req'[q].pc = "commit" => s.op = "dry_run"
    BY <2>1 DEF LegacyTypeOK
  <2>3. req[q].pc = "idle"
    BY <1>1 DEF Begin
  <2> QED BY <2>2, <2>3 DEF CommitClaim, Call
<1>2. CASE Read(q)
  <2>1. \/ Answer(q, ReadError(req[q].sub))
        \/ req' = [req EXCEPT ![q] = [req[q] EXCEPT
                    !.pc = IF req[q].sub.op = "simulate" THEN "existing" ELSE "commit",
                    !.seen = draft[req[q].sub.target].version]]
    BY <1>2 DEF Read, LegacyTypeOK
  <2>2. /\ \A z \in Slot \ {q} : req'[z] = req[z]
        /\ req'[q].pc \in {"done", "existing", "commit"}
    <3>1. CASE Answer(q, ReadError(req[q].sub))
      BY <3>1, AnswerEffect
    <3>2. ASSUME NEW pc \in {"existing", "commit"}, NEW n,
                 req' = [req EXCEPT ![q] = [req[q] EXCEPT !.pc = pc, !.seen = n]]
          PROVE  (\A z \in Slot \ {q} : req'[z] = req[z]) /\ req'[q].pc = pc
      <4>1. req[q] \in ReqRow
        BY DEF LegacyTypeOK
      <4> QED BY <3>2, <4>1 DEF LegacyTypeOK, ReqRow
    <3> QED BY <2>1, <3>1, <3>2
  <2> QED BY <1>2, <2>2 DEF Read, CommitClaim, Call
<1>3. CASE ReadExisting(q)
  <2>1. \/ Answer(q, ClaimConflict(req[q].sub.target))
        \/ Goto(q, "commit")
    BY <1>3 DEF ReadExisting
  <2>2. /\ \A z \in Slot \ {q} : req'[z] = req[z]
        /\ req'[q].pc \in {"done", "commit"}
    BY <2>1, AnswerEffect, GotoEffect
  <2> QED BY <1>3, <2>2 DEF ReadExisting, CommitClaim, Call
<1>4. CASE CommitClaim(q)
  <2>1. req[q].pc = "commit" /\ Goto(q, "claimed")
    BY <1>4 DEF CommitClaim
  <2> QED BY <1>4, <2>1, GotoEffect DEF Call
<1>5. CASE Call(q)
  <2>1. req[q].pc = "claimed" /\ (Goto(q, "returned") \/ Goto(q, "raised"))
    BY <1>5 DEF Call
  <2> QED BY <1>5, <2>1, GotoEffect DEF CommitClaim
<1>6. CASE Respond(q) \/ Abort(q) \/ Abandon(q)
  <2>1. req' = [req EXCEPT ![q] = Idle]
    BY <1>6 DEF Respond, Abort, Abandon
  <2>2. (\A z \in Slot \ {q} : req'[z] = req[z]) /\ req'[q].pc = "idle"
    BY <2>1 DEF LegacyTypeOK, Idle
  <2> QED BY <1>4, <1>5, <2>2
<1>7. CASE \E reply : Answer(q, reply)
  BY <1>4, <1>5, <1>7, AnswerEffect
<1>8. CASE \/ CommitDryRun(q) \/ CommitDecision(q) \/ StaleDecision(q) \/ KeyTaken(q)
           \/ ClaimLost(q) \/ FinalizeSuccess(q) \/ FinalizeFailure(q)
  <2>1. \E reply : Answer(q, reply)
    BY <1>8 DEF CommitDryRun, CommitDecision, StaleDecision, KeyTaken, ClaimLost,
                FinalizeSuccess, FinalizeFailure
  <2> QED BY <1>7, <2>1
<1> QED BY <1>1, <1>2, <1>3, <1>4, <1>5, <1>6, <1>8 DEF Handle, Simulate

(* What a handler that has claimed its simulation is doing stays on record. *)
LEMMA ClaimsRecordedStep ==
    LegacyTypeOK /\ ClaimsRecorded /\ [Next]_vars => ClaimsRecorded'
<1> SUFFICES ASSUME LegacyTypeOK, ClaimsRecorded, [Next]_vars,
                    NEW q \in Slot, Finalizing(q)'
             PROVE  LET s == req'[q].sub
                        rec == idem'[<<"simulate", s.key>>] IN
                    /\ rec # None /\ rec.actor = s.actor /\ rec.hash = HashOf(s)
                    /\ rec.resource = s.target
  BY DEF ClaimsRecorded
<1>1. CASE Finalizing(q) /\ req'[q].sub = req[q].sub
  <2>1. req[q].sub \in Submission /\ req[q].sub.op = "simulate"
    BY <1>1 DEF Finalizing, LegacyTypeOK
  <2>2. <<"simulate", req[q].sub.key>> \in Scope
    BY <2>1, ScopeType
  <2> QED BY <1>1, <2>2, RecordsKept DEF ClaimsRecorded, SameRecord
<1>2. CASE CommitClaim(q)
  <2> DEFINE s == req[q].sub
  <2>1. s \in Submission /\ s.op = "simulate" /\ KeyFree(s) /\ Remember(s, 202, s.target)
    BY <1>2 DEF CommitClaim, LegacyTypeOK
  <2>2. s.target \in Draft /\ req'[q].sub = s
    BY <1>2, <2>1, ScopeType, HandlerStep DEF Handle, Simulate
  <2>3. idem'[<<s.op, s.key>>] =
           [actor |-> s.actor, hash |-> HashOf(s), code |-> 202, resource |-> s.target]
    BY <2>1, <2>2, RememberKeeps DEF Code
  <2>4. [actor |-> s.actor, hash |-> HashOf(s), code |-> 202, resource |-> s.target] \in IdemRecord
    BY <2>1, <2>2, ScopeType DEF IdemRecord, Code
  <2> QED BY <2>1, <2>2, <2>3, <2>4, NoneAssumption
<1>3. ASSUME NEW p \in Slot, Begin(p) \/ Handle(p) \/ Respond(p) \/ Abort(p) \/ Abandon(p)
      PROVE  (Finalizing(q) /\ req'[q].sub = req[q].sub) \/ CommitClaim(q)
  <2>1. CASE p # q
    BY <1>3, <2>1, HandlerStep DEF Finalizing
  <2>2. CASE p = q
    BY <1>3, <2>2, HandlerStep DEF Call, Finalizing
  <2> QED BY <2>1, <2>2
<1>4. CASE UNCHANGED vars
  BY <1>1, <1>4 DEF vars, Finalizing
<1> QED BY <1>1, <1>2, <1>3, <1>4 DEF Next

(* The tables and the handlers of the v1 service keep their shape; this    *)
(* needs the record that each simulation in progress has.                  *)
LEMMA TypesAndClaims == Spec => [](LegacyTypeOK /\ ClaimsRecorded)
<1>1. Init => ClaimsRecorded
  BY DEF Init, ClaimsRecorded, Finalizing, Idle
<1> QED BY <1>1, InitType, TypeStep, ClaimsRecordedStep, PTL DEF Spec

(* The tables and the handlers of the v1 service keep their shape.         *)
THEOREM LegacyTypeCorrect == Spec => []LegacyTypeOK
BY TypesAndClaims, PTL

-------------------------------------------------------------------------------
(* What makes DraftAgreement inductive: a handler about to decide holds    *)
(* the version of an undecided draft or an old one, one about to claim has *)
(* seen its draft approved, and an undecided draft was rejected by no one. *)
Deciding(q) == req[q].pc = "commit" /\ req[q].sub.op \in {"approve", "reject"}
Claiming(q) == req[q].pc = "existing" \/ (req[q].pc = "commit" /\ req[q].sub.op = "simulate")
InFlight ==
    /\ \A d \in Draft :
          /\ draft[d].status = "absent" => draft[d].version = 0
          /\ draft[d].status \in {"absent", "proposed"} => draft[d].rejecter = None
          /\ sim[d].status = "none" => calls[d] = 0
    /\ \A q \in Slot :
          LET row == draft[req[q].sub.target] IN
          /\ Deciding(q) => /\ req[q].seen <= row.version
                            /\ req[q].seen = row.version => row.status = "proposed"
          /\ Claiming(q) => row.status \in {"approved", "simulated"}

(* A handler in flight names a draft.                                      *)
LEMMA InFlightTarget ==
    ASSUME LegacyTypeOK, NEW q \in Slot, Deciding(q) \/ Claiming(q) \/ Finalizing(q)
    PROVE  req[q].sub \in Submission /\ req[q].sub.target \in Draft
BY ScopeType DEF LegacyTypeOK, Deciding, Claiming, Finalizing

(* The row of a draft in a step: it is proposed, decided or simulated, or  *)
(* it stays as it is.                                                      *)
NewlyProposed(d) ==
    /\ draft[d].status = "absent"
    /\ draft'[d] = [draft[d] EXCEPT !.status = "proposed", !.version = 1]
NewlyDecided(d, q) ==
    /\ Deciding(q) /\ VersionHolds(q) /\ req[q].sub.target = d
    /\ draft'[d] = Decided(draft[d], req[q].sub)
NewlySimulated(d, q) ==
    /\ Owner(q, d) /\ req[q].pc = "returned"
    /\ draft'[d] = [draft[d] EXCEPT !.status = "simulated", !.version = draft[d].version + 1]
    /\ sim'[d] = [sim[d] EXCEPT !.status = "simulated"]

LEMMA DraftRows ==
    ASSUME LegacyTypeOK, [Next]_vars, NEW d \in Draft
    PROVE  \/ draft'[d] = draft[d]
           \/ NewlyProposed(d)
           \/ \E q \in Slot : NewlyDecided(d, q) \/ NewlySimulated(d, q)
<1>1. ASSUME NEW q \in Slot, CommitDryRun(q)
      PROVE  draft'[d] = draft[d] \/ NewlyProposed(d)
  BY <1>1, DryRunEffect DEF NewlyProposed
<1>2. ASSUME NEW q \in Slot, CommitDecision(q)
      PROVE  draft'[d] = draft[d] \/ NewlyDecided(d, q)
  <2>1. Deciding(q) /\ VersionHolds(q)
    BY <1>2 DEF CommitDecision, Deciding
  <2> QED BY <1>2, <2>1, DecisionEffect DEF NewlyDecided
<1>3. ASSUME NEW q \in Slot, FinalizeSuccess(q)
      PROVE  draft'[d] = draft[d] \/ NewlySimulated(d, q)
  <2>1. req[q].pc = "returned"
    BY <1>3 DEF FinalizeSuccess
  <2> QED BY <1>3, <2>1, FinalEffect DEF NewlySimulated
<1>4. ASSUME NEW q \in Slot, FinalizeFailure(q) PROVE draft'[d] = draft[d]
  BY <1>4 DEF FinalizeFailure
<1>5. ASSUME NEW q \in Slot,
             \/ Begin(q) \/ Read(q) \/ ReadExisting(q) \/ StaleDecision(q) \/ KeyTaken(q)
             \/ ClaimLost(q) \/ Call(q) \/ Respond(q) \/ Abort(q) \/ Abandon(q)
      PROVE  draft' = draft
  <2>1. UNCHANGED rows
    BY <1>5 DEF Begin, Read, ReadExisting, StaleDecision, KeyTaken, ClaimLost, Call, Respond,
                Abort, Abandon
  <2> QED BY <2>1 DEF rows
<1>6. ASSUME NEW q \in Slot, CommitClaim(q) PROVE draft' = draft
  BY <1>6 DEF CommitClaim
<1>7. CASE UNCHANGED vars
  BY <1>7 DEF vars, rows
<1> QED BY <1>1, <1>2, <1>3, <1>4, <1>5, <1>6, <1>7 DEF Next, Handle, Simulate

(* The row of a simulation in a step: claimed, called, given its outcome,  *)
(* left behind by its process, or as it was.                               *)
SameSim(d) == sim'[d] = sim[d] /\ calls'[d] = calls[d] /\ orphaned'[d] = orphaned[d]
NewlyClaimed(d, q) ==
    /\ Claiming(q) /\ SimFree(d) /\ req[q].sub.target = d
    /\ sim'[d] = [status |-> "simulating", key |-> req[q].sub.key, actor |-> req[q].sub.actor]
    /\ calls'[d] = calls[d] /\ orphaned'[d] = orphaned[d]
    /\ req'[q].pc = "claimed" /\ req'[q].sub = req[q].sub
NewlyCalled(d, q) ==
    /\ Owner(q, d) /\ req[q].pc = "claimed"
    /\ req'[q].pc \in {"returned", "raised"} /\ req'[q].sub = req[q].sub
    /\ sim'[d] = sim[d] /\ calls'[d] = calls[d] + 1 /\ orphaned'[d] = orphaned[d]
NewlySettled(d, q) ==
    /\ Owner(q, d) /\ req[q].pc # "claimed" /\ ~Finalizing(q)'
    /\ \/ NewlySimulated(d, q)
       \/ sim'[d] = [sim[d] EXCEPT !.status = "simulation_failed"] /\ draft'[d] = draft[d]
    /\ calls'[d] = calls[d] /\ orphaned'[d] = orphaned[d]
NewlyOrphaned(d, q) ==
    /\ Owner(q, d) /\ ~Finalizing(q)'
    /\ sim'[d] = sim[d] /\ calls'[d] = calls[d] /\ orphaned'[d] = TRUE

LEMMA SimRows ==
    ASSUME LegacyTypeOK, NEW q \in Slot, NEW d \in Draft,
           Begin(q) \/ Handle(q) \/ Respond(q) \/ Abort(q) \/ Abandon(q)
    PROVE  \/ SameSim(d) /\ ~Owner(q, d) /\ ~Owner(q, d)'
           \/ NewlyClaimed(d, q) \/ NewlyCalled(d, q) \/ NewlySettled(d, q) \/ NewlyOrphaned(d, q)
<1> USE DEF Finalizing, Owner
<1>h. /\ CommitClaim(q) => req'[q].pc = "claimed" /\ req'[q].sub = req[q].sub
      /\ Call(q) => req'[q].pc \in {"returned", "raised"} /\ req'[q].sub = req[q].sub
      /\ ~CommitClaim(q) /\ ~Call(q) => ~Finalizing(q)'
  BY HandlerStep
<1>1. CASE CommitClaim(q)
  <2> DEFINE s == req[q].sub
  <2>1. /\ Claiming(q) /\ SimFree(s.target) /\ req[q].pc = "commit"
        /\ sim' = [sim EXCEPT ![s.target] =
                      [status |-> "simulating", key |-> s.key, actor |-> s.actor]]
        /\ UNCHANGED <<calls, orphaned>>
    BY <1>1 DEF CommitClaim, Claiming, history
  <2>2. s.target \in Draft
    BY <2>1, InFlightTarget
  <2>3. CASE s.target = d
    BY <1>1, <1>h, <2>1, <2>2, <2>3 DEF NewlyClaimed, LegacyTypeOK
  <2>4. CASE s.target # d
    BY <1>1, <1>h, <2>1, <2>4 DEF SameSim, LegacyTypeOK
  <2> QED BY <2>3, <2>4
<1>2. CASE Call(q)
  <2>1. /\ req[q].pc = "claimed" /\ UNCHANGED <<sim, orphaned>>
        /\ calls' = [calls EXCEPT ![req[q].sub.target] = @ + 1]
    BY <1>2 DEF Call, rows
  <2>2. CASE req[q].sub.target = d
    BY <1>2, <1>h, <2>1, <2>2 DEF NewlyCalled, LegacyTypeOK
  <2>3. CASE req[q].sub.target # d
    BY <1>2, <1>h, <2>1, <2>3 DEF SameSim, LegacyTypeOK
  <2> QED BY <2>2, <2>3
<1>3. CASE FinalizeSuccess(q) \/ FinalizeFailure(q)
  <2>1. /\ UNCHANGED <<calls, orphaned>> /\ ~CommitClaim(q) /\ ~Call(q)
        /\ FinalizeSuccess(q) => req[q].pc = "returned"
    BY <1>3 DEF FinalizeSuccess, FinalizeFailure, Caught, history, CommitClaim, Call
  <2>2. CASE req[q].sub.target = d
    BY <1>3, <1>h, <2>1, <2>2, FinalEffect DEF NewlySettled, NewlySimulated
  <2>3. CASE req[q].sub.target # d
    <3>1. sim'[d] = sim[d]
      BY <1>3, <2>3, FinalEffect
    <3> QED BY <1>h, <2>1, <2>3, <3>1 DEF SameSim
  <2> QED BY <2>2, <2>3
<1>4. CASE Abandon(q)
  <2>1. /\ Finalizing(q) /\ UNCHANGED <<sim, calls>>
        /\ orphaned' = [orphaned EXCEPT ![req[q].sub.target] = TRUE]
        /\ req' = [req EXCEPT ![q] = Idle]
    BY <1>4 DEF Abandon, rows
  <2>2. ~Finalizing(q)'
    BY <2>1 DEF LegacyTypeOK, Idle
  <2>3. CASE req[q].sub.target = d
    BY <2>1, <2>2, <2>3 DEF NewlyOrphaned, LegacyTypeOK
  <2>4. CASE req[q].sub.target # d
    BY <2>1, <2>2, <2>4 DEF SameSim, LegacyTypeOK
  <2> QED BY <2>3, <2>4
<1>5. CASE \/ Begin(q) \/ Read(q) \/ ReadExisting(q) \/ StaleDecision(q) \/ KeyTaken(q)
           \/ ClaimLost(q) \/ Respond(q) \/ Abort(q) \/ CommitDryRun(q) \/ CommitDecision(q)
  <2>1. UNCHANGED <<sim, calls, orphaned>>
    BY <1>5 DEF Begin, Read, ReadExisting, StaleDecision, KeyTaken, ClaimLost, Respond, Abort,
                CommitDryRun, CommitDecision, rows, history
  <2>2. req[q].pc \notin {"claimed", "returned", "raised"}
    BY <1>5 DEF Begin, Read, ReadExisting, StaleDecision, KeyTaken, ClaimLost, Respond, Abort,
                CommitDryRun, CommitDecision
  <2>3. CASE CommitClaim(q)
    BY <1>1, <2>3
  <2>4. CASE ~CommitClaim(q)
    BY <1>h, <2>1, <2>2, <2>4 DEF Call, SameSim
  <2> QED BY <2>3, <2>4
<1> QED BY <1>1, <1>2, <1>3, <1>4, <1>5 DEF Handle, Simulate

(* What a handler reads of its draft before it decides or claims.          *)
LEMMA ReadEffect ==
    ASSUME LegacyTypeOK, NEW q \in Slot, Read(q), req'[q].pc # "done"
    PROVE  LET s == req[q].sub IN
           /\ s \in Submission /\ s.target \in Draft
           /\ req'[q].sub = s /\ req'[q].seen = draft[s.target].version
           /\ IF s.op = "simulate"
              THEN req'[q].pc = "existing" /\ draft[s.target].status = "approved"
              ELSE req'[q].pc = "commit" /\ draft[s.target].status = "proposed"
<1> DEFINE s == req[q].sub
<1>1. s \in Submission /\ s.target \in Draft /\ req[q] \in ReqRow
  BY DEF Read, LegacyTypeOK
<1>2. ReadError(s) = None
  BY AnswerEffect DEF Read
<1>3. draft[s.target].status = IF s.op = "simulate" THEN "approved" ELSE "proposed"
  <2>1. /\ Refused(404, "workflow_not_found") \in Reply
        /\ Refused(409, "approval_required") \in Reply
        /\ Refused(409, "invalid_state") \in Reply
    BY RefusedType DEF Detail
  <2>2. /\ Refused(404, "workflow_not_found") # None
        /\ Refused(409, "approval_required") # None
        /\ Refused(409, "invalid_state") # None
    BY <2>1, NoneAssumption
  <2>3. CASE draft[s.target].status = "absent"
    BY <1>2, <2>2, <2>3 DEF ReadError
  <2>4. CASE s.op = "simulate" /\ draft[s.target].status = "proposed"
    BY <1>2, <2>2, <2>4 DEF ReadError
  <2> QED BY <1>2, <2>2, <2>3, <2>4 DEF ReadError
<1>4. req' = [req EXCEPT ![q] = [req[q] EXCEPT
                !.pc = IF s.op = "simulate" THEN "existing" ELSE "commit",
                !.seen = draft[s.target].version]]
  BY <1>2 DEF Read, LegacyTypeOK
<1> QED BY <1>1, <1>3, <1>4 DEF LegacyTypeOK, ReqRow

(* What DraftAgreement and OneCallPerDraft say of one draft.               *)
Agree(d) ==
    /\ draft[d].status = "simulated" <=> sim[d].status = "simulated"
    /\ sim[d].status \in {"simulating", "simulation_failed"} => draft[d].status = "approved"
    /\ draft[d].status \in {"approved", "simulated"} => ApprovedDraft(d)
    /\ draft[d].status \in {"absent", "proposed"} => draft[d].approver = None
    /\ orphaned[d] => sim[d].status = "simulating"
    /\ sim[d].status = "simulating" /\ ~orphaned[d] => \E q \in Slot : Owner(q, d)
    /\ \A q \in Slot : Owner(q, d) =>
          /\ sim[d].status = "simulating" /\ ~orphaned[d]
          /\ sim[d].key = req[q].sub.key /\ sim[d].actor = req[q].sub.actor
    /\ \A q, p \in Slot : Owner(q, d) /\ Owner(p, d) => q = p
    /\ calls[d] <= 1
    /\ calls[d] = 1 => ApprovedDraft(d)
    /\ sim[d].status \in {"simulated", "simulation_failed"} => calls[d] = 1
    /\ \A q \in Slot : Owner(q, d) => calls[d] = IF req[q].pc = "claimed" THEN 0 ELSE 1

LEMMA AgreeIsAgreement ==
    (\A d \in Draft : Agree(d)) <=> DraftAgreement /\ OneCallPerDraft
BY DEF Agree, DraftAgreement, OneCallPerDraft

(* A draft only moves on: from absent, from proposed, or by the outcome of *)
(* its simulation, and each move gives it a new version.                   *)
LEMMA DraftProgress ==
    ASSUME LegacyTypeOK, InFlight, NEW d \in Draft, Agree(d), [Next]_vars
    PROVE  /\ \/ draft'[d] = draft[d]
              \/ NewlyProposed(d)
              \/ /\ draft[d].status = "proposed"
                 /\ \E q \in Slot : NewlyDecided(d, q)
              \/ \E q \in Slot : NewlySimulated(d, q)
           /\ draft'[d].version >= draft[d].version
           /\ draft'[d].version = draft[d].version => draft'[d] = draft[d]
           /\ draft[d].status \in {"approved", "simulated"} =>
                 draft'[d].status \in {"approved", "simulated"}
<1>1. draft[d] \in DraftRow /\ draft[d].version \in Nat
  BY DEF LegacyTypeOK, DraftRow
<1>2. CASE draft'[d] = draft[d]
  BY <1>1, <1>2
<1>3. CASE NewlyProposed(d)
  <2>1. draft'[d].version = 1 /\ draft[d].version = 0
    BY <1>1, <1>3 DEF NewlyProposed, DraftRow, InFlight
  <2> QED BY <1>3, <2>1 DEF NewlyProposed
<1>4. ASSUME NEW q \in Slot, NewlyDecided(d, q)
      PROVE  draft[d].status = "proposed" /\ draft'[d].version = draft[d].version + 1
  <2>1. draft[d].status = "proposed"
    BY <1>4 DEF NewlyDecided, VersionHolds, InFlight
  <2>2. draft'[d].version = draft[d].version + 1
    BY <1>1, <1>4 DEF NewlyDecided, Decided, DraftRow
  <2> QED BY <2>1, <2>2
<1>5. ASSUME NEW q \in Slot, NewlySimulated(d, q)
      PROVE  draft'[d].status = "simulated" /\ draft'[d].version = draft[d].version + 1
  BY <1>1, <1>5 DEF NewlySimulated, DraftRow
<1> QED BY <1>1, <1>2, <1>3, <1>4, <1>5, DraftRows

(* The knowledge of handlers in flight survives every step.                *)
LEMMA InFlightStep ==
    ASSUME LegacyTypeOK, LegacyTypeOK', InFlight, \A d \in Draft : Agree(d), [Next]_vars
    PROVE  InFlight'
<1>1. ASSUME NEW d \in Draft
      PROVE  /\ draft'[d].status = "absent" => draft'[d].version = 0
             /\ draft'[d].status \in {"absent", "proposed"} => draft'[d].rejecter = None
  <2>1. draft[d] \in DraftRow
    BY DEF LegacyTypeOK
  <2>2. CASE draft'[d] = draft[d]
    BY <2>2 DEF InFlight
  <2>3. CASE NewlyProposed(d)
    BY <2>1, <2>3 DEF NewlyProposed, DraftRow, InFlight
  <2>4. ASSUME NEW q \in Slot, NewlyDecided(d, q)
        PROVE  draft'[d].status \in {"approved", "rejected"}
    BY <2>1, <2>4 DEF NewlyDecided, Decided, DraftRow
  <2>5. ASSUME NEW q \in Slot, NewlySimulated(d, q) PROVE draft'[d].status = "simulated"
    BY <2>1, <2>5 DEF NewlySimulated, DraftRow
  <2> QED BY <2>2, <2>3, <2>4, <2>5, DraftProgress
<1>2. ASSUME NEW d \in Draft
      PROVE  sim'[d].status = "none" => calls'[d] = 0
  <2>1. sim[d] \in SimRow
    BY DEF LegacyTypeOK
  <2>2. CASE SameSim(d)
    BY <2>2 DEF SameSim, InFlight
  <2>3. ASSUME NEW q \in Slot, NewlyClaimed(d, q) PROVE sim'[d].status # "none"
    BY <2>3 DEF NewlyClaimed
  <2>4. ASSUME NEW q \in Slot, NewlyCalled(d, q) \/ NewlyOrphaned(d, q)
        PROVE  sim'[d].status # "none"
    BY <2>4 DEF NewlyCalled, NewlyOrphaned, Agree
  <2>5. ASSUME NEW q \in Slot, NewlySettled(d, q) PROVE sim'[d].status # "none"
    BY <2>1, <2>5 DEF NewlySettled, NewlySimulated, SimRow
  <2>6. CASE UNCHANGED vars
    BY <2>2, <2>6 DEF vars, rows, history, SameSim
  <2>7. CASE Next
    BY <2>2, <2>3, <2>4, <2>5, <2>7, SimRows DEF Next
  <2> QED BY <2>6, <2>7
<1>3. ASSUME NEW q \in Slot, req'[q] = req[q]
      PROVE  LET row == draft'[req'[q].sub.target] IN
             /\ Deciding(q)' => /\ req'[q].seen <= row.version
                                /\ req'[q].seen = row.version => row.status = "proposed"
             /\ Claiming(q)' => row.status \in {"approved", "simulated"}
  <2> DEFINE d == req[q].sub.target
  <2>1. Deciding(q)' = Deciding(q) /\ Claiming(q)' = Claiming(q)
    BY <1>3 DEF Deciding, Claiming
  <2>2. CASE Deciding(q)
    <3>1. d \in Draft
      BY <2>2, InFlightTarget
    <3>2. /\ req[q].seen <= draft[d].version
          /\ req[q].seen = draft[d].version => draft[d].status = "proposed"
      BY <2>2 DEF InFlight
    <3>3. req[q].seen \in Nat /\ draft[d].version \in Nat /\ draft'[d].version \in Nat
      BY <3>1 DEF LegacyTypeOK, ReqRow, DraftRow
    <3>4. /\ draft'[d].version >= draft[d].version
          /\ draft'[d].version = draft[d].version => draft'[d] = draft[d]
      BY <3>1, DraftProgress
    <3>5. ~Claiming(q)
      BY <2>2 DEF Deciding, Claiming
    <3> QED BY <1>3, <2>1, <3>2, <3>3, <3>4, <3>5
  <2>3. CASE Claiming(q)
    <3>1. d \in Draft /\ draft[d].status \in {"approved", "simulated"}
      BY <2>3, InFlightTarget DEF InFlight
    <3>2. draft'[d].status \in {"approved", "simulated"}
      BY <3>1, DraftProgress
    <3>3. ~Deciding(q)
      BY <2>3 DEF Deciding, Claiming
    <3> QED BY <1>3, <2>1, <3>2, <3>3
  <2> QED BY <2>1, <2>2, <2>3
<1>4. ASSUME NEW q \in Slot, Begin(q) \/ Handle(q) \/ Respond(q) \/ Abort(q) \/ Abandon(q)
      PROVE  LET row == draft'[req'[q].sub.target] IN
             /\ Deciding(q)' => /\ req'[q].seen <= row.version
                                /\ req'[q].seen = row.version => row.status = "proposed"
             /\ Claiming(q)' => row.status \in {"approved", "simulated"}
  <2>1. CASE Read(q) /\ req'[q].pc # "done"
    <3> DEFINE s == req[q].sub
    <3>1. draft' = draft
      BY <2>1 DEF Read, rows
    <3>2. /\ s \in Submission /\ s.target \in Draft
          /\ req'[q].sub = s /\ req'[q].seen = draft[s.target].version
          /\ IF s.op = "simulate"
             THEN req'[q].pc = "existing" /\ draft[s.target].status = "approved"
             ELSE req'[q].pc = "commit" /\ draft[s.target].status = "proposed"
      BY <2>1, ReadEffect
    <3>3. draft[s.target].version \in Nat
      BY <3>2 DEF LegacyTypeOK, DraftRow
    <3>4. CASE s.op = "simulate"
      BY <3>1, <3>2, <3>4 DEF Deciding, Claiming
    <3>5. CASE s.op # "simulate"
      BY <3>1, <3>2, <3>3, <3>5 DEF Deciding, Claiming
    <3> QED BY <3>4, <3>5
  <2>2. CASE ReadExisting(q)
    <3> DEFINE s == req[q].sub
    <3>1. draft' = draft /\ Claiming(q) /\ s.op = "simulate"
      BY <2>2 DEF ReadExisting, rows, Claiming, LegacyTypeOK
    <3>2. req'[q].sub = s
      BY <2>2, AnswerEffect, GotoEffect DEF ReadExisting
    <3> QED BY <3>1, <3>2 DEF Deciding, InFlight
  <2>3. CASE ~(Read(q) /\ req'[q].pc # "done") /\ ~ReadExisting(q)
    <3>1. req'[q].pc = "commit" => req'[q].sub.op = "dry_run"
      BY <1>4, <2>3, HandlerStep
    <3>2. req'[q].pc # "existing"
      BY <1>4, <2>3, HandlerStep
    <3> QED BY <3>1, <3>2 DEF Deciding, Claiming
  <2> QED BY <2>1, <2>2, <2>3
<1>5. ASSUME NEW q \in Slot, NEW p \in Slot,
             Begin(p) \/ Handle(p) \/ Respond(p) \/ Abort(p) \/ Abandon(p)
      PROVE  LET row == draft'[req'[q].sub.target] IN
             /\ Deciding(q)' => /\ req'[q].seen <= row.version
                                /\ req'[q].seen = row.version => row.status = "proposed"
             /\ Claiming(q)' => row.status \in {"approved", "simulated"}
  <2>1. CASE q = p
    BY <1>4, <1>5, <2>1
  <2>2. CASE q # p
    <3>1. req'[q] = req[q]
      BY <1>5, <2>2, HandlerStep
    <3> QED BY <1>3, <3>1
  <2> QED BY <2>1, <2>2
<1>6. CASE UNCHANGED vars
  <2>1. \A q \in Slot : req'[q] = req[q]
    BY <1>6 DEF vars
  <2> QED BY <1>1, <1>2, <1>3, <2>1 DEF InFlight
<1>7. CASE Next
  BY <1>1, <1>2, <1>5, <1>7 DEF Next, InFlight
<1> QED BY <1>6, <1>7

(* A simulation that exists keeps its draft as it is until it succeeds.    *)
LEMMA DraftHeld ==
    ASSUME LegacyTypeOK, InFlight, NEW d \in Draft, Agree(d), [Next]_vars,
           draft[d].status = "approved",
           \A q \in Slot : ~NewlySimulated(d, q)
    PROVE  draft'[d] = draft[d]
<1>1. ~NewlyProposed(d)
  BY DEF NewlyProposed
<1> QED BY <1>1, DraftProgress

(* An undecided draft has no simulation.                                   *)
LEMMA UndecidedIsIdle ==
    ASSUME LegacyTypeOK, InFlight, NEW d \in Draft, Agree(d),
           draft[d].status \in {"absent", "proposed"}
    PROVE  /\ sim[d].status = "none" /\ calls[d] = 0 /\ orphaned[d] = FALSE
           /\ draft[d].approver = None /\ draft[d].rejecter = None
           /\ \A q \in Slot : ~Owner(q, d)
<1>1. sim[d] \in SimRow /\ orphaned[d] \in BOOLEAN
  BY DEF LegacyTypeOK
<1>2. sim[d].status = "none"
  BY <1>1 DEF Agree, SimRow, SimStatus
<1> QED BY <1>1, <1>2 DEF Agree, InFlight

(* Every step keeps a draft and its simulation in agreement.               *)
LEMMA AgreeStep ==
    ASSUME LegacyTypeOK, LegacyTypeOK', InFlight, NEW d \in Draft, Agree(d), NEW q \in Slot,
           Begin(q) \/ Handle(q) \/ Respond(q) \/ Abort(q) \/ Abandon(q)
    PROVE  Agree(d)'
<1>n. [Next]_vars
  BY DEF Next
<1>t. /\ draft[d] \in DraftRow /\ sim[d] \in SimRow /\ calls[d] \in Nat /\ orphaned[d] \in BOOLEAN
      /\ draft'[d] \in DraftRow /\ sim'[d] \in SimRow /\ calls'[d] \in Nat
  BY DEF LegacyTypeOK
<1>o. \A z \in Slot \ {q} : req'[z] = req[z]
  BY HandlerStep
<1>1. CASE SameSim(d) /\ ~Owner(q, d) /\ ~Owner(q, d)'
  <2>1. \A z \in Slot : /\ Owner(z, d)' <=> Owner(z, d)
                        /\ Owner(z, d) => req'[z] = req[z]
    BY <1>1, <1>o DEF Owner
  <2>2. CASE draft'[d] = draft[d]
    <3>1. sim'[d] = sim[d] /\ calls'[d] = calls[d] /\ orphaned'[d] = orphaned[d]
      BY <1>1 DEF SameSim
    <3>2. ApprovedDraft(d)' = ApprovedDraft(d)
      BY <2>2 DEF ApprovedDraft
    <3>3. \A z \in Slot : Owner(z, d)' => /\ sim'[d].key = req'[z].sub.key
                                          /\ sim'[d].actor = req'[z].sub.actor
                                          /\ calls'[d] = IF req'[z].pc = "claimed" THEN 0 ELSE 1
      BY <2>1, <3>1 DEF Agree
    <3> QED BY <2>1, <2>2, <3>1, <3>2, <3>3 DEF Agree
  <2>3. CASE draft[d].status \in {"absent", "proposed"} /\
             (NewlyProposed(d) \/ \E z \in Slot : NewlyDecided(d, z))
    <3>1. /\ sim'[d].status = "none" /\ calls'[d] = 0 /\ orphaned'[d] = FALSE
          /\ \A z \in Slot : ~Owner(z, d)'
          /\ draft[d].approver = None /\ draft[d].rejecter = None
      BY <1>1, <2>1, <2>3, UndecidedIsIdle DEF SameSim
    <3>2. CASE NewlyProposed(d)
      <4>1. draft'[d].status = "proposed" /\ draft'[d].approver = None
        BY <1>t, <3>1, <3>2 DEF NewlyProposed, DraftRow
      <4> QED BY <3>1, <4>1 DEF Agree
    <3>3. ASSUME NEW z \in Slot, NewlyDecided(d, z) PROVE Agree(d)'
      <4>1. req[z].sub \in Submission
        BY <3>3, InFlightTarget DEF NewlyDecided
      <4>2. req[z].sub.actor # None
        BY <4>1, ScopeType, NoneAssumption
      <4>3. \/ draft'[d].status = "rejected"
            \/ draft'[d].status = "approved" /\ ApprovedDraft(d)'
        BY <1>t, <3>1, <3>3, <4>2 DEF NewlyDecided, Decided, DraftRow, ApprovedDraft
      <4> QED BY <3>1, <4>3 DEF Agree
    <3> QED BY <2>3, <3>2, <3>3
  <2>4. ASSUME NEW z \in Slot, NewlySimulated(d, z) PROVE FALSE
    <3>1. sim[d].status = "simulating" /\ sim'[d].status = "simulated"
      BY <1>t, <2>4 DEF NewlySimulated, Agree, SimRow
    <3> QED BY <1>1, <3>1 DEF SameSim
  <2>5. NewlyProposed(d) => draft[d].status = "absent"
    BY DEF NewlyProposed
  <2> QED BY <1>n, <2>2, <2>3, <2>4, <2>5, DraftProgress
<1>2. CASE NewlyClaimed(d, q)
  <2>1. sim[d].status = "none" /\ calls[d] = 0 /\ orphaned[d] = FALSE
    BY <1>2, <1>t DEF NewlyClaimed, SimFree, InFlight, Agree
  <2>2. draft[d].status = "approved" /\ ApprovedDraft(d)
    BY <1>2, <2>1 DEF NewlyClaimed, InFlight, Agree
  <2>3. \A z \in Slot : ~Owner(z, d)
    BY <2>1 DEF Agree
  <2>4. draft'[d] = draft[d]
    <3>1. \A z \in Slot : ~NewlySimulated(d, z)
      BY <2>3 DEF NewlySimulated
    <3> QED BY <1>n, <2>2, <3>1, DraftHeld
  <2>5. /\ sim'[d].status = "simulating" /\ sim'[d].key = req'[q].sub.key
        /\ sim'[d].actor = req'[q].sub.actor /\ calls'[d] = 0 /\ orphaned'[d] = FALSE
        /\ req'[q].pc = "claimed" /\ Owner(q, d)'
    BY <1>2, <2>1 DEF NewlyClaimed, Owner
  <2>6. \A z \in Slot : Owner(z, d)' => z = q
    BY <1>o, <2>3 DEF Owner
  <2>7. draft'[d].status = "approved" /\ ApprovedDraft(d)'
    BY <2>2, <2>4 DEF ApprovedDraft
  <2> QED BY <2>5, <2>6, <2>7 DEF Agree
<1>3. CASE NewlyCalled(d, q)
  <2>1. /\ Owner(q, d) /\ req[q].pc = "claimed" /\ sim[d].status = "simulating" /\ ~orphaned[d]
        /\ sim[d].key = req[q].sub.key /\ sim[d].actor = req[q].sub.actor /\ calls[d] = 0
        /\ draft[d].status = "approved" /\ ApprovedDraft(d)
    BY <1>3 DEF NewlyCalled, Agree
  <2>2. draft'[d] = draft[d]
    <3>1. ASSUME NEW z \in Slot, NewlySimulated(d, z) PROVE FALSE
      BY <1>3, <1>t, <2>1, <3>1 DEF NewlySimulated, NewlyCalled, SimRow
    <3> QED BY <1>n, <2>1, <3>1, DraftHeld
  <2>3. /\ sim'[d] = sim[d] /\ calls'[d] = 1 /\ orphaned'[d] = orphaned[d]
        /\ req'[q].pc # "claimed" /\ req'[q].sub = req[q].sub /\ Owner(q, d)'
    BY <1>3, <2>1 DEF NewlyCalled, Owner
  <2>4. \A z \in Slot : Owner(z, d)' => z = q
    BY <1>o, <2>1 DEF Owner, Agree
  <2>5. draft'[d].status = "approved" /\ ApprovedDraft(d)'
    BY <2>1, <2>2 DEF ApprovedDraft
  <2> QED BY <2>1, <2>3, <2>4, <2>5 DEF Agree
<1>4. CASE NewlySettled(d, q)
  <2>1. /\ Owner(q, d) /\ sim[d].status = "simulating" /\ ~orphaned[d] /\ calls[d] = 1
        /\ draft[d].status = "approved" /\ ApprovedDraft(d)
    BY <1>4 DEF NewlySettled, Agree
  <2>2. \A z \in Slot : ~Owner(z, d)'
    <3>1. ~Owner(q, d)'
      BY <1>4 DEF NewlySettled, Owner, Finalizing
    <3>2. ASSUME NEW z \in Slot, z # q PROVE ~Owner(z, d)'
      BY <1>o, <2>1, <3>2 DEF Owner, Agree
    <3> QED BY <3>1, <3>2
  <2>3. calls'[d] = 1 /\ ~orphaned'[d]
    BY <1>4, <2>1 DEF NewlySettled
  <2>4. ApprovedDraft(d)' /\ \/ draft'[d].status = "simulated" /\ sim'[d].status = "simulated"
                             \/ draft'[d].status = "approved" /\ sim'[d].status = "simulation_failed"
    <3>1. CASE NewlySimulated(d, q)
      BY <1>t, <2>1, <3>1 DEF NewlySimulated, DraftRow, SimRow, ApprovedDraft
    <3>2. CASE /\ sim'[d] = [sim[d] EXCEPT !.status = "simulation_failed"]
               /\ draft'[d] = draft[d]
      BY <1>t, <2>1, <3>2 DEF SimRow, ApprovedDraft
    <3> QED BY <1>4, <3>1, <3>2 DEF NewlySettled
  <2> QED BY <2>2, <2>3, <2>4 DEF Agree
<1>5. CASE NewlyOrphaned(d, q)
  <2>1. /\ Owner(q, d) /\ sim[d].status = "simulating"
        /\ draft[d].status = "approved" /\ ApprovedDraft(d)
    BY <1>5 DEF NewlyOrphaned, Agree
  <2>2. \A z \in Slot : ~Owner(z, d)'
    <3>1. ~Owner(q, d)'
      BY <1>5 DEF NewlyOrphaned, Owner, Finalizing
    <3>2. ASSUME NEW z \in Slot, z # q PROVE ~Owner(z, d)'
      BY <1>o, <2>1, <3>2 DEF Owner, Agree
    <3> QED BY <3>1, <3>2
  <2>3. draft'[d] = draft[d]
    <3>1. ASSUME NEW z \in Slot, NewlySimulated(d, z) PROVE FALSE
      BY <1>5, <1>t, <2>1, <3>1 DEF NewlySimulated, NewlyOrphaned, SimRow
    <3> QED BY <1>n, <2>1, <3>1, DraftHeld
  <2>4. sim'[d] = sim[d] /\ calls'[d] = calls[d] /\ orphaned'[d]
    BY <1>5 DEF NewlyOrphaned
  <2>5. draft'[d].status = "approved" /\ ApprovedDraft(d)'
    BY <2>1, <2>3 DEF ApprovedDraft
  <2> QED BY <2>1, <2>2, <2>4, <2>5 DEF Agree
<1> QED BY <1>1, <1>2, <1>3, <1>4, <1>5, SimRows

(* The inductive invariant of the v1 service.                              *)
LegacyInv == LegacyTypeOK /\ InFlight /\ \A d \in Draft : Agree(d)

LEMMA LegacyInvariant == Spec => []LegacyInv
<1>1. Init => InFlight /\ \A d \in Draft : Agree(d)
  BY DEF Init, InFlight, Agree, NoDraft, NoSim, Idle, Owner, Deciding, Claiming
<1>2. ASSUME LegacyInv, LegacyTypeOK', [Next]_vars PROVE LegacyInv'
  <2>1. InFlight'
    BY <1>2, InFlightStep DEF LegacyInv
  <2>2. CASE Next
    BY <1>2, <2>1, <2>2, AgreeStep DEF LegacyInv, Next
  <2>3. CASE UNCHANGED vars
    <3>1. ASSUME NEW d \in Draft PROVE Agree(d)' = Agree(d)
      BY <2>3 DEF vars, rows, history, Agree, ApprovedDraft, Owner
    <3> QED BY <1>2, <2>1, <3>1 DEF LegacyInv
  <2> QED BY <1>2, <2>2, <2>3
<1>3. LegacyTypeOK /\ (InFlight /\ \A d \in Draft : Agree(d)) => LegacyInv
  BY DEF LegacyInv
<1>4. Init => LegacyTypeOK
  BY InitType
<1> QED BY <1>1, <1>2, <1>3, <1>4, LegacyTypeCorrect, PTL DEF Spec

(* A draft and its simulation tell one story, and a simulation in progress *)
(* belongs to exactly one living handler or to a dead one.                 *)
THEOREM DraftsAgree == Spec => []DraftAgreement
<1>1. LegacyInv => DraftAgreement
  BY AgreeIsAgreement DEF LegacyInv
<1> QED BY <1>1, LegacyInvariant, PTL

(* The connector is called at most once for a draft, and only for an       *)
(* approved one, however many handlers, keys and requests race for it.     *)
THEOREM CalledOnce == Spec => []OneCallPerDraft
<1>1. LegacyInv => OneCallPerDraft
  BY AgreeIsAgreement DEF LegacyInv
<1> QED BY <1>1, LegacyInvariant, PTL

-------------------------------------------------------------------------------
(* A step touches the rows of one draft.                                   *)
Untouched(d) == draft'[d] = draft[d] /\ sim'[d] = sim[d] /\ calls'[d] = calls[d]

LEMMA OneDraftAtATime ==
    ASSUME LegacyTypeOK, NEW q \in Slot,
           Begin(q) \/ Handle(q) \/ Respond(q) \/ Abort(q) \/ Abandon(q)
    PROVE  \/ \A d \in Draft : Untouched(d)
           \/ \E e \in Draft : \A d \in Draft \ {e} : Untouched(d)
<1>1. CASE CommitDryRun(q)
  <2>1. UNCHANGED <<sim, calls>>
    BY <1>1 DEF CommitDryRun, history
  <2>2. PICK e \in Draft : \A d \in Draft \ {e} : draft'[d] = draft[d]
    BY <1>1, DryRunEffect
  <2> QED BY <2>1, <2>2 DEF Untouched
<1>2. CASE CommitDecision(q)
  <2>1. UNCHANGED <<sim, calls>>
    BY <1>2 DEF CommitDecision, history
  <2> QED BY <1>2, <2>1, DecisionEffect DEF Untouched
<1>3. CASE CommitClaim(q)
  <2> DEFINE e == req[q].sub.target
  <2>1. /\ UNCHANGED <<draft, calls>> /\ Claiming(q)
        /\ sim' = [sim EXCEPT ![e] =
              [status |-> "simulating", key |-> req[q].sub.key, actor |-> req[q].sub.actor]]
    BY <1>3 DEF CommitClaim, history, Claiming
  <2>2. e \in Draft
    BY <2>1, InFlightTarget
  <2>3. \A d \in Draft \ {e} : sim'[d] = sim[d]
    BY <2>1, <2>2 DEF LegacyTypeOK
  <2> QED BY <2>1, <2>2, <2>3 DEF Untouched
<1>4. CASE Call(q)
  <2> DEFINE e == req[q].sub.target
  <2>1. /\ UNCHANGED <<draft, sim>> /\ Finalizing(q)
        /\ calls' = [calls EXCEPT ![e] = @ + 1]
    BY <1>4 DEF Call, rows, Finalizing
  <2>2. e \in Draft
    BY <2>1, InFlightTarget
  <2>3. \A d \in Draft \ {e} : calls'[d] = calls[d]
    BY <2>1, <2>2 DEF LegacyTypeOK
  <2> QED BY <2>1, <2>2, <2>3 DEF Untouched
<1>5. CASE FinalizeSuccess(q) \/ FinalizeFailure(q)
  <2>1. UNCHANGED calls
    BY <1>5 DEF FinalizeSuccess, FinalizeFailure, history
  <2> QED BY <1>5, <2>1, FinalEffect DEF Untouched
<1>6. CASE \/ Begin(q) \/ Read(q) \/ ReadExisting(q) \/ StaleDecision(q) \/ KeyTaken(q)
           \/ ClaimLost(q) \/ Respond(q) \/ Abort(q) \/ Abandon(q)
  <2>1. UNCHANGED <<draft, sim, calls>>
    BY <1>6 DEF Begin, Read, ReadExisting, StaleDecision, KeyTaken, ClaimLost, Respond, Abort,
                Abandon, rows, history
  <2> QED BY <2>1 DEF Untouched
<1> QED BY <1>1, <1>2, <1>3, <1>4, <1>5, <1>6 DEF Handle, Simulate

(* How the stage of a draft moves in a step that touches it.               *)
LEMMA StageMoves ==
    ASSUME LegacyInv, LegacyTypeOK', NEW e \in Draft, NEW q \in Slot,
           Begin(q) \/ Handle(q) \/ Respond(q) \/ Abort(q) \/ Abandon(q)
    PROVE  \/ Stage(e)' = Stage(e) /\ (calls'[e] > 0) = (calls[e] > 0)
           \/ /\ Stage(e) = "execution_pending" /\ Stage(e)' = Stage(e) /\ calls'[e] > 0
           \/ /\ (calls'[e] > 0) = (calls[e] > 0)
              /\ \/ Stage(e) = "absent" /\ Stage(e)' = "proposed"
                 \/ Stage(e) = "proposed" /\ Stage(e)' \in {"approved", "rejected"}
                 \/ Stage(e) = "approved" /\ Stage(e)' = "execution_pending"
                 \/ /\ Stage(e) = "execution_pending" /\ calls[e] > 0
                    /\ Stage(e)' \in {"executed", "failed"}
<1>n. [Next]_vars /\ LegacyTypeOK /\ InFlight /\ Agree(e)
  BY DEF Next, LegacyInv
<1>t. /\ draft[e] \in DraftRow /\ sim[e] \in SimRow /\ calls[e] \in Nat
      /\ draft'[e] \in DraftRow /\ sim'[e] \in SimRow /\ calls'[e] \in Nat
  BY <1>n DEF LegacyTypeOK
<1>1. CASE SameSim(e)
  <2>1. (calls'[e] > 0) = (calls[e] > 0) /\ sim'[e] = sim[e]
    BY <1>1 DEF SameSim
  <2>2. CASE draft'[e] = draft[e]
    BY <2>1, <2>2 DEF Stage
  <2>3. CASE NewlyProposed(e)
    <3>1. sim[e].status = "none"
      BY <1>n, <2>3, UndecidedIsIdle DEF NewlyProposed
    <3>2. draft'[e].status = "proposed" /\ draft[e].status = "absent"
      BY <1>t, <2>3 DEF NewlyProposed, DraftRow
    <3>3. Stage(e) = "absent" /\ Stage(e)' = "proposed"
      BY <2>1, <3>1, <3>2 DEF Stage
    <3> QED BY <2>1, <3>3
  <2>4. ASSUME NEW z \in Slot, NewlyDecided(e, z), draft[e].status = "proposed"
        PROVE  Stage(e) = "proposed" /\ Stage(e)' \in {"approved", "rejected"}
    <3>1. sim[e].status = "none"
      BY <1>n, <2>4, UndecidedIsIdle
    <3>2. draft'[e].status \in {"approved", "rejected"}
      BY <1>t, <2>4 DEF NewlyDecided, Decided, DraftRow
    <3> QED BY <2>1, <2>4, <3>1, <3>2 DEF Stage
  <2>5. ASSUME NEW z \in Slot, NewlySimulated(e, z) PROVE FALSE
    <3>1. sim[e].status = "simulating" /\ sim'[e].status = "simulated"
      BY <1>n, <1>t, <2>5 DEF NewlySimulated, Agree, SimRow
    <3> QED BY <2>1, <3>1
  <2> QED BY <1>n, <2>1, <2>2, <2>3, <2>4, <2>5, DraftProgress
<1>2. CASE NewlyClaimed(e, q)
  <2>1. sim[e].status = "none" /\ draft[e].status = "approved"
    BY <1>n, <1>2, <1>t DEF NewlyClaimed, SimFree, InFlight, Agree
  <2>2. Stage(e) = "approved" /\ Stage(e)' = "execution_pending" /\ calls'[e] = calls[e]
    BY <1>2, <2>1 DEF NewlyClaimed, Stage
  <2> QED BY <2>2
<1>3. CASE NewlyCalled(e, q)
  <2>1. sim[e].status = "simulating" /\ sim'[e] = sim[e] /\ calls'[e] = calls[e] + 1
    BY <1>n, <1>3 DEF NewlyCalled, Agree
  <2>2. Stage(e) = "execution_pending" /\ Stage(e)' = "execution_pending"
    BY <2>1 DEF Stage
  <2>3. calls'[e] > 0
    BY <1>t, <2>1
  <2> QED BY <2>2, <2>3
<1>4. CASE NewlySettled(e, q)
  <2>1. sim[e].status = "simulating" /\ calls[e] = 1 /\ calls'[e] = calls[e]
    BY <1>n, <1>4 DEF NewlySettled, Agree
  <2>2. sim'[e].status \in {"simulated", "simulation_failed"}
    BY <1>4, <1>t DEF NewlySettled, NewlySimulated, SimRow
  <2>3. Stage(e) = "execution_pending" /\ Stage(e)' \in {"executed", "failed"}
    BY <2>1, <2>2 DEF Stage
  <2> QED BY <2>1, <2>3
<1>5. CASE NewlyOrphaned(e, q)
  <2>1. sim[e].status = "simulating" /\ sim'[e] = sim[e] /\ calls'[e] = calls[e]
    BY <1>n, <1>5 DEF NewlyOrphaned, Agree
  <2> QED BY <2>1 DEF Stage
<1> QED BY <1>n, <1>1, <1>2, <1>3, <1>4, <1>5, SimRows

(* Every step of the v1 service is a step of a governed run or none.       *)
LEMMA GovernedStep ==
    ASSUME LegacyInv, LegacyTypeOK', [Next]_vars
    PROVE  [Governed!Next]_<<[d \in Draft |-> Stage(d)], [d \in Draft |-> calls[d] > 0]>>
<1> DEFINE stage == [d \in Draft |-> Stage(d)]
           touched == [d \in Draft |-> calls[d] > 0]
<1>1. CASE UNCHANGED vars
  BY <1>1 DEF vars, rows, history, Stage
<1>2. ASSUME NEW q \in Slot, Begin(q) \/ Handle(q) \/ Respond(q) \/ Abort(q) \/ Abandon(q)
      PROVE  Governed!Next \/ UNCHANGED <<stage, touched>>
  <2>t. LegacyTypeOK
    BY DEF LegacyInv
  <2>u. ASSUME NEW d \in Draft, Untouched(d)
        PROVE  stage'[d] = stage[d] /\ touched'[d] = touched[d]
    BY <2>u DEF Untouched, Stage
  <2>1. CASE \A d \in Draft : Untouched(d)
    BY <2>1, <2>u
  <2>2. ASSUME NEW e \in Draft, \A d \in Draft \ {e} : Untouched(d)
        PROVE  Governed!Next \/ UNCHANGED <<stage, touched>>
    <3>1. stage[e] = Stage(e) /\ stage'[e] = Stage(e)' /\ touched[e] = (calls[e] > 0)
          /\ touched'[e] = (calls'[e] > 0)
      OBVIOUS
    <3>2. stage' = [stage EXCEPT ![e] = Stage(e)']
      <4>1. \A d \in Draft : stage'[d] = [stage EXCEPT ![e] = Stage(e)'][d]
        BY <2>2, <2>u
      <4> QED BY <4>1
    <3>3. touched' = [touched EXCEPT ![e] = calls'[e] > 0]
      <4>1. \A d \in Draft : touched'[d] = [touched EXCEPT ![e] = calls'[e] > 0][d]
        BY <2>2, <2>u
      <4> QED BY <4>1
    <3>s. (calls'[e] > 0) = (calls[e] > 0) => touched' = touched
      BY <3>3
    <3> HIDE DEF stage, touched
    <3>4. CASE Stage(e)' = Stage(e) /\ (calls'[e] > 0) = (calls[e] > 0)
      <4>1. stage' = stage
        BY <3>1, <3>2, <3>4 DEF stage
      <4> QED BY <3>4, <3>s, <4>1
    <3>5. CASE Stage(e) = "execution_pending" /\ Stage(e)' = Stage(e) /\ calls'[e] > 0
      <4>1. stage' = stage
        BY <3>1, <3>2, <3>5 DEF stage
      <4>2. touched' = [touched EXCEPT ![e] = TRUE]
        BY <3>3, <3>5
      <4> QED BY <3>1, <3>5, <4>1, <4>2 DEF Governed!Next, Governed!Touch, stage, touched
    <3>6. CASE (calls'[e] > 0) = (calls[e] > 0) /\ Stage(e) = "absent" /\ Stage(e)' = "proposed"
      BY <3>1, <3>2, <3>s, <3>6 DEF Governed!Next, Governed!Propose, Governed!Move, stage, touched
    <3>7. CASE /\ (calls'[e] > 0) = (calls[e] > 0) /\ Stage(e) = "proposed"
               /\ Stage(e)' \in {"approved", "rejected"}
      BY <3>1, <3>2, <3>s, <3>7 DEF Governed!Next, Governed!Decide, Governed!Move, stage, touched
    <3>8. CASE /\ (calls'[e] > 0) = (calls[e] > 0) /\ Stage(e) = "approved"
               /\ Stage(e)' = "execution_pending"
      BY <3>1, <3>2, <3>s, <3>8 DEF Governed!Next, Governed!Request, Governed!Move, stage, touched
    <3>9. CASE /\ (calls'[e] > 0) = (calls[e] > 0) /\ calls[e] > 0
               /\ Stage(e) = "execution_pending" /\ Stage(e)' \in {"executed", "failed"}
      BY <3>1, <3>2, <3>s, <3>9
         DEF Governed!Next, Governed!Settle, Governed!Move, Governed!Outcomes, stage, touched
    <3> QED BY <1>2, <3>4, <3>5, <3>6, <3>7, <3>8, <3>9, StageMoves
  <2> QED BY <1>2, <2>t, <2>1, <2>2, OneDraftAtATime
<1>3. Next => \E q \in Slot : Begin(q) \/ Handle(q) \/ Respond(q) \/ Abort(q) \/ Abandon(q)
  BY DEF Next
<1> QED BY <1>1, <1>2, <1>3

(* The v1 service implements the life of a governed run: proposed once,    *)
(* decided once, called only while its execution is pending, settled once. *)
THEOREM LegacyRefinesGovernedRun == Spec => ImplementsGovernedRun
<1>1. Init => Governed!Init
  <2> SUFFICES ASSUME Init PROVE Governed!Init
    OBVIOUS
  <2>1. \A d \in Draft : /\ sim[d].status = "none" /\ draft[d].status = "absent"
                        /\ (calls[d] > 0) = FALSE
    BY DEF Init, NoDraft, NoSim
  <2>2. \A d \in Draft : Stage(d) = "absent"
    BY <2>1 DEF Stage
  <2> QED BY <2>1, <2>2 DEF Governed!Init
<1>2. LegacyInv /\ LegacyTypeOK' /\ [Next]_vars
        => [Governed!Next]_<<[d \in Draft |-> Stage(d)], [d \in Draft |-> calls[d] > 0]>>
  BY GovernedStep
<1> QED BY <1>1, <1>2, LegacyInvariant, LegacyTypeCorrect, PTL
        DEF Spec, ImplementsGovernedRun, Governed!Spec

-------------------------------------------------------------------------------
(* A step as the tables see it: it writes one new record under a free key, *)
(* or the code of one record, and moves one draft, whose trail it extends. *)
NewRecord(s, code, d) ==
    /\ KeyFree(s)
    /\ idem'[<<s.op, s.key>>] =
          [actor |-> s.actor, hash |-> HashOf(s), code |-> code, resource |-> d]
    /\ \A k \in Scope \ {<<s.op, s.key>>} : idem'[k] = idem[k]
NewCode(k, code) ==
    /\ k \in Scope /\ idem[k] \in IdemRecord /\ idem'[k] = [idem[k] EXCEPT !.code = code]
    /\ \A j \in Scope \ {k} : idem'[j] = idem[j]
Appends(d, type, actor) ==
    /\ type \in EventType /\ actor \in Actor
    /\ audit'[d] = Append(audit[d], [type |-> type, actor |-> actor])
OthersStay(d) ==
    \A e \in Draft \ {d} : draft'[e] = draft[e] /\ sim'[e] = sim[e] /\ audit'[e] = audit[e]

Proposes(s, d) ==
    /\ s.op = "dry_run" /\ NewRecord(s, 201, d) /\ Appends(d, "draft_proposed", s.actor)
    /\ draft[d].status = "absent" /\ draft'[d].status = "proposed"
    /\ draft'[d].approver = draft[d].approver /\ draft'[d].rejecter = draft[d].rejecter
    /\ sim'[d] = sim[d]
Approves(s, d) ==
    /\ s.op = "approve" /\ NewRecord(s, 200, d) /\ Appends(d, "proposal_approved", s.actor)
    /\ draft[d].status = "proposed" /\ draft'[d].status = "approved"
    /\ draft'[d].approver = s.actor /\ draft'[d].rejecter = draft[d].rejecter
    /\ sim'[d] = sim[d]
Rejects(s, d) ==
    /\ s.op = "reject" /\ NewRecord(s, 200, d) /\ Appends(d, "proposal_rejected", s.actor)
    /\ draft[d].status = "proposed" /\ draft'[d].status = "rejected"
    /\ draft'[d].approver = draft[d].approver /\ draft'[d].rejecter = s.actor
    /\ sim'[d] = sim[d]
Claims(s, d) ==
    /\ s.op = "simulate" /\ NewRecord(s, 202, d) /\ Appends(d, "simulation_started", s.actor)
    /\ draft[d].status = "approved" /\ draft'[d] = draft[d] /\ sim[d].status = "none"
    /\ sim'[d] = [status |-> "simulating", key |-> s.key, actor |-> s.actor]

(* The two outcomes of a simulation: what the draft, the trail and the     *)
(* record of the claim become.                                             *)
SettledDraft(status) == IF status = "simulated" THEN "simulated" ELSE "approved"
SettledEvent(status) ==
    IF status = "simulated" THEN "simulation_completed" ELSE "simulation_failed"
SettledCode(status) == IF status = "simulated" THEN 200 ELSE 502
Settles(s, d, status) ==
    /\ s.op = "simulate" /\ NewCode(<<"simulate", s.key>>, SettledCode(status))
    /\ idem[<<"simulate", s.key>>].resource = d
    /\ Appends(d, SettledEvent(status), s.actor)
    /\ draft[d].status = "approved" /\ draft'[d].status = SettledDraft(status)
    /\ draft'[d].approver = draft[d].approver /\ draft'[d].rejecter = draft[d].rejecter
    /\ sim[d].status = "simulating" /\ sim'[d].status = status
    /\ sim'[d].key = sim[d].key /\ sim'[d].actor = sim[d].actor
    /\ sim[d].key = s.key

Moves(s, d) ==
    /\ OthersStay(d)
    /\ \/ Proposes(s, d) \/ Approves(s, d) \/ Rejects(s, d) \/ Claims(s, d)
       \/ \E status \in {"simulated", "simulation_failed"} : Settles(s, d, status)
TableStep == UNCHANGED rows \/ \E s \in Submission, d \in Draft : Moves(s, d)

LEMMA RememberAdds ==
    ASSUME LegacyTypeOK, NEW s \in Submission, NEW code, NEW d, KeyFree(s), Remember(s, code, d)
    PROVE  NewRecord(s, code, d)
BY ScopeType DEF Remember, NewRecord, LegacyTypeOK

LEMMA AuditedAppends ==
    ASSUME LegacyTypeOK, NEW d \in Draft, NEW type \in EventType, NEW actor \in Actor,
           Audited(d, type, actor)
    PROVE  Appends(d, type, actor) /\ \A e \in Draft \ {d} : audit'[e] = audit[e]
BY DEF Audited, Appends, LegacyTypeOK

LEMMA DryRunMoves ==
    ASSUME LegacyTypeOK, NEW q \in Slot, CommitDryRun(q)
    PROVE  \E s \in Submission, d \in Draft : Moves(s, d)
<1>1. PICK s \in Submission : s = req[q].sub /\ s.op = "dry_run"
  BY DryRunEffect
<1>2. PICK d \in Draft :
         /\ draft[d].status = "absent"
         /\ draft'[d] = [draft[d] EXCEPT !.status = "proposed", !.version = 1]
         /\ \A e \in Draft \ {d} : draft'[e] = draft[e]
         /\ Audited(d, "draft_proposed", s.actor)
         /\ Remember(s, 201, d)
  BY <1>1, DryRunEffect
<1>3. draft[d] \in DraftRow /\ sim' = sim /\ KeyFree(s)
  BY <1>1 DEF LegacyTypeOK, CommitDryRun
<1>4. /\ draft'[d].status = "proposed"
      /\ draft'[d].approver = draft[d].approver /\ draft'[d].rejecter = draft[d].rejecter
  BY <1>2, <1>3 DEF DraftRow
<1>5. NewRecord(s, 201, d)
  BY <1>2, <1>3, RememberAdds
<1>6. Appends(d, "draft_proposed", s.actor) /\ \A e \in Draft \ {d} : audit'[e] = audit[e]
  BY <1>2, ScopeType, AuditedAppends DEF EventType
<1>7. Moves(s, d)
  BY <1>1, <1>2, <1>3, <1>4, <1>5, <1>6 DEF Moves, Proposes, OthersStay
<1> QED BY <1>7

LEMMA DecisionMoves ==
    ASSUME LegacyTypeOK, InFlight, NEW q \in Slot, CommitDecision(q)
    PROVE  \E s \in Submission, d \in Draft : Moves(s, d)
<1>1. PICK s \in Submission : s = req[q].sub
  BY DecisionEffect
<1>2. PICK d \in Draft : d = s.target
  BY <1>1, DecisionEffect
<1>3. draft'[d] = Decided(draft[d], s) /\ \A e \in Draft \ {d} : draft'[e] = draft[e]
  BY <1>1, <1>2, DecisionEffect
<1>4. /\ draft[d] \in DraftRow /\ sim' = sim /\ KeyFree(s) /\ Remember(s, 200, d)
      /\ s.op \in {"approve", "reject"} /\ s.actor \in Actor
  BY <1>1, <1>2, ScopeType DEF LegacyTypeOK, CommitDecision
<1>5. draft[d].status = "proposed"
  BY <1>1, <1>2 DEF CommitDecision, VersionHolds, InFlight, Deciding
<1>6. NewRecord(s, 200, d)
  BY <1>4, RememberAdds
<1>7. CASE s.op = "approve"
  <2>1. Audited(d, "proposal_approved", s.actor)
    BY <1>1, <1>2, <1>7 DEF CommitDecision
  <2>2. /\ Appends(d, "proposal_approved", s.actor)
        /\ \A e \in Draft \ {d} : audit'[e] = audit[e]
    BY <1>4, <2>1, AuditedAppends DEF EventType
  <2>3. /\ draft'[d].status = "approved" /\ draft'[d].approver = s.actor
        /\ draft'[d].rejecter = draft[d].rejecter
    BY <1>3, <1>4, <1>7 DEF Decided, DraftRow
  <2>4. Moves(s, d)
    BY <1>3, <1>4, <1>5, <1>6, <1>7, <2>2, <2>3 DEF Moves, Approves, OthersStay
  <2> QED BY <2>4
<1>8. CASE s.op # "approve"
  <2>1. Audited(d, "proposal_rejected", s.actor)
    BY <1>1, <1>2, <1>8 DEF CommitDecision
  <2>2. /\ Appends(d, "proposal_rejected", s.actor)
        /\ \A e \in Draft \ {d} : audit'[e] = audit[e]
    BY <1>4, <2>1, AuditedAppends DEF EventType
  <2>3. /\ draft'[d].status = "rejected" /\ draft'[d].rejecter = s.actor
        /\ draft'[d].approver = draft[d].approver
    BY <1>3, <1>4, <1>8 DEF Decided, DraftRow
  <2>4. Moves(s, d)
    BY <1>3, <1>4, <1>5, <1>6, <1>8, <2>2, <2>3 DEF Moves, Rejects, OthersStay
  <2> QED BY <2>4
<1> QED BY <1>7, <1>8

LEMMA ClaimMoves ==
    ASSUME LegacyInv, NEW q \in Slot, CommitClaim(q)
    PROVE  \E s \in Submission, d \in Draft : Moves(s, d)
<1>1. LegacyTypeOK /\ InFlight /\ Claiming(q)
  BY DEF LegacyInv, CommitClaim, Claiming
<1>2. PICK s \in Submission : s = req[q].sub
  BY <1>1, InFlightTarget
<1>3. PICK d \in Draft : d = s.target
  BY <1>1, <1>2, InFlightTarget
<1>4. /\ s.op = "simulate" /\ KeyFree(s) /\ sim[d].status = "none" /\ s.actor \in Actor
      /\ sim' = [sim EXCEPT ![d] = [status |-> "simulating", key |-> s.key, actor |-> s.actor]]
      /\ Audited(d, "simulation_started", s.actor)
      /\ Remember(s, 202, d) /\ draft' = draft
  BY <1>2, <1>3, ScopeType DEF CommitClaim, SimFree
<1>5. draft[d].status = "approved"
  <2>1. draft[d].status \in {"approved", "simulated"} /\ Agree(d)
    BY <1>1, <1>2, <1>3 DEF InFlight, LegacyInv
  <2> QED BY <1>4, <2>1 DEF Agree
<1>6. NewRecord(s, 202, d)
  BY <1>1, <1>4, RememberAdds
<1>7. Appends(d, "simulation_started", s.actor) /\ \A e \in Draft \ {d} : audit'[e] = audit[e]
  BY <1>1, <1>4, AuditedAppends DEF EventType
<1>8. /\ sim'[d] = [status |-> "simulating", key |-> s.key, actor |-> s.actor]
      /\ \A e \in Draft \ {d} : sim'[e] = sim[e]
  BY <1>1, <1>4 DEF LegacyTypeOK
<1>9. Moves(s, d)
  BY <1>4, <1>5, <1>6, <1>7, <1>8 DEF Moves, Claims, OthersStay
<1> QED BY <1>9

LEMMA OutcomeMoves ==
    ASSUME LegacyInv, ClaimsRecorded, NEW q \in Slot, FinalizeSuccess(q) \/ FinalizeFailure(q)
    PROVE  \E s \in Submission, d \in Draft : Moves(s, d)
<1>1. LegacyTypeOK /\ InFlight /\ Finalizing(q)
  BY DEF LegacyInv, FinalizeSuccess, FinalizeFailure, Caught, Finalizing
<1>2. PICK s \in Submission : s = req[q].sub
  BY <1>1, InFlightTarget
<1>3. PICK d \in Draft : d = s.target
  BY <1>1, <1>2, InFlightTarget
<1>4. PICK status \in {"simulated", "simulation_failed"} :
         status = IF FinalizeSuccess(q) THEN "simulated" ELSE "simulation_failed"
  OBVIOUS
<1>5. /\ Owner(q, d) /\ s.op = "simulate" /\ s.actor \in Actor
      /\ sim'[d] = [sim[d] EXCEPT !.status = status]
      /\ draft'[d] = IF status = "simulated"
                     THEN [draft[d] EXCEPT !.status = "simulated", !.version = @ + 1]
                     ELSE draft[d]
      /\ \A e \in Draft \ {d} : draft'[e] = draft[e] /\ sim'[e] = sim[e]
  BY <1>1, <1>2, <1>3, <1>4, FinalEffect
<1>6. /\ sim[d].status = "simulating" /\ sim[d].key = s.key /\ draft[d].status = "approved"
  BY <1>2, <1>5 DEF LegacyInv, Agree
<1>7. sim[d] \in SimRow /\ draft[d] \in DraftRow
  BY <1>1 DEF LegacyTypeOK
<1>8. sim'[d].status = status /\ sim'[d].key = sim[d].key /\ sim'[d].actor = sim[d].actor
  BY <1>5, <1>7 DEF SimRow
<1>9. /\ draft'[d].status = SettledDraft(status)
      /\ draft'[d].approver = draft[d].approver /\ draft'[d].rejecter = draft[d].rejecter
  BY <1>5, <1>6, <1>7 DEF DraftRow, SettledDraft
<1>10. Audited(d, SettledEvent(status), s.actor) /\ RecordOutcome(req[q].sub, SettledCode(status))
  BY <1>2, <1>3, <1>4 DEF FinalizeSuccess, FinalizeFailure, SettledEvent, SettledCode
<1>11. /\ Appends(d, SettledEvent(status), s.actor)
       /\ \A e \in Draft \ {d} : audit'[e] = audit[e]
  <2>1. SettledEvent(status) \in EventType
    BY DEF SettledEvent, EventType
  <2> QED BY <1>1, <1>5, <1>10, <2>1, AuditedAppends
<1>12. NewCode(<<"simulate", s.key>>, SettledCode(status))
  <2>1. SettledCode(status) \in Code
    BY DEF SettledCode, Code
  <2> QED BY <1>1, <1>2, <1>10, <2>1, RecordOutcomeKeeps DEF NewCode
<1>13. idem[<<"simulate", s.key>>].resource = d
  BY <1>1, <1>2, <1>3 DEF ClaimsRecorded
<1>14. Settles(s, d, status)
  BY <1>5, <1>6, <1>8, <1>9, <1>11, <1>12, <1>13 DEF Settles
<1>15. Moves(s, d)
  BY <1>5, <1>11, <1>14 DEF Moves, OthersStay
<1> QED BY <1>15

(* Every step of the service is one of these.                              *)
LEMMA TableSteps == LegacyInv /\ ClaimsRecorded /\ [Next]_vars => TableStep
<1> SUFFICES ASSUME LegacyInv, ClaimsRecorded, [Next]_vars PROVE TableStep
  OBVIOUS
<1>1. ASSUME NEW q \in Slot,
             \/ Begin(q) \/ Read(q) \/ ReadExisting(q) \/ StaleDecision(q) \/ KeyTaken(q)
             \/ ClaimLost(q) \/ Call(q) \/ Respond(q) \/ Abort(q) \/ Abandon(q)
      PROVE  UNCHANGED rows
  BY <1>1 DEF Begin, Read, ReadExisting, StaleDecision, KeyTaken, ClaimLost, Call, Respond,
              Abort, Abandon
<1>2. UNCHANGED vars => UNCHANGED rows
  BY DEF vars
<1>3. LegacyTypeOK /\ InFlight
  BY DEF LegacyInv
<1> QED BY <1>1, <1>2, <1>3, DryRunMoves, DecisionMoves, ClaimMoves, OutcomeMoves
        DEF Next, Handle, Simulate, TableStep

-------------------------------------------------------------------------------
(* What a step does to the records of one operation on one draft.          *)
LEMMA RecordsAdded ==
    ASSUME NEW s \in Submission, NEW code \in Code, NEW d \in Draft, NewRecord(s, code, d),
           NEW e, NEW operation \in Operation
    PROVE  RecordsOf(e, operation)' =
              IF e = d /\ operation = s.op THEN RecordsOf(e, operation) \cup {s.key}
              ELSE RecordsOf(e, operation)
<1> DEFINE rec == [actor |-> s.actor, hash |-> HashOf(s), code |-> code, resource |-> d]
<1>1. rec # None /\ rec.resource = d
  <2>1. rec \in IdemRecord
    BY ScopeType DEF IdemRecord
  <2> QED BY <2>1, NoneAssumption
<1>2. idem[<<s.op, s.key>>] = None /\ idem'[<<s.op, s.key>>] = rec
  BY DEF NewRecord, KeyFree
<1> HIDE DEF rec
<1>3. ASSUME NEW k \in Key, <<operation, k>> # <<s.op, s.key>>
      PROVE  k \in RecordsOf(e, operation)' <=> k \in RecordsOf(e, operation)
  <2>1. <<operation, k>> \in Scope
    BY DEF Scope
  <2>2. idem'[<<operation, k>>] = idem[<<operation, k>>]
    BY <1>3, <2>1 DEF NewRecord
  <2> QED BY <2>2 DEF RecordsOf
<1>4. ASSUME operation = s.op
      PROVE  /\ s.key \notin RecordsOf(e, operation)
             /\ s.key \in RecordsOf(e, operation)' <=> e = d
  <2>1. s.key \in Key
    BY ScopeType
  <2> QED BY <1>1, <1>2, <1>4, <2>1 DEF RecordsOf
<1>5. RecordsOf(e, operation) \subseteq Key /\ RecordsOf(e, operation)' \subseteq Key
  BY DEF RecordsOf
<1>6. s.key \in Key
  BY ScopeType
<1>7. CASE operation = s.op
  <2>1. \A k \in Key \ {s.key} : k \in RecordsOf(e, operation)' <=> k \in RecordsOf(e, operation)
    BY <1>3
  <2> QED BY <1>4, <1>5, <1>6, <1>7, <2>1
<1>8. CASE operation # s.op
  <2>1. \A k \in Key : k \in RecordsOf(e, operation)' <=> k \in RecordsOf(e, operation)
    BY <1>3, <1>8
  <2> QED BY <1>5, <1>8, <2>1
<1> QED BY <1>7, <1>8

LEMMA RecordsRecoded ==
    ASSUME NEW k, NEW code \in Code, NewCode(k, code), NEW e, NEW operation \in Operation
    PROVE  RecordsOf(e, operation)' = RecordsOf(e, operation)
<1>1. /\ idem[k] # None /\ idem'[k] # None /\ idem'[k].resource = idem[k].resource
      /\ idem'[k].actor = idem[k].actor
  <2>1. idem[k] \in IdemRecord /\ idem'[k] = [idem[k] EXCEPT !.code = code]
    BY DEF NewCode
  <2>2. idem'[k] \in IdemRecord
    BY <2>1 DEF IdemRecord
  <2> QED BY <2>1, <2>2, NoneAssumption DEF IdemRecord
<1>2. ASSUME NEW j \in Key
      PROVE  j \in RecordsOf(e, operation)' <=> j \in RecordsOf(e, operation)
  <2>1. <<operation, j>> \in Scope
    BY DEF Scope
  <2>2. CASE <<operation, j>> = k
    BY <1>1, <2>2 DEF RecordsOf
  <2>3. CASE <<operation, j>> # k
    <3>1. idem'[<<operation, j>>] = idem[<<operation, j>>]
      BY <2>1, <2>3 DEF NewCode
    <3> QED BY <3>1 DEF RecordsOf
  <2> QED BY <2>2, <2>3
<1>3. RecordsOf(e, operation) \subseteq Key /\ RecordsOf(e, operation)' \subseteq Key
  BY DEF RecordsOf
<1> QED BY <1>2, <1>3

(* One record, or none, for an effect that happened or did not.            *)
Sole(records, happened) ==
    IF happened THEN \E k \in Key : records = {k} ELSE records = {}
RecordsTell(d) ==
    /\ Sole(RecordsOf(d, "dry_run"), draft[d].status # "absent")
    /\ Sole(RecordsOf(d, "approve"), draft[d].approver # None)
    /\ Sole(RecordsOf(d, "reject"), draft[d].rejecter # None)
    /\ Sole(RecordsOf(d, "simulate"), sim[d].status # "none")
    /\ \A k \in RecordsOf(d, "approve") : idem[<<"approve", k>>].actor = draft[d].approver

LEMMA RecordsTellOne == (\A d \in Draft : RecordsTell(d)) => OneRecordPerEffect
<1>1. \A k : Cardinality({k}) = 1
  BY FS_Singleton
<1>2. Cardinality({}) = 0
  BY FS_EmptySet
<1>3. ASSUME NEW records, NEW happened \in BOOLEAN, Sole(records, happened)
      PROVE  Cardinality(records) = IF happened THEN 1 ELSE 0
  BY <1>1, <1>2, <1>3 DEF Sole
<1>4. ASSUME NEW d \in Draft, RecordsTell(d)
      PROVE  /\ Cardinality(RecordsOf(d, "dry_run")) = IF draft[d].status = "absent" THEN 0 ELSE 1
             /\ Cardinality(RecordsOf(d, "approve")) = IF draft[d].approver = None THEN 0 ELSE 1
             /\ Cardinality(RecordsOf(d, "reject")) = IF draft[d].rejecter = None THEN 0 ELSE 1
             /\ Cardinality(RecordsOf(d, "simulate")) = IF sim[d].status = "none" THEN 0 ELSE 1
             /\ \A k \in RecordsOf(d, "approve") :
                   idem[<<"approve", k>>].actor = draft[d].approver
  BY <1>3, <1>4 DEF RecordsTell
<1> QED BY <1>4 DEF OneRecordPerEffect

(* The actor of an approval's record is not touched afterwards.            *)
LEMMA ApprovalsKept ==
    ASSUME LegacyTypeOK, ClaimsRecorded, [Next]_vars, NEW d, NEW k \in RecordsOf(d, "approve")
    PROVE  idem'[<<"approve", k>>].actor = idem[<<"approve", k>>].actor
<1>1. <<"approve", k>> \in Scope /\ idem[<<"approve", k>>] # None
  BY DEF RecordsOf, Scope, Operation
<1> QED BY <1>1, RecordsKept DEF SameRecord

(* A draft whose effects and records stay the same.                        *)
LEMMA RecordsStill ==
    ASSUME LegacyTypeOK, ClaimsRecorded, [Next]_vars, NEW d \in Draft, RecordsTell(d),
           \A operation \in Operation : RecordsOf(d, operation)' = RecordsOf(d, operation),
           (draft'[d].status # "absent") = (draft[d].status # "absent"),
           draft'[d].approver = draft[d].approver, draft'[d].rejecter = draft[d].rejecter,
           (sim'[d].status # "none") = (sim[d].status # "none")
    PROVE  RecordsTell(d)'
<1>1. /\ RecordsOf(d, "dry_run")' = RecordsOf(d, "dry_run")
      /\ RecordsOf(d, "approve")' = RecordsOf(d, "approve")
      /\ RecordsOf(d, "reject")' = RecordsOf(d, "reject")
      /\ RecordsOf(d, "simulate")' = RecordsOf(d, "simulate")
  BY DEF Operation
<1> QED BY <1>1, ApprovalsKept DEF RecordsTell

LEMMA RecordsStay ==
    ASSUME LegacyInv, ClaimsRecorded, [Next]_vars, NEW d \in Draft, RecordsTell(d)
    PROVE  RecordsTell(d)'
<1>t. LegacyTypeOK
  BY DEF LegacyInv
<1>o. "dry_run" \in Operation /\ "approve" \in Operation /\ "reject" \in Operation
      /\ "simulate" \in Operation
  BY DEF Operation
<1>c. 200 \in Code /\ 201 \in Code /\ 202 \in Code
  BY DEF Code
<1>u. draft[d].status \in {"absent", "proposed"} =>
         draft[d].approver = None /\ draft[d].rejecter = None
  BY DEF LegacyInv, InFlight, Agree
<1>e. /\ RecordsTell(d)
      /\ Sole(RecordsOf(d, "dry_run"), draft[d].status # "absent")
      /\ Sole(RecordsOf(d, "approve"), draft[d].approver # None)
      /\ Sole(RecordsOf(d, "reject"), draft[d].rejecter # None)
      /\ Sole(RecordsOf(d, "simulate"), sim[d].status # "none")
      /\ \A k \in RecordsOf(d, "approve") : idem[<<"approve", k>>].actor = draft[d].approver
  BY DEF RecordsTell
<1>a. ASSUME NEW k \in RecordsOf(d, "approve"), draft'[d].approver = draft[d].approver
      PROVE  idem'[<<"approve", k>>].actor = draft'[d].approver
  BY <1>t, <1>e, <1>a, ApprovalsKept
<1>1. CASE UNCHANGED rows
  BY <1>1 DEF rows, RecordsTell, RecordsOf
<1>2. ASSUME NEW s \in Submission, NEW e \in Draft, Moves(s, e), e # d
      PROVE  RecordsTell(d)'
  <2>1. draft'[d] = draft[d] /\ sim'[d] = sim[d]
    BY <1>2 DEF Moves, OthersStay
  <2>2. \A operation \in Operation : RecordsOf(d, operation)' = RecordsOf(d, operation)
    <3>1. CASE \E code \in Code : NewRecord(s, code, e)
      BY <1>2, <3>1, RecordsAdded
    <3>2. CASE \E k, code : code \in Code /\ NewCode(k, code)
      BY <3>2, RecordsRecoded
    <3>3. \A status : SettledCode(status) \in Code
      BY DEF SettledCode, Code
    <3> QED BY <1>2, <1>c, <3>1, <3>2, <3>3 DEF Moves, Proposes, Approves, Rejects, Claims, Settles
  <2> QED BY <1>t, <2>1, <2>2, RecordsStill
<1>3. ASSUME NEW s \in Submission, Proposes(s, d) PROVE RecordsTell(d)'
  <2>1. \A operation \in Operation : RecordsOf(d, operation)' =
           IF operation = "dry_run" THEN RecordsOf(d, operation) \cup {s.key}
           ELSE RecordsOf(d, operation)
    BY <1>3, <1>c, RecordsAdded DEF Proposes
  <2>2. /\ draft[d].status = "absent" /\ draft'[d].status = "proposed" /\ sim'[d] = sim[d]
        /\ draft'[d].approver = draft[d].approver /\ draft'[d].rejecter = draft[d].rejecter
    BY <1>3 DEF Proposes
  <2>3. /\ RecordsOf(d, "dry_run")' = {s.key}
        /\ RecordsOf(d, "approve")' = RecordsOf(d, "approve")
        /\ RecordsOf(d, "reject")' = RecordsOf(d, "reject")
        /\ RecordsOf(d, "simulate")' = RecordsOf(d, "simulate")
    BY <1>e, <1>o, <2>1, <2>2 DEF Sole
  <2>4. s.key \in Key
    BY ScopeType
  <2> QED BY <1>a, <1>e, <2>2, <2>3, <2>4 DEF RecordsTell, Sole
<1>4. ASSUME NEW s \in Submission, Approves(s, d) PROVE RecordsTell(d)'
  <2>1. \A operation \in Operation : RecordsOf(d, operation)' =
           IF operation = "approve" THEN RecordsOf(d, operation) \cup {s.key}
           ELSE RecordsOf(d, operation)
    BY <1>4, <1>c, RecordsAdded DEF Approves
  <2>2. /\ draft[d].status = "proposed" /\ draft'[d].status = "approved" /\ sim'[d] = sim[d]
        /\ draft'[d].approver = s.actor /\ draft'[d].rejecter = draft[d].rejecter
        /\ draft[d].approver = None
    BY <1>4, <1>u DEF Approves
  <2>3. /\ RecordsOf(d, "approve")' = {s.key}
        /\ RecordsOf(d, "dry_run")' = RecordsOf(d, "dry_run")
        /\ RecordsOf(d, "reject")' = RecordsOf(d, "reject")
        /\ RecordsOf(d, "simulate")' = RecordsOf(d, "simulate")
    BY <1>e, <1>o, <2>1, <2>2 DEF Sole
  <2>4. s.key \in Key /\ s.actor \in Actor /\ s.actor # None
    BY ScopeType, NoneAssumption
  <2>5. idem'[<<"approve", s.key>>].actor = s.actor
    BY <1>4 DEF Approves, NewRecord
  <2> QED BY <1>e, <2>2, <2>3, <2>4, <2>5 DEF RecordsTell, Sole
<1>5. ASSUME NEW s \in Submission, Rejects(s, d) PROVE RecordsTell(d)'
  <2>1. \A operation \in Operation : RecordsOf(d, operation)' =
           IF operation = "reject" THEN RecordsOf(d, operation) \cup {s.key}
           ELSE RecordsOf(d, operation)
    BY <1>5, <1>c, RecordsAdded DEF Rejects
  <2>2. /\ draft[d].status = "proposed" /\ draft'[d].status = "rejected" /\ sim'[d] = sim[d]
        /\ draft'[d].approver = draft[d].approver /\ draft'[d].rejecter = s.actor
        /\ draft[d].rejecter = None
    BY <1>5, <1>u DEF Rejects
  <2>3. /\ RecordsOf(d, "reject")' = {s.key}
        /\ RecordsOf(d, "dry_run")' = RecordsOf(d, "dry_run")
        /\ RecordsOf(d, "approve")' = RecordsOf(d, "approve")
        /\ RecordsOf(d, "simulate")' = RecordsOf(d, "simulate")
    BY <1>e, <1>o, <2>1, <2>2 DEF Sole
  <2>4. s.key \in Key /\ s.actor \in Actor /\ s.actor # None
    BY ScopeType, NoneAssumption
  <2> QED BY <1>a, <1>e, <2>2, <2>3, <2>4 DEF RecordsTell, Sole
<1>6. ASSUME NEW s \in Submission, Claims(s, d) PROVE RecordsTell(d)'
  <2>1. \A operation \in Operation : RecordsOf(d, operation)' =
           IF operation = "simulate" THEN RecordsOf(d, operation) \cup {s.key}
           ELSE RecordsOf(d, operation)
    BY <1>6, <1>c, RecordsAdded DEF Claims
  <2>2. draft'[d] = draft[d] /\ sim[d].status = "none" /\ sim'[d].status = "simulating"
    BY <1>6 DEF Claims
  <2>3. /\ RecordsOf(d, "simulate")' = {s.key}
        /\ RecordsOf(d, "dry_run")' = RecordsOf(d, "dry_run")
        /\ RecordsOf(d, "approve")' = RecordsOf(d, "approve")
        /\ RecordsOf(d, "reject")' = RecordsOf(d, "reject")
    BY <1>e, <1>o, <2>1, <2>2 DEF Sole
  <2>4. s.key \in Key
    BY ScopeType
  <2> QED BY <1>a, <1>e, <2>2, <2>3, <2>4 DEF RecordsTell, Sole
<1>7. ASSUME NEW s \in Submission, NEW status \in {"simulated", "simulation_failed"},
             Settles(s, d, status)
      PROVE  RecordsTell(d)'
  <2>1. \A operation \in Operation : RecordsOf(d, operation)' = RecordsOf(d, operation)
    <3>1. SettledCode(status) \in Code
      BY DEF SettledCode, Code
    <3> QED BY <1>7, <3>1, RecordsRecoded DEF Settles
  <2>2. /\ draft[d].status # "absent" /\ draft'[d].status # "absent"
        /\ draft'[d].approver = draft[d].approver /\ draft'[d].rejecter = draft[d].rejecter
        /\ sim[d].status # "none" /\ sim'[d].status # "none"
    BY <1>7 DEF Settles, SettledDraft
  <2> QED BY <1>t, <2>1, <2>2, RecordsStill
<1> QED BY <1>1, <1>2, <1>3, <1>4, <1>5, <1>6, <1>7, TableSteps DEF TableStep, Moves

(* Each effect on a draft has exactly one recorded request, and the record *)
(* of an approval names the approver of the row.                           *)
THEOREM OneRequestPerEffect == Spec => []OneRecordPerEffect
<1>1. Init => \A d \in Draft : RecordsTell(d)
  BY DEF Init, NoDraft, NoSim, RecordsTell, RecordsOf, Sole, Scope, Operation
<1>2. LegacyInv /\ ClaimsRecorded /\ (\A d \in Draft : RecordsTell(d)) /\ [Next]_vars
         => (\A d \in Draft : RecordsTell(d))'
  BY RecordsStay
<1> QED BY <1>1, <1>2, RecordsTellOne, LegacyInvariant, TypesAndClaims, PTL DEF Spec

-------------------------------------------------------------------------------
(* The answer a simulate request is given again, by the status of the      *)
(* simulation it claimed.                                                  *)
CodeOf(status) ==
    CASE status = "simulating" -> 202
      [] status = "simulated" -> 200
      [] status = "simulation_failed" -> 502
      [] OTHER -> 0
Told(rec, k, row) == row.key = k /\ row.actor = rec.actor /\ rec.code = CodeOf(row.status)

LEMMA ReplayByCode ==
    /\ ReplayTellsOutcome <=>
          \A k \in Key : LET rec == idem[<<"simulate", k>>] IN
                         rec # None => Told(rec, k, sim[rec.resource])
    /\ ReplayTellsOutcome' <=>
          \A k \in Key : LET rec == idem'[<<"simulate", k>>] IN
                         rec # None => Told(rec, k, sim'[rec.resource])
BY DEF ReplayTellsOutcome, Told, CodeOf

LEMMA ReplaysStay ==
    ASSUME LegacyTypeOK, ReplayTellsOutcome, TableStep
    PROVE  ReplayTellsOutcome'
<1>t. ASSUME NEW k \in Key
      PROVE  <<"simulate", k>> \in Scope /\ idem[<<"simulate", k>>] \in IdemRecord \cup {None}
  BY DEF Scope, Operation, LegacyTypeOK
<1>r. ASSUME NEW k \in Key, idem[<<"simulate", k>>] # None
      PROVE  LET rec == idem[<<"simulate", k>>] IN
             /\ rec.resource \in Draft /\ rec.code \in Code
             /\ Told(rec, k, sim[rec.resource])
  BY <1>t, <1>r, ReplayByCode DEF IdemRecord
<1>1. CASE UNCHANGED rows
  BY <1>1 DEF rows, ReplayTellsOutcome
<1>2. ASSUME NEW s \in Submission, NEW d \in Draft, NEW code \in Code, NewRecord(s, code, d),
             s.op # "simulate", \A e \in Draft : sim'[e] = sim[e]
      PROVE  ReplayTellsOutcome'
  <2>1. \A k \in Key : idem'[<<"simulate", k>>] = idem[<<"simulate", k>>]
    BY <1>2, <1>t DEF NewRecord
  <2> QED BY <1>2, <1>r, <2>1, ReplayByCode
<1>3. ASSUME NEW s \in Submission, NEW d \in Draft, OthersStay(d), Claims(s, d)
      PROVE  ReplayTellsOutcome'
  <2> SUFFICES ASSUME NEW k \in Key, idem'[<<"simulate", k>>] # None
               PROVE  Told(idem'[<<"simulate", k>>], k, sim'[idem'[<<"simulate", k>>].resource])
    BY ReplayByCode
  <2>1. CASE k = s.key
    BY <1>3, <2>1 DEF Claims, NewRecord, Told, CodeOf
  <2>2. CASE k # s.key
    <3>1. idem'[<<"simulate", k>>] = idem[<<"simulate", k>>]
      BY <1>3, <1>t, <2>2 DEF Claims, NewRecord
    <3>2. idem[<<"simulate", k>>].resource # d
      BY <1>3, <1>r, <3>1 DEF Claims, Told, CodeOf, Code
    <3> QED BY <1>3, <1>r, <3>1, <3>2 DEF OthersStay
  <2> QED BY <2>1, <2>2
<1>4. ASSUME NEW s \in Submission, NEW d \in Draft, OthersStay(d),
             NEW status \in {"simulated", "simulation_failed"}, Settles(s, d, status)
      PROVE  ReplayTellsOutcome'
  <2> SUFFICES ASSUME NEW k \in Key, idem'[<<"simulate", k>>] # None
               PROVE  Told(idem'[<<"simulate", k>>], k, sim'[idem'[<<"simulate", k>>].resource])
    BY ReplayByCode
  <2>1. CASE k = s.key
    <3>1. /\ idem[<<"simulate", k>>] \in IdemRecord
          /\ idem'[<<"simulate", k>>] = [idem[<<"simulate", k>>] EXCEPT !.code = SettledCode(status)]
          /\ idem[<<"simulate", k>>].resource = d
      BY <1>4, <2>1 DEF Settles, NewCode
    <3>2. /\ idem'[<<"simulate", k>>].resource = d
          /\ idem'[<<"simulate", k>>].code = SettledCode(status)
          /\ idem'[<<"simulate", k>>].actor = idem[<<"simulate", k>>].actor
          /\ idem[<<"simulate", k>>] # None
      BY <3>1, NoneAssumption DEF IdemRecord
    <3>3. /\ sim[d].key = k /\ sim[d].actor = idem[<<"simulate", k>>].actor
      BY <1>r, <3>1, <3>2 DEF Told
    <3>4. sim'[d].key = sim[d].key /\ sim'[d].actor = sim[d].actor /\ sim'[d].status = status
      BY <1>4 DEF Settles
    <3>5. SettledCode(status) = CodeOf(status)
      BY DEF SettledCode, CodeOf
    <3> QED BY <3>2, <3>3, <3>4, <3>5 DEF Told
  <2>2. CASE k # s.key
    <3>1. idem'[<<"simulate", k>>] = idem[<<"simulate", k>>]
      BY <1>4, <1>t, <2>2 DEF Settles, NewCode
    <3>2. idem[<<"simulate", k>>].resource # d
      BY <1>4, <1>r, <2>2, <3>1 DEF Settles, Told
    <3> QED BY <1>4, <1>r, <3>1, <3>2 DEF OthersStay
  <2> QED BY <2>1, <2>2
<1>5. ASSUME NEW s \in Submission, NEW d \in Draft, OthersStay(d),
             Proposes(s, d) \/ Approves(s, d) \/ Rejects(s, d)
      PROVE  /\ \A e \in Draft : sim'[e] = sim[e]
             /\ s.op # "simulate" /\ \E code \in Code : NewRecord(s, code, d)
  <2>1. sim'[d] = sim[d] /\ s.op # "simulate"
    BY <1>5 DEF Proposes, Approves, Rejects
  <2>2. \E code \in Code : NewRecord(s, code, d)
    BY <1>5 DEF Proposes, Approves, Rejects, Code
  <2>3. \A e \in Draft : sim'[e] = sim[e]
    BY <1>5, <2>1 DEF OthersStay
  <2> QED BY <2>1, <2>2, <2>3
<1> QED BY <1>1, <1>2, <1>3, <1>4, <1>5 DEF TableStep, Moves

(* A client that repeats its simulate request is told what became of it.   *)
THEOREM ReplaysTellTheTruth == Spec => []ReplayTellsOutcome
<1>1. Init => ReplayTellsOutcome
  BY DEF Init, ReplayTellsOutcome, Scope, Operation
<1>2. LegacyInv => LegacyTypeOK
  BY DEF LegacyInv
<1>3. LegacyInv /\ ClaimsRecorded /\ ReplayTellsOutcome /\ [Next]_vars => ReplayTellsOutcome'
  BY <1>2, TableSteps, ReplaysStay
<1> QED BY <1>1, <1>3, LegacyInvariant, TypesAndClaims, PTL DEF Spec

-------------------------------------------------------------------------------
(* The trail that a draft and its simulation leave.                        *)
Types(trail) == [i \in 1..Len(trail) |-> trail[i].type]
TrailOf(status, outcome) ==
    CASE status = "absent" -> <<>>
      [] status = "proposed" -> <<"draft_proposed">>
      [] status = "rejected" -> <<"draft_proposed", "proposal_rejected">>
      [] OTHER ->
           <<"draft_proposed", "proposal_approved">> \o
           CASE outcome = "none" -> <<>>
             [] outcome = "simulating" -> <<"simulation_started">>
             [] outcome = "simulated" -> <<"simulation_started", "simulation_completed">>
             [] outcome = "simulation_failed" -> <<"simulation_started", "simulation_failed">>

LEMMA TrailIsRowwise ==
    /\ LegacyTrailTellsStatus <=>
          \A d \in Draft : Types(audit[d]) = TrailOf(draft[d].status, sim[d].status)
    /\ LegacyTrailTellsStatus' <=>
          \A d \in Draft : Types(audit'[d]) = TrailOf(draft'[d].status, sim'[d].status)
BY DEF LegacyTrailTellsStatus, Types, TrailOf

LEMMA TypesAppended ==
    ASSUME NEW trail \in Seq(AuditEvent), NEW event \in AuditEvent
    PROVE  Types(Append(trail, event)) = Append(Types(trail), event.type)
<1> DEFINE n == Len(trail)
           new == Append(trail, event)
           s == Types(new)
           t == Append(Types(trail), event.type)
<1>1. /\ n \in Nat /\ Len(new) = n + 1 /\ new[n + 1] = event /\ new \in Seq(AuditEvent)
      /\ \A i \in 1..n : new[i] = trail[i]
  BY AppendProperties
<1>0. \A e \in AuditEvent : e.type \in EventType
  BY DEF AuditEvent
<1>2. \A i \in 1..n : trail[i].type \in EventType
  <2>1. \A i \in 1..n : trail[i] \in AuditEvent
    OBVIOUS
  <2> QED BY <1>0, <2>1
<1>3. event.type \in EventType
  BY DEF AuditEvent
<1>4. /\ Types(trail) \in Seq(EventType) /\ Len(Types(trail)) = n
      /\ \A i \in 1..n : Types(trail)[i] = trail[i].type
  BY <1>1, <1>2 DEF Types
<1>5. /\ t \in Seq(EventType) /\ Len(t) = n + 1 /\ t[n + 1] = event.type
      /\ \A i \in 1..n : t[i] = trail[i].type
  BY <1>3, <1>4, AppendProperties
<1>6. \A i \in 1..Len(new) : new[i].type \in EventType
  <2> HIDE DEF new
  <2>1. \A i \in 1..Len(new) : new[i] \in AuditEvent
    BY <1>1
  <2> QED BY <1>0, <2>1
<1>7. /\ s \in Seq(EventType) /\ Len(s) = n + 1
      /\ \A i \in 1..(n + 1) : s[i] = new[i].type
  BY <1>1, <1>6 DEF Types
<1> HIDE DEF new, s, t
<1>8. \A i \in 1..(n + 1) : s[i] = t[i]
  <2> SUFFICES ASSUME NEW i \in 1..(n + 1) PROVE s[i] = t[i]
    OBVIOUS
  <2>1. CASE i = n + 1
    BY <1>1, <1>5, <1>7, <2>1
  <2>2. CASE i \in 1..n
    BY <1>1, <1>5, <1>7, <2>2
  <2> HIDE DEF n
  <2> QED BY <1>1, <2>1, <2>2
<1>9. s = t
  BY <1>5, <1>7, <1>8, SeqEqual
<1> QED BY <1>9 DEF s, t, new

(* Sequences of up to four elements, element by element.                   *)
LEMMA AppendToOne ==
    ASSUME NEW S, NEW a \in S, NEW b \in S
    PROVE  Append(<<a>>, b) = <<a, b>>
<1> DEFINE s == Append(<<a>>, b)
           t == <<a, b>>
<1>1. <<a>> \in Seq(S) /\ Len(<<a>>) = 1 /\ <<a>>[1] = a
  OBVIOUS
<1>2. s \in Seq(S) /\ Len(s) = 2 /\ s[1] = a /\ s[2] = b
  BY <1>1, AppendProperties
<1>3. t \in Seq(S) /\ Len(t) = 2 /\ t[1] = a /\ t[2] = b
  OBVIOUS
<1> HIDE DEF s, t
<1>4. \A i \in 1..Len(s) : s[i] = t[i]
  BY <1>2, <1>3
<1> QED BY <1>2, <1>3, <1>4, SeqEqual DEF s, t

LEMMA AppendToJoined ==
    ASSUME NEW S, NEW s \in Seq(S), NEW t \in Seq(S), NEW e \in S
    PROVE  Append(s \o t, e) = s \o Append(t, e)
<1> DEFINE u == Append(s \o t, e)
           v == s \o Append(t, e)
           m == Len(s)
           n == Len(t)
<1>1. m \in Nat /\ n \in Nat
  BY LenProperties
<1>2. /\ s \o t \in Seq(S) /\ Len(s \o t) = m + n
      /\ \A i \in 1..(m + n) : (s \o t)[i] = IF i <= m THEN s[i] ELSE t[i - m]
  BY ConcatProperties
<1>3. /\ u \in Seq(S) /\ Len(u) = m + n + 1 /\ u[m + n + 1] = e
      /\ \A i \in 1..(m + n) : u[i] = (s \o t)[i]
  BY <1>2, AppendProperties
<1>4. /\ Append(t, e) \in Seq(S) /\ Len(Append(t, e)) = n + 1 /\ Append(t, e)[n + 1] = e
      /\ \A i \in 1..n : Append(t, e)[i] = t[i]
  BY AppendProperties
<1>5. /\ v \in Seq(S) /\ Len(v) = m + (n + 1)
      /\ \A i \in 1..(m + (n + 1)) : v[i] = IF i <= m THEN s[i] ELSE Append(t, e)[i - m]
  BY <1>4, ConcatProperties
<1> HIDE DEF u, v, m, n
<1>6. ASSUME NEW i \in 1..(m + n + 1) PROVE u[i] = v[i]
  <2>1. CASE i <= m
    <3>1. i \in 1..(m + n) /\ i \in 1..(m + (n + 1))
      BY <1>1, <1>6, <2>1
    <3> QED BY <1>2, <1>3, <1>5, <2>1, <3>1
  <2>2. CASE i > m /\ i < m + n + 1
    <3>1. i \in 1..(m + n) /\ i \in 1..(m + (n + 1)) /\ i - m \in 1..n /\ ~(i <= m)
      BY <1>1, <1>6, <2>2
    <3> QED BY <1>2, <1>3, <1>4, <1>5, <3>1
  <2>3. CASE i = m + n + 1
    <3>1. i \in 1..(m + (n + 1)) /\ i - m = n + 1 /\ ~(i <= m)
      BY <1>1, <1>6, <2>3
    <3> QED BY <1>3, <1>4, <1>5, <2>3, <3>1
  <2> QED BY <1>1, <2>1, <2>2, <2>3
<1>7. Len(u) = Len(v)
  BY <1>1, <1>3, <1>5
<1>8. u = v
  BY <1>3, <1>5, <1>6, <1>7, SeqEqual
<1> QED BY <1>8 DEF u, v

(* Each move of a draft or of its simulation adds what the trail asks for. *)
LEMMA TrailsGrow ==
    /\ \A o : Append(TrailOf("absent", o), "draft_proposed") = TrailOf("proposed", o)
    /\ Append(TrailOf("proposed", "none"), "proposal_approved") = TrailOf("approved", "none")
    /\ \A o : Append(TrailOf("proposed", o), "proposal_rejected") = TrailOf("rejected", o)
    /\ Append(TrailOf("approved", "none"), "simulation_started")
          = TrailOf("approved", "simulating")
    /\ \A o \in {"simulated", "simulation_failed"} :
          Append(TrailOf("approved", "simulating"), SettledEvent(o)) = TrailOf(SettledDraft(o), o)
<1> DEFINE decided == <<"draft_proposed", "proposal_approved">>
<1>1. /\ "draft_proposed" \in EventType /\ "proposal_approved" \in EventType
      /\ "proposal_rejected" \in EventType /\ "simulation_started" \in EventType
      /\ "simulation_completed" \in EventType /\ "simulation_failed" \in EventType
  BY DEF EventType
<1>2. /\ \A o : /\ TrailOf("absent", o) = <<>> /\ TrailOf("proposed", o) = <<"draft_proposed">>
                /\ TrailOf("rejected", o) = <<"draft_proposed", "proposal_rejected">>
      /\ TrailOf("approved", "none") = decided \o <<>>
      /\ TrailOf("approved", "simulating") = decided \o <<"simulation_started">>
      /\ TrailOf("simulated", "simulated") =
            decided \o <<"simulation_started", "simulation_completed">>
      /\ TrailOf("approved", "simulation_failed") =
            decided \o <<"simulation_started", "simulation_failed">>
  BY DEF TrailOf
<1>3. decided \in Seq(EventType) /\ <<>> \in Seq(EventType)
      /\ <<"simulation_started">> \in Seq(EventType)
  BY <1>1
<1>4. decided \o <<>> = decided
  BY <1>3, ConcatEmptySeq
<1>5. Append(<<"draft_proposed">>, "proposal_approved") = decided
  BY <1>1, AppendToOne
<1> HIDE DEF decided
<1>6. Append(<<"draft_proposed">>, "proposal_rejected")
         = <<"draft_proposed", "proposal_rejected">>
  BY <1>1, AppendToOne
<1>7. Append(<<>>, "draft_proposed") = <<"draft_proposed">>
  OBVIOUS
<1>8. Append(decided \o <<>>, "simulation_started") = decided \o <<"simulation_started">>
  <2>1. Append(<<>>, "simulation_started") = <<"simulation_started">>
    OBVIOUS
  <2> QED BY <1>1, <1>3, <2>1, AppendToJoined
<1>9. \A e \in EventType : Append(decided \o <<"simulation_started">>, e)
                              = decided \o <<"simulation_started", e>>
  BY <1>1, <1>3, AppendToJoined, AppendToOne
<1>10. /\ SettledEvent("simulated") = "simulation_completed"
       /\ SettledEvent("simulation_failed") = "simulation_failed"
       /\ SettledDraft("simulated") = "simulated" /\ SettledDraft("simulation_failed") = "approved"
  BY DEF SettledEvent, SettledDraft
<1> QED BY <1>1, <1>2, <1>4, <1>5, <1>6, <1>7, <1>8, <1>9, <1>10

LEMMA TrailsStay ==
    ASSUME LegacyInv, LegacyTrailTellsStatus, TableStep
    PROVE  LegacyTrailTellsStatus'
<1>t. LegacyTypeOK
  BY DEF LegacyInv
<1>1. \A d \in Draft : /\ audit[d] \in Seq(AuditEvent)
                       /\ Types(audit[d]) = TrailOf(draft[d].status, sim[d].status)
  BY <1>t, TrailIsRowwise DEF LegacyTypeOK
<1>2. CASE UNCHANGED rows
  BY <1>2 DEF rows, LegacyTrailTellsStatus
<1>3. ASSUME NEW d \in Draft, OthersStay(d), NEW type, NEW actor, Appends(d, type, actor),
             Append(TrailOf(draft[d].status, sim[d].status), type)
                = TrailOf(draft'[d].status, sim'[d].status)
      PROVE  LegacyTrailTellsStatus'
  <2> DEFINE event == [type |-> type, actor |-> actor]
  <2>1. event \in AuditEvent /\ event.type = type /\ audit'[d] = Append(audit[d], event)
    BY <1>3 DEF Appends, AuditEvent
  <2> HIDE DEF event
  <2>2. \A trail \in Seq(AuditEvent) : Types(Append(trail, event)) = Append(Types(trail), type)
    BY <2>1, TypesAppended
  <2>3. Types(audit'[d]) = TrailOf(draft'[d].status, sim'[d].status)
    BY <1>1, <1>3, <2>1, <2>2
  <2>4. \A e \in Draft : Types(audit'[e]) = TrailOf(draft'[e].status, sim'[e].status)
    <3>1. \A e \in Draft \ {d} : Types(audit'[e]) = TrailOf(draft'[e].status, sim'[e].status)
      BY <1>1, <1>3 DEF OthersStay
    <3> QED BY <2>3, <3>1
  <2> QED BY <2>4, TrailIsRowwise
<1>4. ASSUME NEW s \in Submission, NEW d \in Draft, Moves(s, d)
      PROVE  LegacyTrailTellsStatus'
  <2>0. OthersStay(d)
    BY <1>4 DEF Moves
  <2>1. CASE Proposes(s, d)
    <3>1. /\ draft[d].status = "absent" /\ draft'[d].status = "proposed" /\ sim'[d] = sim[d]
          /\ Appends(d, "draft_proposed", s.actor)
      BY <2>1 DEF Proposes
    <3> QED BY <1>3, <2>0, <3>1, TrailsGrow
  <2>2. CASE Approves(s, d)
    <3>1. /\ draft[d].status = "proposed" /\ draft'[d].status = "approved" /\ sim'[d] = sim[d]
          /\ Appends(d, "proposal_approved", s.actor)
      BY <2>2 DEF Approves
    <3>2. sim[d].status = "none"
      BY <1>t, <3>1, UndecidedIsIdle DEF LegacyInv
    <3> QED BY <1>3, <2>0, <3>1, <3>2, TrailsGrow
  <2>3. CASE Rejects(s, d)
    <3>1. /\ draft[d].status = "proposed" /\ draft'[d].status = "rejected" /\ sim'[d] = sim[d]
          /\ Appends(d, "proposal_rejected", s.actor)
      BY <2>3 DEF Rejects
    <3> QED BY <1>3, <2>0, <3>1, TrailsGrow
  <2>4. CASE Claims(s, d)
    <3>1. /\ draft[d].status = "approved" /\ draft'[d].status = "approved"
          /\ sim[d].status = "none" /\ sim'[d].status = "simulating"
          /\ Appends(d, "simulation_started", s.actor)
      BY <2>4 DEF Claims
    <3> QED BY <1>3, <2>0, <3>1, TrailsGrow
  <2>5. ASSUME NEW status \in {"simulated", "simulation_failed"}, Settles(s, d, status)
        PROVE  LegacyTrailTellsStatus'
    <3>1. /\ draft[d].status = "approved" /\ draft'[d].status = SettledDraft(status)
          /\ sim[d].status = "simulating" /\ sim'[d].status = status
          /\ Appends(d, SettledEvent(status), s.actor)
      BY <2>5 DEF Settles
    <3> QED BY <1>3, <2>0, <3>1, TrailsGrow
  <2> QED BY <1>4, <2>1, <2>2, <2>3, <2>4, <2>5 DEF Moves
<1> QED BY <1>2, <1>4 DEF TableStep

(* The audit trail of a draft, read alone, tells its state and that of its *)
(* simulation.                                                             *)
THEOREM LegacyTrailIsComplete == Spec => []LegacyTrailTellsStatus
<1>1. Init => LegacyTrailTellsStatus
  BY DEF Init, NoDraft, NoSim, LegacyTrailTellsStatus
<1>2. LegacyInv /\ ClaimsRecorded /\ LegacyTrailTellsStatus /\ [Next]_vars
         => LegacyTrailTellsStatus'
  BY TableSteps, TrailsStay
<1> QED BY <1>1, <1>2, LegacyInvariant, TypesAndClaims, PTL DEF Spec
===============================================================================
