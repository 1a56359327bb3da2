---------------------------- MODULE AiLedger_proofs ----------------------------
(***************************************************************************)
(* The budget ledger of AiPlatform balances and stays within the tenant's  *)
(* limits and the cap, for every number of preparations, days, handlers    *)
(* and workers.                                                            *)
(***************************************************************************)
EXTENDS AiPlatform_proofs, SumLemmas

(* A step makes at most one preparation.                                   *)
LEMMA FinitelyManyStay ==
    ASSUME AiRowsOK, FinitelyMany, RowStep
    PROVE  FinitelyMany'
<1>1. ASSUME NEW p \in Preparation, NEW row, NEW e, NEW i, NEW type, Moves(p, row, e, i, type)
      PROVE  FinitelyMany'
  <2>1. Existing' \subseteq Existing \cup {p}
    BY <1>1, MoveTells DEF Existing
  <2>2. IsFiniteSet(Existing \cup {p})
    BY FS_AddElement DEF FinitelyMany
  <2> QED BY <2>1, <2>2, FS_Subset DEF FinitelyMany
<1>2. CASE UNCHANGED prep
  BY <1>2 DEF FinitelyMany, Existing
<1>3. ASSUME NEW s \in Submission, NEW p \in Preparation, NEW row \in PrepRow, Enqueued(s, p, row)
      PROVE  FinitelyMany'
  BY <1>1, <1>3 DEF Enqueued
<1>4. ASSUME NEW p \in Preparation, NEW e \in EventRow, Started(p, e) \/ GivenUp(p, e)
      PROVE  FinitelyMany'
  BY <1>1, <1>4 DEF Started, GivenUp
<1>5. ASSUME NEW p \in Preparation, NEW status \in Settled, NEW used \in Nat, NEW e \in EventRow,
             ClosedAs(p, status, used, e)
      PROVE  FinitelyMany'
  BY <1>1, <1>5 DEF ClosedAs
<1> QED BY <1>2, <1>3, <1>4, <1>5 DEF RowStep, Quiet, LeaseLost, PolicyWritten, ByMail

(* The sums of a day are sums of natural numbers over finite sets.         *)
LEMMA SumsAreDefined ==
    ASSUME AiRowsOK, FinitelyMany, NEW d
    PROVE  /\ IsFiniteSet(PreparedOn(d, Holding)) /\ IsFiniteSet(PreparedOn(d, Settled))
           /\ \A z \in Preparation : ReservedBy[z] \in Nat /\ ExcessOf[z] \in Nat
           /\ \A z \in PreparedOn(d, Settled) : UsedBy[z] \in Nat
<1>1. PreparedOn(d, Holding) \subseteq Existing /\ PreparedOn(d, Settled) \subseteq Existing
  BY DEF PreparedOn, Existing, Holding, Settled
<1>2. IsFiniteSet(PreparedOn(d, Holding)) /\ IsFiniteSet(PreparedOn(d, Settled))
  BY <1>1, FS_Subset DEF FinitelyMany
<1>3. \A z \in Preparation : prep[z].reserved \in Nat /\ prep[z].used \in Nat \cup {None}
  BY DEF AiRowsOK, AiTypeOK, AiStoreTypeOK, PrepRow
<1>4. \A z \in Preparation : ReservedBy[z] \in Nat /\ ExcessOf[z] \in Nat
  BY <1>3 DEF ReservedBy, ExcessOf
<1>5. \A z \in PreparedOn(d, Settled) : UsedBy[z] \in Nat
  BY DEF UsedBy, PreparedOn, AiRowsOK, RowsComplete
<1> QED BY <1>2, <1>4, <1>5

(* The limits that may cover a day: none yet, or one a PUT has recorded.   *)
Covers == {0} \cup (DailyLimits \cap Nat)
Ledger == /\ LedgerBalances
          /\ \A d \in Day : \E limit \in Covers :
                bucket[d].used + bucket[d].reserved
                   <= Smaller(limit, HardDaily) + SumFunctionOnSet(ExcessOf, PreparedOn(d, Settled))

LEMMA CoverIsNat == \A limit \in Covers : Smaller(limit, HardDaily) \in Nat
BY AiCapAssumption DEF Covers, Smaller

LEMMA CoversStay ==
    ASSUME AiRowsOK, RowStep
    PROVE  Covers \subseteq Covers'
BY LimitsGrow DEF Covers

(* Preparations that neither enter nor leave a sum keep the ledger.        *)
LEMMA LedgerKept ==
    ASSUME AiRowsOK, RowStep, Ledger, UNCHANGED bucket,
           \A z \in Preparation :
              /\ prep'[z].day = prep[z].day /\ prep'[z].reserved = prep[z].reserved
              /\ prep'[z].used = prep[z].used
              /\ prep'[z].status \in Holding <=> prep[z].status \in Holding
              /\ prep'[z].status \in Settled <=> prep[z].status \in Settled
    PROVE  Ledger'
<1>1. ReservedBy' = ReservedBy /\ UsedBy' = UsedBy /\ ExcessOf' = ExcessOf
  BY DEF ReservedBy, UsedBy, ExcessOf
<1>2. \A d \in Day : /\ PreparedOn(d, Holding)' = PreparedOn(d, Holding)
                     /\ PreparedOn(d, Settled)' = PreparedOn(d, Settled)
  BY DEF PreparedOn
<1>3. LedgerBalances'
  BY <1>1, <1>2 DEF Ledger, LedgerBalances
<1>4. ASSUME NEW d \in Day
      PROVE  \E limit \in Covers' :
                bucket'[d].used + bucket'[d].reserved
                   <= Smaller(limit, HardDaily) + SumFunctionOnSet(ExcessOf', PreparedOn(d, Settled)')
  BY <1>1, <1>2, CoversStay DEF Ledger
<1> QED BY <1>3, <1>4 DEF Ledger

(* What one preparation's change does to the sets that a day sums.         *)
LEMMA SetsFollow ==
    ASSUME NEW p \in Preparation, NEW row, prep'[p] = row,
           \A z \in Preparation \ {p} : prep'[z] = prep[z],
           NEW d, NEW statuses
    PROVE  PreparedOn(d, statuses)' = IF row.day = d /\ row.status \in statuses
                                      THEN PreparedOn(d, statuses) \cup {p}
                                      ELSE PreparedOn(d, statuses) \ {p}
<1>1. PreparedOn(d, statuses)' = {z \in Preparation : prep'[z].day = d /\ prep'[z].status \in statuses}
  BY DEF PreparedOn
<1> QED BY <1>1 DEF PreparedOn

(* A new reservation enters the day's ledger.                              *)
LEMMA LedgerGains ==
    ASSUME AiRowsOK, FinitelyMany, Ledger,
           NEW s \in Submission, NEW p \in Preparation, NEW row \in PrepRow, Enqueued(s, p, row)
    PROVE  Ledger'
<1>1. /\ prep'[p] = row /\ \A z \in Preparation \ {p} : prep'[z] = prep[z]
      /\ prep[p].status = "absent" /\ row.status = "queued" /\ row.day = today
      /\ row.reserved \in Nat /\ today \in Day
      /\ bucket \in [Day -> [used : Nat, reserved : Nat]]
      /\ bucket' = [bucket EXCEPT ![today].reserved = @ + row.reserved]
      /\ \E limit \in Covers :
            bucket[today].used + bucket[today].reserved + row.reserved <= Smaller(limit, HardDaily)
  <2>1. prep'[p] = row /\ \A z \in Preparation \ {p} : prep'[z] = prep[z]
    BY MoveTells DEF Enqueued
  <2>2. today \in Day /\ bucket \in [Day -> [used : Nat, reserved : Nat]]
    BY DEF AiRowsOK, AiTypeOK, AiStoreTypeOK
  <2>3. row.reserved \in Nat
    BY DEF PrepRow
  <2> QED BY <2>1, <2>2, <2>3 DEF Enqueued, Covers
<1>2. /\ ReservedBy'[p] = row.reserved
      /\ \A z \in Preparation \ {p} : /\ ReservedBy'[z] = ReservedBy[z]
                                      /\ UsedBy'[z] = UsedBy[z] /\ ExcessOf'[z] = ExcessOf[z]
  BY <1>1 DEF ReservedBy, UsedBy, ExcessOf
<1>3. SUFFICES ASSUME NEW d \in Day
      PROVE  /\ bucket'[d].reserved = SumFunctionOnSet(ReservedBy', PreparedOn(d, Holding)')
             /\ bucket'[d].used = SumFunctionOnSet(UsedBy', PreparedOn(d, Settled)')
             /\ \E limit \in Covers' :
                   bucket'[d].used + bucket'[d].reserved
                      <= Smaller(limit, HardDaily)
                           + SumFunctionOnSet(ExcessOf', PreparedOn(d, Settled)')
  BY DEF Ledger, LedgerBalances
<1> DEFINE H == PreparedOn(d, Holding)
           C == PreparedOn(d, Settled)
<1>4. /\ IsFiniteSet(H) /\ IsFiniteSet(C) /\ p \notin H /\ p \notin C
      /\ H \subseteq Preparation /\ C \subseteq Preparation
      /\ \A z \in H : ReservedBy[z] \in Nat
      /\ \A z \in C : ExcessOf[z] \in Nat
  BY <1>1, SumsAreDefined DEF PreparedOn, Holding, Settled
<1>5. C' = C /\ H' = IF d = today THEN H \cup {p} ELSE H
  <2>1. row.status \in Holding /\ row.status \notin Settled
    BY <1>1 DEF Holding, Settled
  <2>2. /\ C' = IF row.day = d /\ row.status \in Settled THEN C \cup {p} ELSE C \ {p}
        /\ H' = IF row.day = d /\ row.status \in Holding THEN H \cup {p} ELSE H \ {p}
    BY <1>1, SetsFollow
  <2> HIDE DEF H, C
  <2> QED BY <1>1, <1>4, <2>1, <2>2
<1>6. /\ bucket[d].reserved = SumFunctionOnSet(ReservedBy, H)
      /\ bucket[d].used = SumFunctionOnSet(UsedBy, C)
      /\ \E limit \in Covers :
            bucket[d].used + bucket[d].reserved
               <= Smaller(limit, HardDaily) + SumFunctionOnSet(ExcessOf, C)
      /\ Covers \subseteq Covers'
  <2>1. RowStep
    BY DEF RowStep
  <2> QED BY <2>1, CoversStay DEF Ledger, LedgerBalances
<1> HIDE DEF H, C
<1>7. /\ SumFunctionOnSet(UsedBy', C) = SumFunctionOnSet(UsedBy, C)
      /\ SumFunctionOnSet(ExcessOf', C) = SumFunctionOnSet(ExcessOf, C)
      /\ SumFunctionOnSet(ExcessOf, C) \in Nat
  <2>1. \A z \in C : UsedBy[z] = UsedBy'[z] /\ ExcessOf[z] = ExcessOf'[z]
    BY <1>2, <1>4
  <2> QED BY <1>4, <2>1, SameSum, SumIsNat
<1>8. CASE d # today
  <2>1. bucket'[d] = bucket[d] /\ H' = H
    BY <1>1, <1>5, <1>8
  <2>2. SumFunctionOnSet(ReservedBy', H) = SumFunctionOnSet(ReservedBy, H)
    <3>1. \A z \in H : ReservedBy[z] = ReservedBy'[z]
      BY <1>2, <1>4
    <3> QED BY <1>4, <3>1, SameSum
  <2> QED BY <1>5, <1>6, <1>7, <2>1, <2>2 DEF H, C
<1>9. CASE d = today
  <2>1. /\ bucket'[d].used = bucket[d].used
        /\ bucket'[d].reserved = bucket[d].reserved + row.reserved
        /\ bucket[d].used \in Nat /\ bucket[d].reserved \in Nat
    BY <1>1, <1>9
  <2>2. SumFunctionOnSet(ReservedBy', H \cup {p}) = SumFunctionOnSet(ReservedBy, H) + row.reserved
    <3>1. \A z \in H : ReservedBy[z] \in Nat /\ ReservedBy'[z] = ReservedBy[z]
      BY <1>2, <1>4
    <3> QED BY <1>1, <1>2, <1>4, <3>1, SumGains
  <2>3. \E limit \in Covers' :
           bucket'[d].used + bucket'[d].reserved
              <= Smaller(limit, HardDaily) + SumFunctionOnSet(ExcessOf, C)
    <3>1. PICK limit \in Covers :
             bucket[d].used + bucket[d].reserved + row.reserved <= Smaller(limit, HardDaily)
      BY <1>1, <1>9
    <3>2. bucket'[d].used + bucket'[d].reserved
             <= Smaller(limit, HardDaily) + SumFunctionOnSet(ExcessOf, C)
      BY <1>1, <1>7, <2>1, <3>1, CoverIsNat
    <3> QED BY <1>6, <3>2
  <2>4. H' = H \cup {p}
    BY <1>5, <1>9
  <2> QED BY <1>5, <1>6, <1>7, <2>1, <2>2, <2>3, <2>4 DEF H, C
<1> QED BY <1>8, <1>9

(* A settlement takes the reservation out of the ledger of the day it was  *)
(* made on, and enters what the provider reported.                         *)
LEMMA LedgerSettles ==
    ASSUME AiRowsOK, FinitelyMany, Ledger,
           NEW p \in Preparation, NEW status \in Settled, NEW used \in Nat, NEW e \in EventRow,
           ClosedAs(p, status, used, e)
    PROVE  Ledger'
<1> DEFINE row == [prep[p] EXCEPT !.status = status, !.used = used]
           day == prep[p].day
           amount == prep[p].reserved
<1>1. /\ prep \in [Preparation -> PrepRow] /\ prep[p] \in PrepRow
      /\ bucket \in [Day -> [used : Nat, reserved : Nat]]
  BY DEF AiRowsOK, AiTypeOK, AiStoreTypeOK
<1>2. /\ day \in Day /\ amount \in Nat
      /\ row.day = day /\ row.reserved = amount /\ row.used = used /\ row.status = status
  BY <1>1 DEF PrepRow
<1>3. prep'[p] = row /\ \A z \in Preparation \ {p} : prep'[z] = prep[z]
  BY MoveTells DEF ClosedAs
<1>4. /\ prep[p].status = "processing" /\ bucket[day].reserved >= amount
      /\ bucket' = [bucket EXCEPT ![day] = [used |-> @.used + used, reserved |-> @.reserved - amount]]
  BY DEF ClosedAs
<1>5. \A z \in Preparation \ {p} : /\ ReservedBy'[z] = ReservedBy[z]
                                   /\ UsedBy'[z] = UsedBy[z] /\ ExcessOf'[z] = ExcessOf[z]
  BY <1>3 DEF ReservedBy, UsedBy, ExcessOf
<1>6. /\ ReservedBy[p] = amount /\ UsedBy'[p] = used
      /\ ExcessOf'[p] = IF used > amount THEN used - amount ELSE 0
  <2> HIDE DEF row
  <2> QED BY <1>2, <1>3, AiNoneAssumption DEF ReservedBy, UsedBy, ExcessOf
<1> HIDE DEF row, day, amount
<1>7. SUFFICES ASSUME NEW d \in Day
      PROVE  /\ bucket'[d].reserved = SumFunctionOnSet(ReservedBy', PreparedOn(d, Holding)')
             /\ bucket'[d].used = SumFunctionOnSet(UsedBy', PreparedOn(d, Settled)')
             /\ \E limit \in Covers' :
                   bucket'[d].used + bucket'[d].reserved
                      <= Smaller(limit, HardDaily)
                           + SumFunctionOnSet(ExcessOf', PreparedOn(d, Settled)')
  BY DEF Ledger, LedgerBalances
<1> DEFINE H == PreparedOn(d, Holding)
           C == PreparedOn(d, Settled)
<1>8. /\ IsFiniteSet(H) /\ IsFiniteSet(C)
      /\ H \subseteq Preparation /\ C \subseteq Preparation
      /\ \A z \in H : ReservedBy[z] \in Nat
      /\ \A z \in C : UsedBy[z] \in Nat /\ ExcessOf[z] \in Nat
  BY SumsAreDefined DEF PreparedOn
<1>9. p \notin C /\ (p \in H <=> d = day)
  BY <1>4 DEF PreparedOn, Holding, Settled, day
<1>10. C' = (IF d = day THEN C \cup {p} ELSE C) /\ H' = H \ {p}
  <2>1. row.status \notin Holding /\ row.status \in Settled
    BY <1>2 DEF Holding, Settled
  <2>2. /\ C' = IF row.day = d /\ row.status \in Settled THEN C \cup {p} ELSE C \ {p}
        /\ H' = IF row.day = d /\ row.status \in Holding THEN H \cup {p} ELSE H \ {p}
    BY <1>3, SetsFollow
  <2> HIDE DEF H, C
  <2> QED BY <1>2, <1>9, <2>1, <2>2
<1>11. /\ bucket[d].reserved = SumFunctionOnSet(ReservedBy, H)
       /\ bucket[d].used = SumFunctionOnSet(UsedBy, C)
       /\ bucket[d].used \in Nat /\ bucket[d].reserved \in Nat
  BY <1>1 DEF Ledger, LedgerBalances
<1>12. \E limit \in Covers :
          bucket[d].used + bucket[d].reserved
             <= Smaller(limit, HardDaily) + SumFunctionOnSet(ExcessOf, C)
  BY DEF Ledger
<1>13. Covers \subseteq Covers'
  <2>1. RowStep
    BY DEF RowStep
  <2> QED BY <2>1, CoversStay
<1> HIDE DEF H, C
<1>14. SumFunctionOnSet(ExcessOf, C) \in Nat
  BY <1>8, SumIsNat
<1>15. /\ \A z \in C : UsedBy'[z] = UsedBy[z] /\ ExcessOf'[z] = ExcessOf[z]
       /\ \A z \in H \ {p} : ReservedBy'[z] = ReservedBy[z]
  BY <1>5, <1>8, <1>9
<1>16. CASE d # day
  <2>1. bucket'[d] = bucket[d] /\ C' = C /\ H' = H
    BY <1>1, <1>2, <1>4, <1>9, <1>10, <1>16
  <2>2. SumFunctionOnSet(ReservedBy', H) = SumFunctionOnSet(ReservedBy, H)
    <3>1. \A z \in H : ReservedBy[z] = ReservedBy'[z]
      BY <1>9, <1>15, <1>16
    <3> QED BY <1>8, <3>1, SameSum
  <2>3. /\ SumFunctionOnSet(UsedBy', C) = SumFunctionOnSet(UsedBy, C)
        /\ SumFunctionOnSet(ExcessOf', C) = SumFunctionOnSet(ExcessOf, C)
    <3>1. \A z \in C : UsedBy[z] = UsedBy'[z] /\ ExcessOf[z] = ExcessOf'[z]
      BY <1>15
    <3> QED BY <1>8, <3>1, SameSum
  <2> QED BY <1>11, <1>12, <1>13, <2>1, <2>2, <2>3 DEF H, C
<1>17. CASE d = day
  <2>1. /\ bucket'[d].used = bucket[d].used + used
        /\ bucket'[d].reserved = bucket[d].reserved - amount
        /\ bucket[d].reserved >= amount
    BY <1>1, <1>2, <1>4, <1>17
  <2>2. /\ SumFunctionOnSet(ReservedBy', H \ {p}) \in Nat
        /\ SumFunctionOnSet(ReservedBy, H) = SumFunctionOnSet(ReservedBy', H \ {p}) + amount
    <3>1. p \in H
      BY <1>9, <1>17
    <3>2. /\ \A z \in H : ReservedBy[z] \in Nat
          /\ \A z \in H \ {p} : ReservedBy'[z] = ReservedBy[z]
      BY <1>8, <1>15
    <3>3. /\ SumFunctionOnSet(ReservedBy', H \ {p}) \in Nat
          /\ SumFunctionOnSet(ReservedBy, H) = SumFunctionOnSet(ReservedBy', H \ {p}) + ReservedBy[p]
      BY <1>8, <3>1, <3>2, SumLoses
    <3> QED BY <1>6, <3>3
  <2>3. bucket'[d].reserved = SumFunctionOnSet(ReservedBy', H \ {p})
    BY <1>2, <1>11, <2>1, <2>2
  <2>4. SumFunctionOnSet(UsedBy', C \cup {p}) = SumFunctionOnSet(UsedBy, C) + used
    <3>1. \A z \in C : UsedBy[z] \in Nat /\ UsedBy'[z] = UsedBy[z]
      BY <1>8, <1>15
    <3>2. UsedBy'[p] \in Nat
      BY <1>6
    <3>3. SumFunctionOnSet(UsedBy', C \cup {p}) = SumFunctionOnSet(UsedBy, C) + UsedBy'[p]
      BY <1>8, <1>9, <3>1, <3>2, SumGains
    <3> QED BY <1>6, <3>3
  <2> DEFINE excess == IF used > amount THEN used - amount ELSE 0
  <2>5. SumFunctionOnSet(ExcessOf', C \cup {p}) = SumFunctionOnSet(ExcessOf, C) + excess
    <3>1. \A z \in C : ExcessOf[z] \in Nat /\ ExcessOf'[z] = ExcessOf[z]
      BY <1>8, <1>15
    <3>2. ExcessOf'[p] \in Nat
      BY <1>2, <1>6
    <3>3. SumFunctionOnSet(ExcessOf', C \cup {p}) = SumFunctionOnSet(ExcessOf, C) + ExcessOf'[p]
      BY <1>8, <1>9, <3>1, <3>2, SumGains
    <3> QED BY <1>6, <3>3
  <2>6. C' = C \cup {p} /\ H' = H \ {p}
    BY <1>10, <1>17
  <2>7. \E limit \in Covers' :
           bucket'[d].used + bucket'[d].reserved
              <= Smaller(limit, HardDaily) + (SumFunctionOnSet(ExcessOf, C) + excess)
    <3>1. PICK limit \in Covers :
             bucket[d].used + bucket[d].reserved
                <= Smaller(limit, HardDaily) + SumFunctionOnSet(ExcessOf, C)
      BY <1>12
    <3>2. bucket'[d].used + bucket'[d].reserved
             <= Smaller(limit, HardDaily) + (SumFunctionOnSet(ExcessOf, C) + excess)
      BY <1>2, <1>11, <1>14, <2>1, <3>1, CoverIsNat
    <3> QED BY <1>13, <3>2
  <2>8. bucket'[d].used = SumFunctionOnSet(UsedBy', C \cup {p})
    BY <1>11, <2>1, <2>4
  <2> HIDE DEF excess
  <2> QED BY <2>3, <2>5, <2>6, <2>7, <2>8 DEF H, C
<1> QED BY <1>16, <1>17

LEMMA LedgerStays ==
    ASSUME AiRowsOK, FinitelyMany, Ledger, RowStep
    PROVE  Ledger'
<1>1. prep \in [Preparation -> PrepRow]
  BY DEF AiRowsOK, AiTypeOK, AiStoreTypeOK
<1>2. CASE UNCHANGED <<prep, bucket>>
  BY <1>2, LedgerKept
<1>3. ASSUME NEW p \in Preparation, NEW status \in Holding, prep[p].status \in Holding,
             NEW e, NEW i, NEW type, Moves(p, [prep[p] EXCEPT !.status = status], e, i, type),
             UNCHANGED bucket
      PROVE  Ledger'
  <2> DEFINE row == [prep[p] EXCEPT !.status = status]
  <2>1. /\ row.status = status /\ row.day = prep[p].day
        /\ row.reserved = prep[p].reserved /\ row.used = prep[p].used
    BY <1>1 DEF PrepRow
  <2>2. prep'[p] = row /\ \A z \in Preparation \ {p} : prep'[z] = prep[z]
    BY <1>3, MoveTells
  <2>3. status \notin Settled /\ prep[p].status \notin Settled
    BY <1>3 DEF Holding, Settled
  <2> HIDE DEF row
  <2>4. \A z \in Preparation :
              /\ prep'[z].day = prep[z].day /\ prep'[z].reserved = prep[z].reserved
              /\ prep'[z].used = prep[z].used
              /\ prep'[z].status \in Holding <=> prep[z].status \in Holding
              /\ prep'[z].status \in Settled <=> prep[z].status \in Settled
    BY <1>3, <2>1, <2>2, <2>3
  <2> QED BY <1>3, <2>4, LedgerKept
<1>4. ASSUME NEW p \in Preparation, NEW e \in EventRow, Started(p, e) PROVE Ledger'
  <2>1. "processing" \in Holding /\ prep[p].status \in Holding
    BY <1>4 DEF Started, Holding
  <2> QED BY <1>3, <1>4, <2>1 DEF Started
<1>5. ASSUME NEW p \in Preparation, NEW e \in EventRow, GivenUp(p, e) PROVE Ledger'
  <2>1. "unknown" \in Holding /\ prep[p].status \in Holding
    BY <1>5 DEF GivenUp, Holding
  <2> QED BY <1>3, <1>5, <2>1 DEF GivenUp
<1>6. ASSUME NEW s \in Submission, NEW p \in Preparation, NEW row \in PrepRow, Enqueued(s, p, row)
      PROVE  Ledger'
  BY <1>6, LedgerGains
<1>7. ASSUME NEW p \in Preparation, NEW status \in Settled, NEW used \in Nat, NEW e \in EventRow,
             ClosedAs(p, status, used, e)
      PROVE  Ledger'
  BY <1>7, LedgerSettles
<1> QED BY <1>2, <1>4, <1>5, <1>6, <1>7 DEF RowStep, Quiet, LeaseLost, PolicyWritten, ByMail

LEMMA LedgerInit == Init => FinitelyMany /\ Ledger
<1> SUFFICES ASSUME Init PROVE FinitelyMany /\ Ledger
  OBVIOUS
<1>1. /\ \A p \in Preparation : prep[p].status = "absent"
      /\ \A d \in Day : bucket[d].used = 0 /\ bucket[d].reserved = 0
  BY DEF Init, AiStoreInit, NoPrep
<1>2. Existing = {}
  BY <1>1 DEF Existing
<1>3. \A d \in Day : PreparedOn(d, Holding) = {} /\ PreparedOn(d, Settled) = {}
  BY <1>1 DEF PreparedOn, Holding, Settled
<1>4. Ledger
  <2>1. ASSUME NEW d \in Day
        PROVE  /\ SumFunctionOnSet(ReservedBy, PreparedOn(d, Holding)) = 0
               /\ SumFunctionOnSet(UsedBy, PreparedOn(d, Settled)) = 0
               /\ SumFunctionOnSet(ExcessOf, PreparedOn(d, Settled)) = 0
    BY <1>3, EmptySum
  <2>2. LedgerBalances
    BY <1>1, <2>1 DEF LedgerBalances
  <2>3. 0 \in Covers /\ Smaller(0, HardDaily) = 0
    BY AiCapAssumption DEF Covers, Smaller
  <2> QED BY <1>1, <2>1, <2>2, <2>3 DEF Ledger
<1> QED BY <1>2, <1>4, FS_EmptySet DEF FinitelyMany

LEMMA LedgerAlways == Spec => []Ledger
<1>1. AiRowsOK /\ FinitelyMany /\ Ledger /\ [Next]_aiVars => (FinitelyMany /\ Ledger)'
  BY AiRowsStep, FinitelyManyStay, LedgerStays
<1> QED BY <1>1, LedgerInit, AiRowsAlways, PTL DEF Spec

(* The ledger balances every day: a bucket holds back exactly what its     *)
(* waiting, running and unknown preparations reserved, and counts exactly  *)
(* what the settled ones used, whatever handlers and workers interleave.   *)
THEOREM LedgerAlwaysBalances == Spec => []LedgerBalances
<1>1. Ledger => LedgerBalances
  BY DEF Ledger
<1> QED BY <1>1, LedgerAlways, PTL

(* No day ever takes more than some recorded version of the policy allowed *)
(* nor more than the deployment's cap, up to what the providers reported   *)
(* beyond their reservations.                                              *)
THEOREM SpendStaysWithinLimits == Spec => []SpendWithinLimits
<1>1. Ledger => SpendWithinLimits
  BY DEF Ledger, Covers, SpendWithinLimits
<1> QED BY <1>1, LedgerAlways, PTL
===============================================================================
