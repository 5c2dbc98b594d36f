------------------------- MODULE PaymentEffectProofs -------------------------
(***************************************************************************)
(* Proofs about PaymentEffect for every set of records, handlers and       *)
(* products, every window and every number of faults.                      *)
(*                                                                         *)
(* BoundedRepeats is not inductive: a delivery that is still to come has   *)
(* to be paid for beforehand.  Budget counts what a record may still be    *)
(* delivered (the workers about to, and the claim somebody could take),    *)
(* and Covered says that an unmarked delivery has either lapsed or a       *)
(* worker that is about to mark it.                                        *)
(***************************************************************************)
EXTENDS PaymentEffect, FiniteSetTheorems, TLAPS

(* The claim of r could be taken now. *)
Open(r) == IF ~applied[r] /\ claim[r] # "fresh" THEN 1 ELSE 0

Budget ==
    \A r \in Records \ Keyed :
        performed[r] + Cardinality(Pending(r)) + Open(r) <= 1 + lapses[r]

Covered ==
    \A r \in Records \ Keyed :
        ~applied[r] => performed[r] <= lapses[r] + Cardinality(Marking(r))

KeyedOnce == \A r \in Keyed : performed[r] <= 1

(* Behind every marker, set or about to be set, is a committed effect. *)
Delivered ==
    /\ \A r \in Records : applied[r] => performed[r] >= 1
    /\ \A w \in Workers : pc[w] \in {"mark", "seal"} => performed[rec[w]] >= 1

(* Behind every finance marker, set or about to be set, is an entry.        *)
Entered ==
    /\ \A r \in Records : synced[r] => entries[r] >= 1
    /\ \A w \in Workers :
          \/ pc[w] = "finMark"
          \/ pc[w] = "finWrite" /\ saw[w] # 0
          => entries[rec[w]] >= 1

RepeatInv == TypeOK /\ Budget /\ Covered /\ KeyedOnce

-----------------------------------------------------------------------------
(* The variables keep their types through every step of every worker. *)
LEMMA TypeStep == TypeOK /\ [Next]_vars => TypeOK'
<1> SUFFICES ASSUME TypeOK, [Next]_vars PROVE TypeOK'
  OBVIOUS
<1> USE DEF TypeOK, Goto, Take, Fault, Lapse, record, Steps
<1>1. CASE UNCHANGED vars
  BY <1>1 DEF vars
<1>2. ASSUME NEW r \in Records, Confirm(r) PROVE TypeOK'
  BY <1>2 DEF Confirm
<1>3. ASSUME NEW r \in Records, ClaimAges(r) PROVE TypeOK'
  BY <1>3 DEF ClaimAges
<1>4. ASSUME NEW w \in Workers, Perform(w) PROVE TypeOK'
  BY <1>4 DEF Perform, Deliver, PerformedOnce
<1>5. ASSUME NEW w \in Workers, Mark(w) PROVE TypeOK'
  BY <1>5 DEF Mark, SetApplied
<1>6. ASSUME NEW w \in Workers, Seal(w) PROVE TypeOK'
  BY <1>6 DEF Seal, SetApplied
<1>7. ASSUME NEW w \in Workers, Release(w) PROVE TypeOK'
  BY <1>7 DEF Release
<1>8. ASSUME NEW w \in Workers, NEW state \in {"success", "failed"},
             RecordAccess(w, state), faults' \in Nat
      PROVE  TypeOK'
  <2>1. access' \in [Records -> {"unset", "success", "failed"}]
    BY <1>8 DEF RecordAccess
  <2>2. QED
    BY <1>8, <2>1 DEF RecordAccess
<1>9. ASSUME NEW w \in Workers, FinanceWrite(w) PROVE TypeOK'
  BY <1>9 DEF FinanceWrite
<1>10. ASSUME NEW w \in Workers, FinanceMark(w) PROVE TypeOK'
  BY <1>10 DEF FinanceMark
<1>11. ASSUME NEW w \in Workers, PerformFails(w) PROVE TypeOK'
  BY <1>11 DEF PerformFails
<1>12. ASSUME NEW w \in Workers, PerformThenRaise(w) PROVE TypeOK'
  BY <1>12 DEF PerformThenRaise, Deliver, PerformedOnce
<1>13. ASSUME NEW w \in Workers, MarkFails(w) PROVE TypeOK'
  BY <1>13 DEF MarkFails
<1>14. ASSUME NEW w \in Workers, SealFails(w) PROVE TypeOK'
  BY <1>14 DEF SealFails
<1>15. ASSUME NEW w \in Workers, Crash(w) PROVE TypeOK'
  <2>1. rec[w] \in Records
    BY <1>15 DEF Crash
  <2>2. lapses' \in [Records -> Nat]
    <3>1. CASE pc[w] \in {"mark", "seal"}
      <4>1. lapses' = [lapses EXCEPT ![rec[w]] = @ + 1]
        BY <1>15, <3>1 DEF Crash
      <4>2. QED
        BY <2>1, <4>1
    <3>2. CASE pc[w] \notin {"mark", "seal"}
      BY <1>15, <3>2 DEF Crash
    <3>3. QED
      BY <3>1, <3>2
  <2>3. QED
    BY <1>15, <2>2 DEF Crash
<1>16. ASSUME NEW w \in Workers, NEW r \in Records, Claim(w, r) PROVE TypeOK'
  BY <1>16 DEF Claim, Visits
<1>17. ASSUME NEW w \in Workers, NEW r \in Records, FetchGift(w, r) PROVE TypeOK'
  BY <1>17 DEF FetchGift, Deliver, PerformedOnce
<1>18. ASSUME NEW w \in Workers, NEW r \in Records, AccessVisit(w, r) PROVE TypeOK'
  BY <1>18 DEF AccessVisit
<1>19. ASSUME NEW w \in Workers, NEW r \in Records, FinanceVisit(w, r) PROVE TypeOK'
  BY <1>19 DEF FinanceVisit
<1>20. ASSUME NEW w \in Workers, SyncAccess(w) \/ SyncAccessFails(w) PROVE TypeOK'
  BY <1>8, <1>20 DEF SyncAccess, SyncAccessFails
<1>21. QED
  BY <1>1, <1>2, <1>3, <1>4, <1>5, <1>6, <1>7, <1>9, <1>10, <1>11,
     <1>12, <1>13, <1>14, <1>15, <1>16, <1>17, <1>18, <1>19, <1>20
     DEF Next, Advance, Failure, Visit

(* Type correctness: whatever the interleaving of finalizers, crashes and   *)
(* reconcile passes, every column and every worker's local state is typed.  *)
THEOREM TypeCorrect == Spec => []TypeOK
<1>1. Init => TypeOK
  BY DEF Init, TypeOK, Steps
<1>2. QED
  BY <1>1, TypeStep, PTL DEF Spec

-----------------------------------------------------------------------------
(* Money behind the markers: Delivered is inductive next to TypeOK. *)
LEMMA DeliveredStep == TypeOK /\ Delivered /\ [Next]_vars => Delivered'
<1> SUFFICES ASSUME TypeOK, Delivered, [Next]_vars PROVE Delivered'
  OBVIOUS
<1> USE DEF TypeOK, Delivered, Goto, Take, Lapse, record
<1>1. CASE UNCHANGED vars
  BY <1>1 DEF vars
<1>2. ASSUME NEW r \in Records, Confirm(r) \/ ClaimAges(r) PROVE Delivered'
  BY <1>2 DEF Confirm, ClaimAges
<1>3. ASSUME NEW w \in Workers, Perform(w) PROVE Delivered'
  <2>1. rec[w] \in Records /\ performed'[rec[w]] >= 1
    BY <1>3 DEF Perform, Deliver, PerformedOnce
  <2>2. \A r \in Records : performed[r] >= 1 => performed'[r] >= 1
    BY <1>3 DEF Perform, Deliver, PerformedOnce
  <2>3. QED
    BY <1>3, <2>1, <2>2 DEF Perform
<1>4. ASSUME NEW w \in Workers, Mark(w) \/ Seal(w) PROVE Delivered'
  <2>1. rec[w] \in Records /\ performed[rec[w]] >= 1
    BY <1>4 DEF Mark, Seal
  <2>2. QED
    BY <1>4, <2>1 DEF Mark, Seal, SetApplied
<1>5. ASSUME NEW w \in Workers, Release(w) PROVE Delivered'
  BY <1>5 DEF Release
<1>6. ASSUME NEW w \in Workers, SyncAccess(w) \/ SyncAccessFails(w) PROVE Delivered'
  BY <1>6 DEF SyncAccess, SyncAccessFails, RecordAccess
<1>7. ASSUME NEW w \in Workers, FinanceWrite(w) \/ FinanceMark(w) PROVE Delivered'
  BY <1>7 DEF FinanceWrite, FinanceMark
<1>8. ASSUME NEW w \in Workers, PerformFails(w) \/ MarkFails(w) PROVE Delivered'
  BY <1>8 DEF PerformFails, MarkFails
<1>9. ASSUME NEW w \in Workers, PerformThenRaise(w) PROVE Delivered'
  <2>1. \A r \in Records : performed[r] >= 1 => performed'[r] >= 1
    BY <1>9 DEF PerformThenRaise, Deliver, PerformedOnce
  <2>2. QED
    BY <1>9, <2>1 DEF PerformThenRaise
<1>10. ASSUME NEW w \in Workers, SealFails(w) \/ Crash(w) PROVE Delivered'
  BY <1>10 DEF SealFails, Crash
<1>11. ASSUME NEW w \in Workers, NEW r \in Records, Claim(w, r) PROVE Delivered'
  BY <1>11 DEF Claim, Visits
<1>12. ASSUME NEW w \in Workers, NEW r \in Records, FetchGift(w, r) PROVE Delivered'
  <2>1. \A q \in Records : performed[q] >= 1 => performed'[q] >= 1
    BY <1>12 DEF FetchGift, Deliver, PerformedOnce
  <2>2. QED
    BY <1>12, <2>1 DEF FetchGift
<1>13. ASSUME NEW w \in Workers, NEW r \in Records, AccessVisit(w, r) PROVE Delivered'
  BY <1>13 DEF AccessVisit
<1>14. ASSUME NEW w \in Workers, NEW r \in Records, FinanceVisit(w, r) PROVE Delivered'
  BY <1>14 DEF FinanceVisit
<1>15. QED
  BY <1>1, <1>2, <1>3, <1>4, <1>5, <1>6, <1>7, <1>8, <1>9, <1>10, <1>11,
     <1>12, <1>13, <1>14 DEF Next, Advance, Failure, Visit

(* No interleaving of failing, crashing and sealing finalizers marks a      *)
(* record applied whose effect never committed.                             *)
THEOREM AppliedIsDelivered == Spec => []AppliedMeansDelivered
<1>1. Init => TypeOK /\ Delivered
  BY DEF Init, TypeOK, Steps, Delivered
<1>2. TypeOK /\ Delivered /\ [Next]_vars => (TypeOK /\ Delivered)'
  BY TypeStep, DeliveredStep
<1>3. Delivered => AppliedMeansDelivered
  BY DEF Delivered, AppliedMeansDelivered
<1>4. QED
  BY <1>1, <1>2, <1>3, PTL DEF Spec

(* Income behind the finance marker, by the same argument. *)
LEMMA EnteredStep == TypeOK /\ Entered /\ [Next]_vars => Entered'
<1> SUFFICES ASSUME TypeOK, Entered, [Next]_vars PROVE Entered'
  OBVIOUS
<1> USE DEF TypeOK, Entered, Goto, Take, record
<1>1. CASE UNCHANGED vars
  BY <1>1 DEF vars
<1>2. ASSUME NEW r \in Records, Confirm(r) \/ ClaimAges(r) PROVE Entered'
  BY <1>2 DEF Confirm, ClaimAges
<1>3. ASSUME NEW w \in Workers, Perform(w) \/ Release(w) PROVE Entered'
  BY <1>3 DEF Perform, Release
<1>4. ASSUME NEW w \in Workers, Mark(w) \/ Seal(w) PROVE Entered'
  BY <1>4 DEF Mark, Seal, SetApplied
<1>5. ASSUME NEW w \in Workers, SyncAccess(w) \/ SyncAccessFails(w) PROVE Entered'
  BY <1>5 DEF SyncAccess, SyncAccessFails, RecordAccess
<1>6. ASSUME NEW w \in Workers, FinanceWrite(w) PROVE Entered'
  <2>1. rec[w] \in Records /\ entries'[rec[w]] >= 1
    BY <1>6 DEF FinanceWrite
  <2>2. \A r \in Records : entries[r] >= 1 => entries'[r] >= 1
    BY <1>6 DEF FinanceWrite
  <2>3. QED
    BY <1>6, <2>1, <2>2 DEF FinanceWrite
<1>7. ASSUME NEW w \in Workers, FinanceMark(w) PROVE Entered'
  BY <1>7 DEF FinanceMark
<1>8. ASSUME NEW w \in Workers, PerformFails(w) \/ PerformThenRaise(w) PROVE Entered'
  BY <1>8 DEF PerformFails, PerformThenRaise
<1>9. ASSUME NEW w \in Workers, MarkFails(w) \/ SealFails(w) \/ Crash(w) PROVE Entered'
  BY <1>9 DEF MarkFails, SealFails, Crash
<1>10. ASSUME NEW w \in Workers, NEW r \in Records, Claim(w, r) \/ FetchGift(w, r)
       PROVE  Entered'
  BY <1>10 DEF Claim, FetchGift
<1>11. ASSUME NEW w \in Workers, NEW r \in Records, AccessVisit(w, r) PROVE Entered'
  BY <1>11 DEF AccessVisit
<1>12. ASSUME NEW w \in Workers, NEW r \in Records, FinanceVisit(w, r) PROVE Entered'
  <2>1. saw'[w] # 0 => entries[r] >= 1
    BY <1>12 DEF FinanceVisit
  <2>2. QED
    BY <1>12, <2>1 DEF FinanceVisit
<1>13. QED
  BY <1>1, <1>2, <1>3, <1>4, <1>5, <1>6, <1>7, <1>8, <1>9, <1>10, <1>11,
     <1>12 DEF Next, Advance, Failure, Visit

(* A record marked as synced with the finance ledger has an entry in it,    *)
(* whoever else was syncing it and whoever died on the way.                 *)
THEOREM SyncedIsEntered == Spec => []SyncedMeansEntered
<1>1. Init => TypeOK /\ Entered
  BY DEF Init, TypeOK, Steps, Entered
<1>2. TypeOK /\ Entered /\ [Next]_vars => (TypeOK /\ Entered)'
  BY TypeStep, EnteredStep
<1>3. Entered => SyncedMeansEntered
  BY DEF Entered, SyncedMeansEntered
<1>4. QED
  BY <1>1, <1>2, <1>3, PTL DEF Spec

-----------------------------------------------------------------------------
(* Counting the workers that hold a record. *)
Holds(w, r) == IF w \in Pending(r) THEN 1 ELSE 0
Marks(w, r) == IF w \in Marking(r) THEN 1 ELSE 0
OnlyMoves(w) ==
    \A v \in Workers \ {w} : pc'[v] = pc[v] /\ rec'[v] = rec[v]

(* Two finite sets that agree except on x differ in size by x's share. *)
LEMMA CountOne ==
    ASSUME NEW S, NEW T, NEW x, IsFiniteSet(S), S \ {x} = T \ {x}
    PROVE  /\ IsFiniteSet(T)
           /\ Cardinality(S) \in Nat /\ Cardinality(T) \in Nat
           /\ Cardinality(T) = Cardinality(S) - (IF x \in S THEN 1 ELSE 0)
                                             + (IF x \in T THEN 1 ELSE 0)
<1>1. Cardinality(S) \in Nat
  BY FS_CardinalityType
<1>2. CASE x \in S /\ x \notin T
  <2>1. T = S \ {x}
    BY <1>2
  <2>2. QED
    BY <1>1, <1>2, <2>1, FS_RemoveElement, FS_CardinalityType
<1>3. CASE x \notin S /\ x \in T
  <2>1. T = S \union {x}
    BY <1>3
  <2>2. QED
    BY <1>1, <1>3, <2>1, FS_AddElement, FS_CardinalityType
<1>4. CASE x \in S <=> x \in T
  <2>1. S = T
    BY <1>4
  <2>2. QED
    BY <1>1, <2>1
<1>5. QED
  BY <1>2, <1>3, <1>4

LEMMA HoldersFinite ==
    \A r : /\ IsFiniteSet(Pending(r)) /\ Cardinality(Pending(r)) \in Nat
          /\ IsFiniteSet(Marking(r)) /\ Cardinality(Marking(r)) \in Nat
<1>1. IsFiniteSet(Workers)
  BY WorkerAssumption, FS_AddElement DEF Workers
<1>2. ASSUME NEW r PROVE Pending(r) \subseteq Workers /\ Marking(r) \subseteq Workers
  BY DEF Pending, Marking
<1>3. QED
  BY <1>1, <1>2, FS_Subset, FS_CardinalityType

(* A step of one worker changes the two counts by what that worker did. *)
LEMMA CountStep ==
    ASSUME NEW w \in Workers, OnlyMoves(w), NEW r
    PROVE  /\ Cardinality(Pending(r)') =
                Cardinality(Pending(r)) - Holds(w, r) + Holds(w, r)'
           /\ Cardinality(Marking(r)') =
                Cardinality(Marking(r)) - Marks(w, r) + Marks(w, r)'
           /\ Cardinality(Pending(r)) \in Nat /\ Cardinality(Pending(r)') \in Nat
           /\ Cardinality(Marking(r)) \in Nat /\ Cardinality(Marking(r)') \in Nat
<1>1. Pending(r) \ {w} = Pending(r)' \ {w}
  BY DEF Pending, OnlyMoves
<1>2. Marking(r) \ {w} = Marking(r)' \ {w}
  BY DEF Marking, OnlyMoves
<1>3. QED
  BY <1>1, <1>2, HoldersFinite, CountOne DEF Holds, Marks

(* What Budget and Covered say of one record. *)
Paid(r) ==
    /\ performed[r] + Cardinality(Pending(r)) + Open(r) <= 1 + lapses[r]
    /\ ~applied[r] => performed[r] <= lapses[r] + Cardinality(Marking(r))

LEMMA PaidStep ==
    ASSUME TypeOK, [Next]_vars, NEW r \in Records \ Keyed, Paid(r)
    PROVE  Paid(r)'
<1> USE DEF TypeOK, Paid, Open, Goto, Take, record
<1>0. /\ performed[r] \in Nat /\ lapses[r] \in Nat
      /\ Cardinality(Pending(r)) \in Nat /\ Cardinality(Marking(r)) \in Nat
  BY HoldersFinite
<1>1. CASE UNCHANGED vars
  BY <1>1 DEF vars, Pending, Marking
<1>2. ASSUME UNCHANGED <<pc, rec>>
      PROVE  Pending(r)' = Pending(r) /\ Marking(r)' = Marking(r)
  BY <1>2 DEF Pending, Marking
<1>3. ASSUME NEW q \in Records, Confirm(q) PROVE Paid(r)'
  BY <1>0, <1>2, <1>3 DEF Confirm
<1>4. ASSUME NEW q \in Records, ClaimAges(q) PROVE Paid(r)'
  <2>1. CASE q = r /\ Pending(r) \union Marking(r) = {}
    <3>1. Cardinality(Pending(r)) = 0 /\ Cardinality(Marking(r)) = 0
      BY <2>1, FS_EmptySet, HoldersFinite
    <3>2. UNCHANGED <<pc, rec, performed, applied, lapses>>
      BY <1>4, <2>1 DEF ClaimAges
    <3>3. QED
      BY <1>0, <1>2, <3>1, <3>2
  <2>2. CASE q = r /\ Pending(r) \union Marking(r) # {}
    <3>1. UNCHANGED <<pc, rec, performed, applied>> /\ lapses'[r] = lapses[r] + 1
      BY <1>4, <2>2 DEF ClaimAges, Lapse
    <3>2. Open(r) = 0 /\ Open(r)' \in {0, 1}
      BY <1>4, <2>2 DEF ClaimAges
    <3>3. QED
      BY <1>0, <1>2, <3>1, <3>2
  <2>3. CASE q # r
    <3>1. /\ UNCHANGED <<pc, rec, performed, applied>>
          /\ lapses'[r] = lapses[r] /\ claim'[r] = claim[r]
      BY <1>4, <2>3 DEF ClaimAges, Lapse
    <3>2. QED
      BY <1>0, <1>2, <3>1
  <2>4. QED
    BY <2>1, <2>2, <2>3
<1>5. ASSUME NEW w \in Workers, Perform(w) PROVE Paid(r)'
  <2>1. OnlyMoves(w)
    BY <1>5 DEF Perform, OnlyMoves
  <2>2. Marks(w, r) = 0 /\ Holds(w, r)' = 0 /\ Marks(w, r)' = Holds(w, r)
    BY <1>5 DEF Perform, Holds, Marks, Pending, Marking
  <2>3. performed'[r] = performed[r] + Holds(w, r) /\ Holds(w, r) \in {0, 1}
    BY <1>5 DEF Perform, Deliver, PerformedOnce, Holds, Pending
  <2>4. UNCHANGED <<applied, claim, lapses>>
    BY <1>5 DEF Perform
  <2>5. QED
    BY <1>0, <2>1, <2>2, <2>3, <2>4, CountStep, SMTT(40)
<1>6. ASSUME NEW w \in Workers, Mark(w) \/ Seal(w) PROVE Paid(r)'
  <2>1. OnlyMoves(w)
    BY <1>6 DEF Mark, Seal, OnlyMoves
  <2>2. /\ Holds(w, r) = 0 /\ Holds(w, r)' = 0
        /\ Marks(w, r) = (IF rec[w] = r THEN 1 ELSE 0) /\ Marks(w, r)' = 0
    BY <1>6 DEF Mark, Seal, Holds, Marks, Pending, Marking
  <2>3. /\ UNCHANGED <<performed, lapses>>
        /\ rec[w] = r => applied'[r]
        /\ rec[w] # r => applied'[r] = applied[r] /\ claim'[r] = claim[r]
    BY <1>6 DEF Mark, Seal, SetApplied
  <2>4. QED
    BY <1>0, <2>1, <2>2, <2>3, CountStep, SMTT(40)
<1>7. ASSUME NEW w \in Workers, Release(w) PROVE Paid(r)'
  <2>1. OnlyMoves(w)
    BY <1>7 DEF Release, OnlyMoves
  <2>2. /\ Holds(w, r) = (IF rec[w] = r THEN 1 ELSE 0) /\ Holds(w, r)' = 0
        /\ Marks(w, r) = 0 /\ Marks(w, r)' = 0
    BY <1>7 DEF Release, Holds, Marks, Pending, Marking
  <2>3. /\ UNCHANGED <<performed, lapses, applied>>
        /\ rec[w] # r => claim'[r] = claim[r]
    BY <1>7 DEF Release
  <2>4. QED
    BY <1>0, <2>1, <2>2, <2>3, CountStep, SMTT(40)
<1>8. ASSUME NEW w \in Workers, PerformFails(w) PROVE Paid(r)'
  <2>1. OnlyMoves(w)
    BY <1>8 DEF PerformFails, OnlyMoves
  <2>2. /\ Holds(w, r)' = Holds(w, r) /\ Holds(w, r) \in {0, 1}
        /\ Marks(w, r) = 0 /\ Marks(w, r)' = 0
    BY <1>8 DEF PerformFails, Holds, Marks, Pending, Marking
  <2>3. UNCHANGED <<performed, lapses, applied, claim>>
    BY <1>8 DEF PerformFails
  <2>4. QED
    BY <1>0, <2>1, <2>2, <2>3, CountStep, SMTT(40)
<1>9. ASSUME NEW w \in Workers, PerformThenRaise(w) PROVE Paid(r)'
  <2>1. OnlyMoves(w)
    BY <1>9 DEF PerformThenRaise, OnlyMoves
  <2>2. /\ Holds(w, r)' = Holds(w, r)
        /\ Holds(w, r) = (IF rec[w] = r THEN 1 ELSE 0)
        /\ Marks(w, r) = 0 /\ Marks(w, r)' = 0
    BY <1>9 DEF PerformThenRaise, Holds, Marks, Pending, Marking
  <2>3. /\ performed'[r] = performed[r] + Holds(w, r)
        /\ lapses'[r] = lapses[r] + Holds(w, r)
    BY <1>9, <2>2 DEF PerformThenRaise, Deliver, PerformedOnce, Lapse
  <2>4. Open(r)' = Open(r) /\ Open(r) \in {0, 1} /\ applied' = applied
    BY <1>9 DEF PerformThenRaise
  <2>5. Holds(w, r) \in {0, 1}
    BY <2>2
  <2>6. /\ Cardinality(Pending(r)') = Cardinality(Pending(r))
        /\ Cardinality(Marking(r)') = Cardinality(Marking(r))
    BY <1>0, <2>1, <2>2, <2>5, CountStep, SMTT(40)
  <2>7. QED
    BY <1>0, <2>3, <2>4, <2>5, <2>6, SMTT(40) DEF Paid
<1>10. ASSUME NEW w \in Workers, MarkFails(w) PROVE Paid(r)'
  <2>1. OnlyMoves(w)
    BY <1>10 DEF MarkFails, OnlyMoves
  <2>2. rec[w] = r => r \notin Gift
    BY ProductAssumption
  <2>3. /\ Holds(w, r) = 0 /\ Holds(w, r)' = 0
        /\ Marks(w, r)' = Marks(w, r) /\ Marks(w, r) \in {0, 1}
    BY <1>10, <2>2 DEF MarkFails, Holds, Marks, Pending, Marking
  <2>4. UNCHANGED <<performed, lapses, applied, claim>>
    BY <1>10 DEF MarkFails
  <2>5. QED
    BY <1>0, <2>1, <2>3, <2>4, CountStep, SMTT(40)
<1>11. ASSUME NEW w \in Workers, SealFails(w) \/ Crash(w) PROVE Paid(r)'
  <2>1. OnlyMoves(w)
    BY <1>11 DEF SealFails, Crash, OnlyMoves
  <2>2. /\ Holds(w, r) \in {0, 1} /\ Holds(w, r)' = 0
        /\ Marks(w, r) \in {0, 1} /\ Marks(w, r)' = 0
    BY <1>11 DEF SealFails, Crash, Holds, Marks, Pending, Marking
  <2>3. /\ Open(r)' = Open(r) /\ Open(r) \in {0, 1}
        /\ UNCHANGED <<performed, applied>>
    BY <1>11 DEF SealFails, Crash
  <2>4. lapses'[r] \in Nat /\ lapses'[r] = lapses[r] + Marks(w, r)
    <3>1. CASE pc[w] \in {"mark", "seal"}
      <4>1. lapses' = [lapses EXCEPT ![rec[w]] = @ + 1] /\ rec[w] \in Records
        BY <1>11, <3>1 DEF SealFails, Crash, Lapse
      <4>2. Marks(w, r) = IF rec[w] = r THEN 1 ELSE 0
        BY <3>1 DEF Marks, Marking
      <4>3. QED
        BY <1>0, <4>1, <4>2
    <3>2. CASE pc[w] \notin {"mark", "seal"}
      BY <1>0, <1>11, <3>2 DEF SealFails, Crash, Marks, Marking
    <3>3. QED
      BY <3>1, <3>2
  <2>5. /\ Cardinality(Pending(r)') <= Cardinality(Pending(r))
        /\ Cardinality(Marking(r)') = Cardinality(Marking(r)) - Marks(w, r)
        /\ Cardinality(Pending(r)') \in Nat /\ Cardinality(Marking(r)') \in Nat
    BY <1>0, <2>1, <2>2, CountStep, SMTT(40)
  <2>6. performed'[r] + Cardinality(Pending(r)') + Open(r)' <= 1 + lapses'[r]
    BY <1>0, <2>2, <2>3, <2>4, <2>5, SMTT(40)
  <2>7. ~applied'[r] => performed'[r] <= lapses'[r] + Cardinality(Marking(r)')
    BY <1>0, <2>2, <2>3, <2>4, <2>5, SMTT(40)
  <2>8. QED
    BY <2>6, <2>7
<1>12. ASSUME NEW w \in Workers, SyncAccess(w) \/ SyncAccessFails(w) PROVE Paid(r)'
  <2>1. OnlyMoves(w) /\ UNCHANGED <<performed, lapses, applied, claim>>
    BY <1>12 DEF SyncAccess, SyncAccessFails, RecordAccess, OnlyMoves
  <2>2. Holds(w, r) = 0 /\ Holds(w, r)' = 0 /\ Marks(w, r) = 0 /\ Marks(w, r)' = 0
    BY <1>12 DEF SyncAccess, SyncAccessFails, RecordAccess,
                 Holds, Marks, Pending, Marking
  <2>3. QED
    BY <1>0, <2>1, <2>2, CountStep, SMTT(40)
<1>13. ASSUME NEW w \in Workers, FinanceWrite(w) \/ FinanceMark(w) PROVE Paid(r)'
  <2>1. OnlyMoves(w) /\ UNCHANGED <<performed, lapses, applied, claim>>
    BY <1>13 DEF FinanceWrite, FinanceMark, OnlyMoves
  <2>2. Holds(w, r) = 0 /\ Holds(w, r)' = 0 /\ Marks(w, r) = 0 /\ Marks(w, r)' = 0
    BY <1>13 DEF FinanceWrite, FinanceMark, Holds, Marks, Pending, Marking
  <2>3. QED
    BY <1>0, <2>1, <2>2, CountStep, SMTT(40)
<1>14. ASSUME NEW w \in Workers, NEW q \in Records, Claim(w, q) PROVE Paid(r)'
  <2>1. OnlyMoves(w) /\ UNCHANGED <<performed, lapses, applied>>
    BY <1>14 DEF Claim, OnlyMoves
  <2>2. /\ Holds(w, r) = 0 /\ Holds(w, r)' = (IF q = r THEN 1 ELSE 0)
        /\ Marks(w, r) = 0 /\ Marks(w, r)' = 0
    BY <1>14 DEF Claim, Visits, Holds, Marks, Pending, Marking
  <2>3. /\ q = r => Open(r) = 1 /\ Open(r)' = 0
        /\ q # r => claim'[r] = claim[r]
    BY <1>14 DEF Claim, Claimable
  <2>4. QED
    BY <1>0, <2>1, <2>2, <2>3, CountStep, SMTT(40)
<1>15. ASSUME NEW w \in Workers, NEW q \in Records, FetchGift(w, q) PROVE Paid(r)'
  <2>1. q # r
    BY <1>15, ProductAssumption DEF FetchGift
  <2>2. UNCHANGED <<pc, rec, lapses, applied, claim>> /\ performed'[r] = performed[r]
    BY <1>15, <2>1 DEF FetchGift, Deliver
  <2>3. QED
    BY <1>0, <1>2, <2>2
<1>16. ASSUME NEW w \in Workers, NEW q \in Records,
              AccessVisit(w, q) \/ FinanceVisit(w, q)
       PROVE  Paid(r)'
  <2>1. OnlyMoves(w) /\ UNCHANGED <<performed, lapses, applied, claim>>
    BY <1>16 DEF AccessVisit, FinanceVisit, OnlyMoves
  <2>2. Holds(w, r) = 0 /\ Holds(w, r)' = 0 /\ Marks(w, r) = 0 /\ Marks(w, r)' = 0
    BY <1>16 DEF AccessVisit, FinanceVisit, Visits, Holds, Marks, Pending, Marking
  <2>3. QED
    BY <1>0, <2>1, <2>2, CountStep, SMTT(40)
<1>17. QED
  BY <1>1, <1>3, <1>4, <1>5, <1>6, <1>7, <1>8, <1>9, <1>10, <1>11, <1>12,
     <1>13, <1>14, <1>15, <1>16 DEF Next, Advance, Failure, Visit

(* One row per payment_record_id: delivering again finds the row. *)
LEMMA KeyedStep == TypeOK /\ KeyedOnce /\ [Next]_vars => KeyedOnce'
<1> SUFFICES ASSUME TypeOK, [Next]_vars, NEW r \in Keyed, performed[r] <= 1
             PROVE  performed'[r] <= 1
  BY DEF KeyedOnce
<1> USE DEF TypeOK, record
<1>0. r \in Records
  BY ProductAssumption
<1>1. ASSUME NEW q, Deliver(q) PROVE performed'[r] <= 1
  BY <1>0, <1>1 DEF Deliver, PerformedOnce
<1>2. ASSUME UNCHANGED performed PROVE performed'[r] <= 1
  BY <1>2
<1>3. \/ UNCHANGED performed
      \/ \E q : Deliver(q)
  BY DEF Next, vars, Advance, Failure, Visit, Confirm, ClaimAges, Perform, Mark,
         Seal, SetApplied, Release, SyncAccess, SyncAccessFails, RecordAccess,
         FinanceWrite, FinanceMark, PerformFails, PerformThenRaise, MarkFails,
         SealFails, Crash, Claim, FetchGift, AccessVisit, FinanceVisit
<1>4. QED
  BY <1>1, <1>2, <1>3

LEMMA RepeatInvariant == Spec => []RepeatInv
<1>1. Init => RepeatInv
  <2>1. ASSUME Init, NEW r PROVE Pending(r) = {} /\ Marking(r) = {}
    BY <2>1 DEF Init, Pending, Marking
  <2>2. ASSUME Init, NEW r
        PROVE  Cardinality(Pending(r)) = 0 /\ Cardinality(Marking(r)) = 0
    BY <2>1, <2>2, FS_EmptySet
  <2>3. Init => Budget /\ Covered
    BY <2>2 DEF Init, Budget, Open, Covered
  <2>4. Init => TypeOK /\ KeyedOnce
    BY ProductAssumption DEF Init, TypeOK, Steps, KeyedOnce
  <2>5. QED
    BY <2>3, <2>4 DEF RepeatInv
<1>2. RepeatInv /\ [Next]_vars => RepeatInv'
  <2>1. \A r : Paid(r) <=>
          /\ performed[r] + Cardinality(Pending(r)) + Open(r) <= 1 + lapses[r]
          /\ ~applied[r] => performed[r] <= lapses[r] + Cardinality(Marking(r))
    BY DEF Paid
  <2>2. (Budget /\ Covered) <=> \A r \in Records \ Keyed : Paid(r)
    BY DEF Budget, Covered, Paid
  <2>3. (Budget /\ Covered)' <=> \A r \in Records \ Keyed : Paid(r)'
    BY DEF Budget, Covered, Paid
  <2>4. QED
    BY <2>2, <2>3, TypeStep, PaidStep, KeyedStep DEF RepeatInv
<1>3. QED
  BY <1>1, <1>2, PTL DEF Spec

(* A payment is delivered once, plus at most once for every time its claim  *)
(* stopped protecting it, and a device slot or a gift at most once, for any *)
(* number of finalizers, crashes and reconcile passes.                      *)
THEOREM RepeatsAreBounded == Spec => []BoundedRepeats
<1>1. RepeatInv => BoundedRepeats
  <2> SUFFICES ASSUME RepeatInv, NEW r \in Records
               PROVE  /\ performed[r] <= 1 + lapses[r]
                      /\ r \in Keyed => performed[r] <= 1
    BY DEF BoundedRepeats
  <2>1. performed[r] \in Nat /\ lapses[r] \in Nat
    BY DEF RepeatInv, TypeOK
  <2>2. CASE r \in Keyed
    BY <2>1, <2>2 DEF RepeatInv, KeyedOnce
  <2>3. CASE r \notin Keyed
    <3>1. performed[r] + Cardinality(Pending(r)) + Open(r) <= 1 + lapses[r]
      BY <2>3 DEF RepeatInv, Budget
    <3>2. Cardinality(Pending(r)) \in Nat /\ Open(r) \in {0, 1}
      BY HoldersFinite DEF Open
    <3>3. QED
      BY <2>1, <2>3, <3>1, <3>2
  <2>4. QED
    BY <2>2, <2>3
<1>2. QED
  BY <1>1, RepeatInvariant, PTL

-----------------------------------------------------------------------------
(* The claim as a lock: where it never lapsed, it has one holder, and the   *)
(* holder's record is claimed, fresh and unmarked.                          *)
Held(r) == Pending(r) \union Marking(r)

LEMMA ExclusiveStep == TypeOK /\ ClaimExclusive /\ [Next]_vars => ClaimExclusive'
<1> SUFFICES ASSUME TypeOK, ClaimExclusive, [Next]_vars,
                    NEW r \in Records, lapses'[r] = 0,
                    NEW u \in Held(r)', NEW v \in Held(r)'
             PROVE  u = v /\ claim'[r] = "fresh" /\ ~applied'[r]
  BY DEF ClaimExclusive, Held
<1> USE DEF TypeOK, Goto, Take, Fault, record
<1>0. u \in Workers /\ v \in Workers /\ rec'[u] = r /\ rec'[v] = r
  BY DEF Held, Pending, Marking
<1>1. /\ lapses[r] = 0
      /\ \A x, y \in Held(r) : x = y /\ claim[r] = "fresh" /\ ~applied[r]
  <2>1. ASSUME NEW q, Lapse(q) PROVE lapses'[r] >= lapses[r]
    BY <2>1 DEF Lapse
  <2>2. UNCHANGED lapses \/ \E q : Lapse(q)
    BY DEF Next, vars, Advance, Failure, Visit, Confirm, ClaimAges, Perform, Mark,
         Seal, SetApplied, Release, SyncAccess, SyncAccessFails, RecordAccess,
         FinanceWrite, FinanceMark, PerformFails, PerformThenRaise, MarkFails,
         SealFails, Crash, Claim, FetchGift, AccessVisit, FinanceVisit
  <2>3. lapses'[r] >= lapses[r]
    BY <2>1, <2>2
  <2>4. QED
    BY <2>3 DEF ClaimExclusive, Held
<1>2. ASSUME Held(r)' \subseteq Held(r), claim'[r] = claim[r], applied'[r] = applied[r]
      PROVE  u = v /\ claim'[r] = "fresh" /\ ~applied'[r]
  BY <1>1, <1>2
<1> DEFINE Kept == /\ Held(r)' \subseteq Held(r)
                   /\ claim'[r] = claim[r] /\ applied'[r] = applied[r]
           Goal == u = v /\ claim'[r] = "fresh" /\ ~applied'[r]
<1> USE DEF Held, Pending, Marking
<1>3. UNCHANGED vars => Kept
  BY DEF vars
<1>4. ASSUME NEW q \in Records, Confirm(q) PROVE Kept
  BY <1>4 DEF Confirm
<1>5. ASSUME NEW q \in Records, ClaimAges(q) PROVE Kept
  BY <1>0, <1>5 DEF ClaimAges, Lapse
<1>6. ASSUME NEW w \in Workers, Perform(w) \/ PerformFails(w) \/ MarkFails(w)
      PROVE  Kept
  BY <1>6 DEF Perform, PerformFails, MarkFails
<1>7. ASSUME NEW w \in Workers, PerformThenRaise(w) PROVE Kept
  BY <1>7 DEF PerformThenRaise
<1>8. ASSUME NEW w \in Workers, SealFails(w) \/ Crash(w) PROVE Kept
  BY <1>8 DEF SealFails, Crash
<1>9. ASSUME NEW w \in Workers, SyncAccess(w) \/ SyncAccessFails(w) PROVE Kept
  BY <1>9 DEF SyncAccess, SyncAccessFails, RecordAccess
<1>10. ASSUME NEW w \in Workers, FinanceWrite(w) \/ FinanceMark(w) PROVE Kept
  BY <1>10 DEF FinanceWrite, FinanceMark
<1>11. ASSUME NEW w \in Workers, NEW q \in Records, FetchGift(w, q) PROVE Kept
  BY <1>11 DEF FetchGift
<1>12. ASSUME NEW w \in Workers, NEW q \in Records,
              AccessVisit(w, q) \/ FinanceVisit(w, q)
       PROVE  Kept
  BY <1>12 DEF AccessVisit, FinanceVisit, Visits
<1>13. ASSUME NEW w \in Workers, Mark(w) \/ Seal(w) \/ Release(w) PROVE Goal
  <2>1. CASE rec[w] = r
    <3>1. w \in Held(r)
      BY <1>13, <2>1 DEF Mark, Seal, Release
    <3>2. Held(r)' \subseteq Held(r) \ {w}
      BY <1>13, <2>1 DEF Mark, Seal, Release
    <3>3. QED
      BY <1>1, <3>1, <3>2
  <2>2. CASE rec[w] # r
    <3>1. Kept
      BY <1>13, <2>2 DEF Mark, Seal, Release, SetApplied
    <3>2. QED
      BY <1>2, <3>1
  <2>3. QED
    BY <2>1, <2>2
<1>14. ASSUME NEW w \in Workers, NEW q \in Records, Claim(w, q) PROVE Goal
  <2>1. CASE q = r
    <3>1. Held(r) = {}
      BY <1>1, <1>14, <2>1 DEF Claim, Claimable
    <3>2. u = w /\ v = w
      BY <1>0, <1>14, <3>1 DEF Claim
    <3>3. claim'[r] = "fresh" /\ ~applied'[r]
      BY <1>14, <2>1 DEF Claim, Claimable
    <3>4. QED
      BY <3>2, <3>3
  <2>2. CASE q # r
    <3>1. Kept
      BY <1>14, <2>2 DEF Claim
    <3>2. QED
      BY <1>2, <3>1
  <2>3. QED
    BY <2>1, <2>2
<1>15. QED
  BY <1>2, <1>3, <1>4, <1>5, <1>6, <1>7, <1>8, <1>9, <1>10, <1>11, <1>12,
     <1>13, <1>14 DEF Next, Advance, Failure, Visit

(* Two finalizers are never at work on one record unless its claim lapsed:  *)
(* a process died or failed behind the effect, or took over 300 seconds.    *)
THEOREM ClaimIsExclusive == Spec => []ClaimExclusive
<1>1. Init => TypeOK /\ ClaimExclusive
  BY DEF Init, TypeOK, Steps, ClaimExclusive, Pending, Marking
<1>2. TypeOK /\ ClaimExclusive /\ [Next]_vars => (TypeOK /\ ClaimExclusive)'
  BY TypeStep, ExclusiveStep
<1>3. QED
  BY <1>1, <1>2, PTL DEF Spec

(* A marked record stays marked, and no straggler delivers it again while   *)
(* its claim has never lapsed: the three invariants above in one step.      *)
LEMMA FinalStep ==
    ASSUME TypeOK, ClaimExclusive, Delivered, KeyedOnce, [Next]_vars,
           NEW r \in Records, applied[r]
    PROVE  applied'[r] /\ (performed'[r] = performed[r] \/ lapses[r] > 0)
<1> USE DEF TypeOK, record
<1>1. applied'[r]
  BY DEF Next, vars, Advance, Failure, Visit, Confirm, ClaimAges, Perform, Mark,
         Seal, SetApplied, Release, SyncAccess, SyncAccessFails, RecordAccess,
         FinanceWrite, FinanceMark, PerformFails, PerformThenRaise, MarkFails,
         SealFails, Crash, Claim, FetchGift, AccessVisit, FinanceVisit
<1>2. ASSUME NEW w \in Workers, Perform(w) \/ PerformThenRaise(w)
      PROVE  performed'[r] = performed[r] \/ lapses[r] > 0
  <2>1. CASE rec[w] = r
    <3>1. w \in Pending(r) \union Marking(r)
      BY <1>2, <2>1 DEF Perform, PerformThenRaise, Pending
    <3>2. lapses[r] # 0
      BY <3>1 DEF ClaimExclusive
    <3>3. QED
      BY <3>2
  <2>2. CASE rec[w] # r
    BY <1>2, <2>2 DEF Perform, PerformThenRaise, Deliver
  <2>3. QED
    BY <2>1, <2>2
<1>3. ASSUME NEW w \in Workers, NEW q \in Records, FetchGift(w, q)
      PROVE  performed'[r] = performed[r]
  <2>1. CASE q = r
    <3>1. r \in Keyed
      BY <1>3, <2>1, ProductAssumption DEF FetchGift
    <3>2. performed[r] = 1
      BY <3>1 DEF Delivered, KeyedOnce
    <3>3. QED
      BY <1>3, <2>1, <3>1, <3>2 DEF FetchGift, Deliver, PerformedOnce
  <2>2. CASE q # r
    BY <1>3, <2>2 DEF FetchGift, Deliver
  <2>3. QED
    BY <2>1, <2>2
<1>4. \/ UNCHANGED performed
      \/ \E w \in Workers : Perform(w) \/ PerformThenRaise(w)
      \/ \E w \in Workers, q \in Records : FetchGift(w, q)
  BY DEF Next, vars, Advance, Failure, Visit, Confirm, ClaimAges, Mark,
         Seal, SetApplied, Release, SyncAccess, SyncAccessFails, RecordAccess,
         FinanceWrite, FinanceMark, PerformFails, MarkFails,
         SealFails, Crash, Claim, AccessVisit, FinanceVisit
<1>5. QED
  BY <1>1, <1>2, <1>3, <1>4

(* Applied is final: the action property, for any number of workers. *)
THEOREM AppliedStaysFinal == Spec => AppliedIsFinal
<1> DEFINE Inv == TypeOK /\ ClaimExclusive /\ Delivered /\ KeyedOnce
<1>1. Init => Inv
  BY ProductAssumption
     DEF Init, TypeOK, Steps, ClaimExclusive, Pending, Marking, Delivered, KeyedOnce
<1>2. Inv /\ [Next]_vars => Inv'
  BY TypeStep, ExclusiveStep, DeliveredStep, KeyedStep
<1>3. Inv /\ [Next]_vars =>
        [\A r \in Records : applied[r] =>
            applied'[r] /\ (performed'[r] = performed[r] \/ lapses[r] > 0)]_vars
  BY FinalStep
<1>4. QED
  BY <1>1, <1>2, <1>3, PTL DEF Spec, AppliedIsFinal

-----------------------------------------------------------------------------
(***************************************************************************)
(* PaymentEffect implements Delivery: every transaction of every worker is *)
(* a step of the promise or leaves it alone.                               *)
(*                                                                         *)
(* A delivery needs a payment that is due and an excuse if it is not the   *)
(* first; Budget provides the excuse and WorkIsDue the payment: a worker   *)
(* only ever holds a confirmed record, and a confirmation is never undone. *)
(***************************************************************************)
Owed == {r \in Records : IsConfirmed(r)}

WorkIsDue == \A w \in Workers : pc[w] # "idle" => rec[w] \in Owed

RefineInv == RepeatInv /\ Delivered /\ WorkIsDue

-----------------------------------------------------------------------------
(* A confirmation adds its record to what is owed. *)
LEMMA ConfirmOwes ==
  ASSUME TypeOK, NEW r \in Records, Confirm(r)
  PROVE  Owed' = Owed \union {r}
<1>1. /\ confirmed \in Seq(Records) /\ confirmed' = Append(confirmed, r)
      /\ Len(confirmed) \in Nat
  BY DEF TypeOK, Confirm
<1>2. /\ Len(confirmed') = Len(confirmed) + 1
      /\ \A i \in 1 .. Len(confirmed) : confirmed'[i] = confirmed[i]
      /\ confirmed'[Len(confirmed) + 1] = r
  BY <1>1
<1>3. ASSUME NEW q \in Records PROVE IsConfirmed(q)' <=> IsConfirmed(q) \/ q = r
  <2>1. ASSUME IsConfirmed(q) PROVE IsConfirmed(q)'
    <3>1. PICK i \in 1 .. Len(confirmed) : confirmed[i] = q
      BY <2>1 DEF IsConfirmed
    <3>2. i \in 1 .. Len(confirmed') /\ confirmed'[i] = q
      BY <1>1, <1>2, <3>1
    <3>3. QED
      BY <3>2 DEF IsConfirmed
  <2>2. ASSUME q = r PROVE IsConfirmed(q)'
    <3>1. Len(confirmed) + 1 \in 1 .. Len(confirmed')
      BY <1>1, <1>2
    <3>2. QED
      BY <1>2, <2>2, <3>1 DEF IsConfirmed
  <2>3. ASSUME IsConfirmed(q)' PROVE IsConfirmed(q) \/ q = r
    <3>1. PICK i \in 1 .. Len(confirmed') : confirmed'[i] = q
      BY <2>3 DEF IsConfirmed
    <3>2. i \in 1 .. Len(confirmed) \/ i = Len(confirmed) + 1
      BY <1>1, <1>2, <3>1
    <3>3. QED
      BY <1>2, <3>1, <3>2 DEF IsConfirmed
  <2>4. QED
    BY <2>1, <2>2, <2>3
<1>4. QED
  BY <1>3 DEF Owed

(* Nothing else touches it. *)
LEMMA OwedKept ==
  ASSUME confirmed' = confirmed
  PROVE  Owed' = Owed
BY DEF Owed, IsConfirmed

LEMMA OthersOweNothing ==
  ASSUME [Next]_vars, \A r \in Records : ~Confirm(r)
  PROVE  confirmed' = confirmed
BY DEF Next, vars, record, ClaimAges, Advance, Failure, Visit, Perform, Mark, Seal,
       Release, SyncAccess, SyncAccessFails, RecordAccess, FinanceWrite, FinanceMark,
       PerformFails, PerformThenRaise, MarkFails, SealFails, Crash, Claim, FetchGift,
       AccessVisit, FinanceVisit

LEMMA WorkIsDueStep == TypeOK /\ WorkIsDue /\ [Next]_vars => WorkIsDue'
<1> SUFFICES ASSUME TypeOK, WorkIsDue, [Next]_vars PROVE WorkIsDue'
  OBVIOUS
<1>1. Owed \subseteq Owed'
  <2>1. CASE \E r \in Records : Confirm(r)
    BY <2>1, ConfirmOwes
  <2>2. CASE \A r \in Records : ~Confirm(r)
    BY <2>2, OthersOweNothing, OwedKept
  <2>3. QED
    BY <2>1, <2>2
<1>2. ASSUME NEW w \in Workers, pc'[w] # "idle" PROVE rec'[w] \in Owed
  <2>1. ASSUME NEW v \in Workers, NEW r \in Records, Visit(v, r) PROVE rec'[w] \in Owed
    <3>1. r \in Owed
      BY <2>1 DEF Visit, Claim, FetchGift, AccessVisit, FinanceVisit, Visits, Owed
    <3>2. QED
      BY <1>2, <2>1, <3>1 DEF Visit, Claim, FetchGift, AccessVisit, FinanceVisit,
                              Goto, Take, TypeOK, WorkIsDue
  <2>2. ASSUME NEW v \in Workers, Advance(v) \/ Failure(v)
        PROVE  rec'[w] \in Owed
    <3>1. rec' = rec /\ pc[v] # "idle"
      BY <2>2 DEF Advance, Failure, Perform, Mark, Seal, Release, SyncAccess,
         SyncAccessFails, RecordAccess, FinanceWrite, FinanceMark, PerformFails,
         PerformThenRaise, MarkFails, SealFails, Crash
    <3>2. \A u \in Workers \ {v} : pc'[u] = pc[u]
      BY <2>2 DEF Advance, Failure, Perform, Mark, Seal, Release, SyncAccess,
         SyncAccessFails, RecordAccess, FinanceWrite, FinanceMark, PerformFails,
         PerformThenRaise, MarkFails, SealFails, Crash, Goto, TypeOK
    <3>3. QED
      BY <1>2, <3>1, <3>2 DEF WorkIsDue
  <2>3. CASE UNCHANGED vars \/ \E r \in Records : Confirm(r) \/ ClaimAges(r)
    <3>1. rec' = rec /\ pc' = pc
      BY <2>3 DEF vars, Confirm, ClaimAges
    <3>2. QED
      BY <1>2, <3>1 DEF WorkIsDue
  <2>4. QED
    BY <2>1, <2>2, <2>3 DEF Next
<1>3. QED
  BY <1>1, <1>2 DEF WorkIsDue

-----------------------------------------------------------------------------
(* A worker about to deliver what can be delivered twice has its excuse. *)
LEMMA PendingIsPaid ==
  ASSUME RefineInv, NEW w \in Workers, pc[w] = "apply", rec[w] \notin Keyed
  PROVE  performed[rec[w]] <= lapses[rec[w]]
<1> DEFINE r == rec[w]
           n == Cardinality(Pending(r))
           o == Open(r)
<1>1. r \in Records /\ performed[r] \in Nat /\ lapses[r] \in Nat
  BY DEF RefineInv, RepeatInv, TypeOK
<1>2. w \in Pending(r)
  BY DEF Pending
<1>3. n \in Nat /\ n # 0
  BY <1>2, HoldersFinite, FS_EmptySet
<1>4. performed[r] + n + o <= 1 + lapses[r]
  BY <1>1 DEF RefineInv, RepeatInv, Budget
<1>5. o \in Nat
  BY DEF Open
<1> HIDE DEF n, o
<1>6. QED
  BY <1>1, <1>3, <1>4, <1>5

(* A step of a worker, or of time, is a step of the promise. *)
LEMMA WorkKeepsPromise ==
  ASSUME RefineInv, confirmed' = confirmed, NEW w \in Workers,
         Advance(w) \/ Failure(w) \/ \E r \in Records : Visit(w, r)
  PROVE  [Promise!Next]_<<Owed, performed, applied, lapses>>
<1>1. TypeOK /\ Owed' = Owed /\ WorkIsDue /\ KeyedOnce
  BY OwedKept DEF RefineInv, RepeatInv
<1>2. ASSUME pc[w] # "idle" PROVE rec[w] \in Records /\ rec[w] \in Owed
  BY <1>1, <1>2 DEF TypeOK, WorkIsDue
<1>3. CASE Perform(w) \/ PerformThenRaise(w)
  <2> DEFINE r == rec[w]
  <2>1. r \in Records /\ r \in Owed
    BY <1>2, <1>3 DEF Perform, PerformThenRaise
  <2>2. /\ performed' = [performed EXCEPT ![r] = PerformedOnce(r)]
        /\ lapses' \in {lapses, [lapses EXCEPT ![r] = @ + 1]}
        /\ applied' = applied
    BY <1>3 DEF Perform, PerformThenRaise, Deliver, Lapse
  <2>3. CASE r \in Keyed /\ performed[r] # 0
    <3>1. performed[r] = 1
      BY <1>1, <2>1, <2>3 DEF KeyedOnce, TypeOK
    <3>2. performed' = performed
      BY <1>1, <2>1, <2>2, <2>3, <3>1 DEF PerformedOnce, TypeOK
    <3>3. QED
      BY <1>1, <2>1, <2>2, <3>2 DEF Promise!Next, Promise!LoseSight, Owed
  <2>4. CASE ~(r \in Keyed /\ performed[r] # 0)
    <3>1. IF r \in Keyed THEN performed[r] = 0 ELSE performed[r] <= lapses[r]
      BY <1>3, <2>4, PendingIsPaid DEF Perform, PerformThenRaise
    <3>2. performed' = [performed EXCEPT ![r] = @ + 1]
      <4>1. PerformedOnce(r) = performed[r] + 1
        BY <1>1, <2>1, <2>4 DEF PerformedOnce, TypeOK
      <4>2. QED
        BY <2>2, <4>1
    <3>3. Promise!Deliver(r)
      BY <1>1, <2>1, <2>2, <3>1, <3>2 DEF Promise!Deliver, Owed
    <3>4. QED
      BY <2>1, <3>3 DEF Promise!Next
  <2>5. QED
    BY <2>3, <2>4
<1>4. CASE Mark(w) \/ Seal(w)
  <2> DEFINE r == rec[w]
  <2>1. r \in Records /\ r \in Owed /\ performed[r] > 0
    BY <1>1, <1>2, <1>4 DEF Mark, Seal, RefineInv, Delivered, TypeOK
  <2>2. /\ applied' = [applied EXCEPT ![r] = TRUE]
        /\ performed' = performed /\ lapses' = lapses
    BY <1>4 DEF Mark, Seal, SetApplied
  <2>3. CASE applied[r]
    <3>1. applied' = applied
      BY <1>1, <2>1, <2>2, <2>3 DEF TypeOK
    <3>2. QED
      BY <1>1, <2>2, <3>1
  <2>4. CASE ~applied[r]
    BY <1>1, <2>1, <2>2, <2>4 DEF Promise!Next, Promise!Settle, Owed
  <2>5. QED
    BY <2>3, <2>4
<1>5. ASSUME NEW r \in Records, FetchGift(w, r)
      PROVE  [Promise!Next]_<<Owed, performed, applied, lapses>>
  <2>1. r \in Keyed /\ r \in Owed
    BY <1>5, ProductAssumption DEF FetchGift, Visits, Owed
  <2>2. performed' = [performed EXCEPT ![r] = 1] /\ applied' = applied /\ lapses' = lapses
    BY <1>5, <2>1 DEF FetchGift, Deliver, PerformedOnce
  <2>3. performed[r] = 0 \/ performed[r] = 1
    BY <1>1, <2>1 DEF KeyedOnce, TypeOK
  <2>4. CASE performed[r] = 0
    <3>1. performed' = [performed EXCEPT ![r] = @ + 1]
      BY <2>2, <2>4
    <3>2. Promise!Deliver(r)
      BY <1>1, <2>1, <2>2, <2>4, <3>1 DEF Promise!Deliver, Owed
    <3>3. QED
      BY <3>2 DEF Promise!Next
  <2>5. CASE performed[r] = 1
    <3>1. performed' = performed
      BY <1>1, <2>2, <2>5 DEF TypeOK
    <3>2. QED
      BY <1>1, <2>2, <3>1
  <2>6. QED
    BY <2>3, <2>4, <2>5
<1>6. CASE SealFails(w) \/ Crash(w)
  <2>1. /\ rec[w] \in Records /\ rec[w] \in Owed
        /\ performed' = performed /\ applied' = applied
        /\ lapses' \in {lapses, [lapses EXCEPT ![rec[w]] = @ + 1]}
    BY <1>2, <1>6 DEF SealFails, Crash, Lapse, record
  <2>2. QED
    BY <1>1, <2>1 DEF Promise!Next, Promise!LoseSight, Owed
<1>7. CASE \/ Release(w) \/ SyncAccess(w) \/ SyncAccessFails(w) \/ FinanceWrite(w)
           \/ FinanceMark(w) \/ PerformFails(w) \/ MarkFails(w)
           \/ \E r \in Records : Claim(w, r) \/ AccessVisit(w, r) \/ FinanceVisit(w, r)
  <2>1. UNCHANGED <<performed, applied, lapses>>
    BY <1>7 DEF Release, SyncAccess, SyncAccessFails, RecordAccess, FinanceWrite,
       FinanceMark, PerformFails, MarkFails, Claim, AccessVisit, FinanceVisit, record
  <2>2. QED
    BY <1>1, <2>1
<1>8. QED
  BY <1>3, <1>4, <1>5, <1>6, <1>7 DEF Advance, Failure, Visit

LEMMA StepKeepsPromise ==
  ASSUME RefineInv, [Next]_vars
  PROVE  [Promise!Next]_<<Owed, performed, applied, lapses>>
<1>1. TypeOK
  BY DEF RefineInv, RepeatInv
<1>2. ASSUME NEW r \in Records, Confirm(r)
      PROVE  [Promise!Next]_<<Owed, performed, applied, lapses>>
  <2>1. Owed' = Owed \union {r} /\ r \notin Owed
    BY <1>1, <1>2, ConfirmOwes DEF Confirm, Owed
  <2>2. UNCHANGED <<performed, applied, lapses>>
    BY <1>2 DEF Confirm
  <2>3. QED
    BY <2>1, <2>2 DEF Promise!Next, Promise!Owe, Owed
<1>3. ASSUME NEW r \in Records, ClaimAges(r)
      PROVE  [Promise!Next]_<<Owed, performed, applied, lapses>>
  <2>1. Owed' = Owed /\ UNCHANGED <<performed, applied>>
    BY <1>3, OwedKept DEF ClaimAges
  <2>2. CASE Pending(r) \union Marking(r) = {}
    <3>1. lapses' = lapses
      BY <1>3, <2>2 DEF ClaimAges
    <3>2. QED
      BY <2>1, <3>1
  <2>3. CASE Pending(r) \union Marking(r) # {}
    <3>1. r \in Owed
      <4>1. PICK w \in Workers : rec[w] = r /\ pc[w] # "idle"
        BY <2>3 DEF Pending, Marking
      <4>2. QED
        BY <4>1 DEF RefineInv, WorkIsDue
    <3>2. lapses' = [lapses EXCEPT ![r] = @ + 1]
      BY <1>3, <2>3 DEF ClaimAges, Lapse
    <3>3. QED
      BY <2>1, <3>1, <3>2 DEF Promise!Next, Promise!LoseSight, Owed
  <2>4. QED
    BY <2>2, <2>3
<1>4. CASE \A r \in Records : ~Confirm(r) /\ ~ClaimAges(r)
  <2>1. confirmed' = confirmed
    BY <1>4, OthersOweNothing
  <2>2. CASE UNCHANGED vars
    BY <2>1, <2>2, OwedKept DEF vars, record
  <2>3. ASSUME NEW w \in Workers,
               Advance(w) \/ Failure(w) \/ \E r \in Records : Visit(w, r)
        PROVE  [Promise!Next]_<<Owed, performed, applied, lapses>>
    BY <2>1, <2>3, WorkKeepsPromise
  <2>4. QED
    BY <1>4, <2>2, <2>3 DEF Next
<1>5. QED
  BY <1>2, <1>3, <1>4

(* The refinement, for any records, products, workers, windows and faults.  *)
THEOREM ImplementsDelivery == Spec => KeepsPromise
<1>1. Init => TypeOK /\ Delivered /\ WorkIsDue
  BY DEF Init, TypeOK, Steps, Delivered, WorkIsDue
<1>2. Init => Promise!Init
  BY DEF Init, Promise!Init, IsConfirmed
<1>3. TypeOK /\ Delivered /\ WorkIsDue /\ [Next]_vars => (TypeOK /\ Delivered /\ WorkIsDue)'
  BY TypeStep, DeliveredStep, WorkIsDueStep
<1>4. RepeatInv /\ (TypeOK /\ Delivered /\ WorkIsDue) /\ [Next]_vars
      => [Promise!Next]_<<{r \in Records : IsConfirmed(r)}, performed, applied, lapses>>
  BY StepKeepsPromise DEF RefineInv, Owed
<1>5. QED
  BY <1>1, <1>2, <1>3, <1>4, RepeatInvariant, PTL DEF Spec, KeepsPromise, Promise!Spec
=============================================================================
