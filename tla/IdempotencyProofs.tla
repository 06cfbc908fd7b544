------------------------- MODULE IdempotencyProofs -------------------------
(* Proofs about Idempotency, for any number of attempts and any clock.      *)
EXTENDS Idempotency, TLAPS

(* Who may still write under the key, and what the rows say of it.          *)

(* A record always has its fence, and the two name one attempt.             *)
FenceInv ==
    rec.live => /\ rec.claim \in Attempts
                /\ effect.live
                /\ effect.claim = rec.claim

(* The effect lock is held by the one transaction that has marked, and the  *)
(* fence names it for as long as it holds it.                               *)
LockInv ==
    /\ \A a \in Attempts :
          pc[a] \in {"marked", "failmarked"} <=> marking.by = a
    /\ effect.live /\ marking.by # None => effect.claim = marking.by

(* A request in flight is younger than MaxRun, and the record is at least   *)
(* as young, so neither retention nor purge reaches the record under it.    *)
ClockInv ==
    /\ rec.live => rec.at <= now
    /\ \A a \in Attempts : pc[a] \in InFlight =>
          /\ rec.live
          /\ at[a] <= rec.at
          /\ now <= at[a] + MaxRun

(* The record's attempt belongs to the current admission.                   *)
GenInv ==
    /\ rec.live => gen[rec.claim] = epoch
    /\ \A a \in Attempts : gen[a] <= epoch

(* A named attempt that got past Begin is marked as begun.                  *)
BegunInv ==
    \A a \in Attempts :
        (rec.live /\ rec.claim = a
         /\ pc[a] \in Working \cup {"committed", "failed"}) => rec.began

(* A committed write of the current admission is what the record and its    *)
(* mark speak of.                                                           *)
CommittedInv ==
    \A a \in Attempts : work[a] = "committed" =>
        /\ pc[a] \in {"committed", "done"}
        /\ (rec.live /\ gen[a] = epoch) =>
              rec.claim = a /\ rec.began /\ effect.committed

IndInv ==
    /\ TypeOK
    /\ FenceInv
    /\ LockInv
    /\ ClockInv
    /\ GenInv
    /\ BegunInv
    /\ CommittedInv
    /\ OneEffect

----------------------------------------------------------------------------
(* Type correctness.                                                        *)

(* A transition changes one receipt's outcome and nothing else of the table. *)
LEMMA WithOutcomeType ==
    ASSUME TypeOK, NEW r \in Claimants, NEW outcome \in Outcomes, NEW t \in Nat
    PROVE  WithOutcome(r, outcome, t) \in [Attempts -> ReceiptType]
<1>1. CASE r \in Attempts
  BY <1>1 DEF WithOutcome, TypeOK, ReceiptType
<1>2. CASE r = None
  BY <1>2, AttemptAssumption DEF WithOutcome, TypeOK
<1> QED
  BY <1>1, <1>2 DEF Claimants

(* Every step of the store and of the driver keeps the three rows and the   *)
(* attempts' state in their types.                                          *)
LEMMA TypeStep ==
    ASSUME TypeOK, [Next]_vars
    PROVE  TypeOK'
<1> USE DEF TypeOK
<1>1. CASE UNCHANGED vars
  BY <1>1 DEF vars
<1>2. ASSUME NEW a \in Attempts, Step(a)
      PROVE  TypeOK'
  <2>1. ASSUME NEW body \in Bodies, Claim(a, body)
        PROVE  TypeOK'
    <3>1. CASE ClaimFirst(a, body)
      <4>1. rec' \in RecType
        BY <3>1 DEF ClaimFirst, Taken, RecType, Claimants, Fingerprints
      <4>2. effect' \in EffectType
        BY <3>1 DEF ClaimFirst, Fence, EffectType, Claimants
      <4>3. opref' \in [Attempts -> Claimants]
        BY <3>1, <4>1 DEF ClaimFirst, RecType
      <4>4. epoch' \in Nat /\ gen' \in [Attempts -> Nat]
        BY <3>1 DEF ClaimFirst
      <4> QED
        BY <3>1, <4>1, <4>2, <4>3, <4>4 DEF ClaimFirst, Phases, InFlight, Working
    <3>2. CASE ClaimAnswered(a, body)
      BY <3>2 DEF ClaimAnswered, Phases, InFlight, Working
    <3> QED
      BY <2>1, <3>1, <3>2 DEF Claim
  <2>2. CASE Reserve(a)
    <3>1. opref[a] \in Attempts => at[opref[a]] \in Nat
      OBVIOUS
    <3>2. receipts' \in [Attempts -> ReceiptType]
      BY <2>2, <3>1, AttemptAssumption DEF Reserve, ReceiptType, Outcomes,
         Claimants
    <3> QED
      BY <2>2, <3>2 DEF Reserve, Phases, InFlight, Working
  <2>3. CASE Begin(a)
    BY <2>3, ZenonT(60) DEF Begin, RecType, Phases, InFlight, Working
  <2>4. ASSUME NEW outcome \in Decided, Finish(a, outcome)
        PROVE  TypeOK'
    <3>1. outcome \in Outcomes
      BY <2>4 DEF Decided, Outcomes, Terminal
    <3>2. staged' \in [Attempts -> [outcome : Outcomes, at : Nat]]
      BY <2>4, <3>1 DEF Finish
    <3> QED
      BY <2>4, <3>2 DEF Finish, Phases, InFlight, Working
  <2>5. CASE Fail(a)
    BY <2>5 DEF Fail, Phases, InFlight, Working
  <2>6. CASE AnswerWithoutTx(a)
    BY <2>6 DEF AnswerWithoutTx, Phases, InFlight, Working
  <2>7. CASE Mark(a)
    <3>1. staged' \in [Attempts -> [outcome : Outcomes, at : Nat]]
      <4>1. NotStaged \in [outcome : Outcomes, at : Nat]
        BY DEF NotStaged, Outcomes
      <4> QED
        BY <2>7, <4>1 DEF Mark
    <3>2. marking' \in [by : Claimants, at : Nat]
      BY <2>7 DEF Mark, Claimants
    <3> QED
      BY <2>7, <3>1, <3>2 DEF Mark, Phases, InFlight, Working
  <2>8. ASSUME NEW heard \in BOOLEAN, Commit(a, heard)
        PROVE  TypeOK'
    <3>1. receipts' \in [Attempts -> ReceiptType]
      BY <2>8, WithOutcomeType DEF Commit
    <3> QED
      BY <2>8, <3>1 DEF Commit, Marked, NotMarking, NotStaged, EffectType,
         Claimants, Outcomes, Phases, InFlight, Working
  <2>9. CASE FailMark(a)
    BY <2>9 DEF FailMark, Claimants, Phases, InFlight, Working
  <2>10. CASE FailCommit(a)
    <3>1. receipts' \in [Attempts -> ReceiptType]
      BY <2>10, WithOutcomeType DEF FailCommit, Outcomes, Terminal
    <3> QED
      BY <2>10, <3>1 DEF FailCommit, Marked, NotMarking, EffectType, Claimants,
         Phases, InFlight, Working
  <2>11. CASE FailUnrecorded(a)
    BY <2>11 DEF FailUnrecorded, NotMarking, Claimants, Phases, InFlight, Working
  <2>12. ASSUME NEW kept \in BOOLEAN, Complete(a, kept)
         PROVE  TypeOK'
    BY <2>12 DEF Complete, RecType, Phases, InFlight, Working
  <2>13. CASE Abandon(a)
    BY <2>13 DEF Abandon, NotMarking, NotStaged, Claimants, Outcomes, Phases, InFlight, Working
  <2>14. ASSUME NEW outcome \in Terminal, OwnerOutcome(a, outcome)
         PROVE  TypeOK'
    <3>1. receipts' \in [Attempts -> ReceiptType]
      BY <2>14, WithOutcomeType DEF OwnerOutcome, Outcomes
    <3> QED
      BY <2>14, <3>1 DEF OwnerOutcome
  <2> QED
    BY <1>2, <2>1, <2>2, <2>3, <2>4, <2>5, <2>6, <2>7, <2>8, <2>9, <2>10,
       <2>11, <2>12, <2>13, <2>14 DEF Step
<1>3. CASE Purge
  <2>1. rec' \in RecType
    BY <1>3 DEF Purge, NoRec, RecType, Claimants, Fingerprints
  <2>2. effect' \in EffectType
    BY <1>3 DEF Purge, NoEffect, EffectType, Claimants
  <2>3. receipts' \in [Attempts -> ReceiptType]
    BY <1>3 DEF Purge, NoReceipt, ReceiptType, Outcomes
  <2> QED
    BY <1>3, <2>1, <2>2, <2>3 DEF Purge
<1>4. CASE Tick
  BY <1>4 DEF Tick
<1> QED
  BY <1>1, <1>2, <1>3, <1>4 DEF Next

(* The empty tables are well typed.                                         *)
LEMMA TypeInit == Init => TypeOK
<1> SUFFICES ASSUME Init PROVE TypeOK
  OBVIOUS
<1> USE DEF Init
<1>1. rec \in RecType
  BY DEF RecType, NoRec, Claimants, Fingerprints
<1>2. effect \in EffectType
  BY DEF EffectType, NoEffect, Claimants
<1>3. receipts \in [Attempts -> ReceiptType]
  BY DEF ReceiptType, NoReceipt, Outcomes
<1>4. marking \in [by : Claimants, at : Nat]
  BY DEF NotMarking, Claimants
<1>5. staged \in [Attempts -> [outcome : Outcomes, at : Nat]]
  BY DEF NotStaged, Outcomes
<1>6. pc \in [Attempts -> Phases] /\ opref \in [Attempts -> Claimants]
  BY DEF Phases, Claimants
<1> QED
  BY <1>1, <1>2, <1>3, <1>4, <1>5, <1>6 DEF TypeOK

(* Type correctness of the whole specification.                             *)
THEOREM TypeCorrect == Spec => []TypeOK
<1>1. Init => TypeOK
  BY TypeInit
<1>2. TypeOK /\ [Next]_vars => TypeOK'
  BY TypeStep
<1> QED
  BY <1>1, <1>2, PTL DEF Spec

----------------------------------------------------------------------------
(* The inductive invariant.                                                 *)

(* The strengthened invariant holds of an unused key.                       *)
LEMMA IndInit == Init => IndInv
<1> SUFFICES ASSUME Init PROVE IndInv
  OBVIOUS
<1>1. TypeOK
  BY TypeInit
<1>2. FenceInv /\ GenInv /\ BegunInv /\ CommittedInv /\ OneEffect
  BY DEF Init, FenceInv, GenInv, BegunInv, CommittedInv, OneEffect, NoRec
<1>3. LockInv /\ ClockInv
  BY AttemptAssumption
     DEF Init, LockInv, ClockInv, NoRec, NoEffect, NotMarking, InFlight, Working
<1> QED
  BY <1>1, <1>2, <1>3 DEF IndInv

(* Taking the key: the previous holder, if it had committed under this      *)
(* admission, would have made the verdict Spent or InFlight.                *)
LEMMA ClaimStep ==
    ASSUME IndInv, NEW a \in Attempts, NEW body \in Bodies, Claim(a, body)
    PROVE  IndInv'
<1>0. TypeOK'
  BY TypeStep DEF IndInv, Next, Step
<1> USE DEF IndInv
<1>1. CASE ClaimAnswered(a, body)
  <2>1. pc[a] = "idle" /\ pc'[a] \in {"replayed", "refused"}
        /\ \A b \in Attempts : b # a => pc'[b] = pc[b]
    BY <1>1 DEF Claim, ClaimAnswered, TypeOK
  <2>2. FenceInv' /\ GenInv' /\ OneEffect'
    BY <1>1 DEF ClaimAnswered, FenceInv, GenInv, OneEffect
  <2>3. LockInv'
    BY <1>1, <2>1 DEF ClaimAnswered, LockInv
  <2>4. ClockInv'
    BY <1>1, <2>1 DEF ClaimAnswered, ClockInv, InFlight, Working
  <2>5. BegunInv'
    BY <1>1, <2>1 DEF ClaimAnswered, BegunInv, Working
  <2>6. CommittedInv'
    BY <1>1, <2>1 DEF ClaimAnswered, CommittedInv
  <2> QED
    BY <1>0, <2>2, <2>3, <2>4, <2>5, <2>6
<1>2. CASE ClaimFirst(a, body)
  <2> DEFINE fresh == ~rec.live \/ ClaimExpired
  <2>1. /\ pc[a] = "idle"
        /\ pc' = [pc EXCEPT ![a] = "claimed"]
        /\ at' = [at EXCEPT ![a] = now]
        /\ gen' = [gen EXCEPT ![a] = epoch']
        /\ epoch' = IF fresh THEN epoch + 1 ELSE epoch
        /\ UNCHANGED <<now, marking, work>>
        /\ marking.by = None
    BY <1>2 DEF Claim, ClaimFirst
  <2>2. rec'.live /\ rec'.claim = a /\ rec'.at = now /\ ~rec'.began
    BY <1>2 DEF ClaimFirst, Taken
  <2>3. effect'.live /\ effect'.claim = a
    BY <1>2 DEF ClaimFirst, Fence
  <2>4. work[a] # "committed"
    BY <2>1 DEF CommittedInv
  <2>5. ~fresh => \A b \in Attempts : work[b] = "committed" => gen[b] # epoch
    <3>1. SUFFICES ASSUME ~fresh, NEW b \in Attempts, work[b] = "committed",
                          gen[b] = epoch
                   PROVE  FALSE
      OBVIOUS
    <3>2. rec.live /\ rec.claim = b /\ rec.began /\ effect.committed
      BY <3>1 DEF CommittedInv
    <3>3. Decide(body) = "first" /\ ~ClaimExpired
      BY <1>2, <3>1, <3>2, <2>1 DEF ClaimFirst, Verdict
    <3> QED
      BY <3>2, <3>3 DEF Decide, EffectCommitted
  <2>6. \A b \in Attempts : work[b] = "committed" => gen'[b] # epoch'
    <3>1. CASE fresh
      BY <3>1, <2>1, <2>4 DEF GenInv, TypeOK
    <3>2. CASE ~fresh
      BY <3>2, <2>1, <2>4, <2>5 DEF TypeOK
    <3> QED
      BY <3>1, <3>2
  <2>7. FenceInv'
    BY <2>2, <2>3 DEF FenceInv
  <2>8. LockInv'
    BY <2>1, AttemptAssumption DEF LockInv, TypeOK
  <2>9. ClockInv'
    <3>1. SUFFICES ASSUME NEW b \in Attempts, pc'[b] \in InFlight
                   PROVE  at'[b] <= now /\ now <= at'[b] + MaxRun
      BY <2>1, <2>2 DEF ClockInv, TypeOK
    <3>2. CASE b = a
      BY <3>2, <2>1, ClockAssumption DEF TypeOK
    <3>3. CASE b # a
      BY <3>1, <3>3, <2>1, ClockAssumption DEF ClockInv, TypeOK, RecType
    <3> QED
      BY <3>2, <3>3
  <2>10. GenInv'
    BY <2>1, <2>2 DEF GenInv, TypeOK
  <2>11. BegunInv'
    BY <2>1, <2>2 DEF BegunInv, TypeOK, Working
  <2>12. CommittedInv'
    BY <2>1, <2>4, <2>6 DEF CommittedInv, TypeOK
  <2>13. OneEffect'
    BY <2>1, <2>4 DEF OneEffect, TypeOK
  <2> QED
    BY <1>0, <2>7, <2>8, <2>9, <2>10, <2>11, <2>12, <2>13
<1> QED
  BY <1>1, <1>2 DEF Claim

(* The steps of one request that neither take the key nor write the fence. *)
LEMMA RequestStep ==
    ASSUME IndInv, NEW a \in Attempts,
           \/ Reserve(a)
           \/ Begin(a)
           \/ \E outcome \in Decided : Finish(a, outcome)
           \/ Fail(a)
           \/ AnswerWithoutTx(a)
           \/ \E kept \in BOOLEAN : Complete(a, kept)
    PROVE  IndInv'
<1>0. TypeOK'
  BY TypeStep DEF IndInv, Next, Step
<1> USE DEF IndInv
<1>1. /\ UNCHANGED <<now, effect, marking, at, epoch, gen>>
      /\ \A b \in Attempts : b # a => pc'[b] = pc[b] /\ work'[b] = work[b]
      /\ pc[a] \in InFlight \ {"marked", "failmarked"}
      /\ pc'[a] \notin {"marked", "failmarked"}
      /\ work'[a] \in {work[a], "rolledback"}
  BY DEF Reserve, Begin, Finish, Fail, AnswerWithoutTx, Complete, TypeOK,
         InFlight, Working
<1>2. /\ rec'.live = rec.live
      /\ rec'.claim = rec.claim
      /\ rec'.at = rec.at
      /\ rec.began => rec'.began
  <2>1. CASE rec' = rec
    BY <2>1
  <2>2. CASE rec' = [rec EXCEPT !.began = TRUE]
    BY <2>2 DEF TypeOK, RecType
  <2>3. CASE \E kept \in BOOLEAN : Complete(a, kept)
    <3>1. PICK kept \in BOOLEAN : Complete(a, kept)
      BY <2>3
    <3>2. CASE Holds(a)
      <4>1. rec' = [rec EXCEPT !.completed = TRUE, !.recorded = kept,
                               !.ok = (pc[a] = "committed")]
        BY <3>1, <3>2 DEF Complete
      <4>2. rec \in RecType
        BY DEF TypeOK
      <4> QED
        BY <4>1, <4>2 DEF RecType
    <3>3. CASE ~Holds(a)
      BY <3>1, <3>3 DEF Complete
    <3> QED
      BY <3>2, <3>3
  <2> QED
    BY <2>1, <2>2, <2>3 DEF Reserve, Begin, Finish, Fail, AnswerWithoutTx
<1>3. (rec.live /\ rec.claim = a
       /\ pc'[a] \in Working \cup {"committed", "failed"}) => rec'.began
  <2>1. CASE Begin(a)
    BY <2>1 DEF Begin, TypeOK, RecType, Working
  <2>2. CASE ~Begin(a)
    <3>1. pc'[a] \in Working \cup {"committed", "failed"} =>
            pc[a] \in Working \cup {"committed", "failed"}
      BY <2>2 DEF Reserve, Finish, Fail, AnswerWithoutTx, Complete, TypeOK, Working
    <3> QED
      BY <1>2, <3>1 DEF BegunInv
  <2> QED
    BY <2>1, <2>2
<1>4. work[a] = "committed" => pc'[a] \in {"committed", "done"}
  BY DEF Reserve, Begin, Finish, Fail, AnswerWithoutTx, Complete, TypeOK,
         CommittedInv
<1>5. FenceInv'
  BY <1>1, <1>2 DEF FenceInv
<1>6. LockInv'
  BY <1>1 DEF LockInv
<1>7. ClockInv'
  BY <1>1, <1>2 DEF ClockInv
<1>8. GenInv'
  BY <1>1, <1>2 DEF GenInv
<1>9. BegunInv'
  BY <1>1, <1>2, <1>3 DEF BegunInv
<1>10. CommittedInv'
  BY <1>1, <1>2, <1>4 DEF CommittedInv
<1>11. OneEffect'
  BY <1>1 DEF OneEffect
<1> QED
  BY <1>0, <1>5, <1>6, <1>7, <1>8, <1>9, <1>10, <1>11

(* Taking and giving back the effect lock.                                  *)
LEMMA LockStep ==
    ASSUME IndInv, NEW a \in Attempts,
           Mark(a) \/ FailMark(a) \/ FailUnrecorded(a) \/ Abandon(a)
    PROVE  IndInv'
<1>0. TypeOK'
  BY TypeStep DEF IndInv, Next, Step
<1> USE DEF IndInv
<1>1. /\ UNCHANGED <<now, rec, effect, at, epoch, gen>>
      /\ \A b \in Attempts : b # a => pc'[b] = pc[b] /\ work'[b] = work[b]
      /\ pc[a] \in InFlight
      /\ work'[a] \in {work[a], "rolledback"}
  BY DEF Mark, FailMark, FailUnrecorded, Abandon, TypeOK, InFlight, Working
<1>2. pc'[a] \in Working \cup {"committed", "failed"} =>
        pc[a] \in Working \cup {"committed", "failed"}
  BY DEF Mark, FailMark, FailUnrecorded, Abandon, TypeOK, Working
<1>3. work[a] = "committed" => pc'[a] \in {"committed", "done"}
  BY DEF Mark, FailMark, FailUnrecorded, Abandon, TypeOK, CommittedInv
<1>4. FenceInv' /\ GenInv'
  BY <1>1 DEF FenceInv, GenInv
<1>5. LockInv'
  <2>1. CASE marking' = [by |-> a, at |-> now]
    <3>1. marking.by = None /\ pc'[a] \in {"marked", "failmarked"}
      BY <2>1, AttemptAssumption
         DEF Mark, FailMark, FailUnrecorded, Abandon, TypeOK, NotMarking,
             LockInv, Claimants
    <3>2. effect.live => effect.claim = a
      BY <2>1, <3>1, AttemptAssumption
         DEF Mark, FailMark, FailUnrecorded, Abandon, NotMarking, Unfenced
    <3> QED
      BY <1>1, <2>1, <3>1, <3>2, AttemptAssumption DEF LockInv
  <2>2. CASE marking' # [by |-> a, at |-> now]
    <3>1. /\ pc'[a] \notin {"marked", "failmarked"}
          /\ marking' = IF marking.by = a THEN NotMarking ELSE marking
      BY <2>2, AttemptAssumption
         DEF Mark, FailMark, FailUnrecorded, Abandon, TypeOK, LockInv, NotMarking
    <3> QED
      BY <1>1, <3>1, AttemptAssumption DEF LockInv, NotMarking
  <2> QED
    BY <2>1, <2>2
<1>6. ClockInv'
  BY <1>1 DEF ClockInv
<1>7. BegunInv'
  BY <1>1, <1>2 DEF BegunInv
<1>8. CommittedInv'
  BY <1>1, <1>3 DEF CommittedInv
<1>9. OneEffect'
  BY <1>1 DEF OneEffect
<1> QED
  BY <1>0, <1>4, <1>5, <1>6, <1>7, <1>8, <1>9

(* COMMIT: the lock, the fence and the record all name the attempt, so no   *)
(* other attempt of this admission has committed.                           *)
LEMMA CommitStep ==
    ASSUME IndInv, NEW a \in Attempts,
           (\E heard \in BOOLEAN : Commit(a, heard)) \/ FailCommit(a)
    PROVE  IndInv'
<1>0. TypeOK'
  BY TypeStep DEF IndInv, Next, Step
<1> USE DEF IndInv
<1>1. /\ UNCHANGED <<now, rec, at, epoch, gen>>
      /\ \A b \in Attempts : b # a => pc'[b] = pc[b] /\ work'[b] = work[b]
      /\ pc[a] \in {"marked", "failmarked"}
      /\ pc'[a] \in {"committed", "done", "failed"}
      /\ marking'.by = None
      /\ effect'.live /\ effect'.claim = a /\ effect'.committed
  <2>1. effect' = Marked(a) /\ marking' = NotMarking
    BY DEF Commit, FailCommit
  <2>2. marking'.by = None /\ effect'.live /\ effect'.claim = a /\ effect'.committed
    BY <2>1 DEF Marked, NotMarking
  <2>3. ASSUME NEW heard \in BOOLEAN, Commit(a, heard)
        PROVE  /\ UNCHANGED <<now, rec, at, epoch, gen>>
               /\ \A b \in Attempts : b # a => pc'[b] = pc[b] /\ work'[b] = work[b]
               /\ pc[a] = "marked"
               /\ pc'[a] \in {"committed", "done"}
    BY <2>3 DEF Commit, TypeOK
  <2>4. CASE FailCommit(a)
    BY <2>2, <2>4 DEF FailCommit, TypeOK
  <2> QED
    BY <2>2, <2>3, <2>4
<1>2. work'[a] = "committed" => pc'[a] \in {"committed", "done"}
  BY DEF Commit, FailCommit, TypeOK, CommittedInv
<1>3. marking.by = a /\ rec.live
  BY <1>1 DEF LockInv, ClockInv, InFlight, Working
<1>4. rec.claim = a /\ gen[a] = epoch /\ rec.began
  BY <1>1, <1>3, AttemptAssumption DEF LockInv, FenceInv, GenInv, BegunInv, Working
<1>5. \A b \in Attempts : b # a /\ work[b] = "committed" => gen[b] # epoch
  BY <1>3, <1>4 DEF CommittedInv
<1>6. FenceInv' /\ GenInv'
  BY <1>1, <1>4 DEF FenceInv, GenInv
<1>7. LockInv'
  BY <1>1, <1>3, AttemptAssumption DEF LockInv
<1>8. ClockInv'
  BY <1>1 DEF ClockInv, InFlight, Working
<1>9. BegunInv'
  BY <1>1, <1>4 DEF BegunInv
<1>10. CommittedInv'
  BY <1>1, <1>2, <1>4, <1>5 DEF CommittedInv
<1>11. OneEffect'
  BY <1>1, <1>4, <1>5 DEF OneEffect
<1> QED
  BY <1>0, <1>6, <1>7, <1>8, <1>9, <1>10, <1>11

(* Neither an owner's outcome, nor the purge, nor the clock admits anybody: *)
(* the purge cannot reach the record of a request that is still in flight.  *)
LEMMA AroundStep ==
    ASSUME IndInv,
           \/ \E a \in Attempts, outcome \in Terminal : OwnerOutcome(a, outcome)
           \/ Purge
           \/ Tick
    PROVE  IndInv'
<1>0. TypeOK'
  BY TypeStep DEF IndInv, Next, Step
<1> USE DEF IndInv
<1>1. ASSUME NEW a \in Attempts, NEW outcome \in Terminal,
             OwnerOutcome(a, outcome)
      PROVE  IndInv'
  BY <1>0, <1>1
     DEF OwnerOutcome, FenceInv, LockInv, ClockInv, GenInv, BegunInv,
         CommittedInv, OneEffect
<1>2. CASE Tick
  <2>1. now \in Nat /\ now' = now + 1 /\ MaxRun \in Nat
        /\ UNCHANGED <<rec, effect, marking, pc, at, work, epoch, gen>>
        /\ \A a \in Attempts : pc[a] \in InFlight => now < at[a] + MaxRun
    BY <1>2, ClockAssumption DEF Tick, TypeOK
  <2>2. ClockInv'
    BY <2>1 DEF ClockInv, TypeOK, RecType
  <2> QED
    BY <1>0, <2>1, <2>2
       DEF FenceInv, LockInv, GenInv, BegunInv, CommittedInv, OneEffect
<1>3. CASE Purge
  <2>1. UNCHANGED <<now, marking, pc, at, work, epoch, gen>>
    BY <1>3 DEF Purge
  <2>2. CASE rec' = rec
    <3>1. effect' = effect \/ (~rec.live /\ ~effect'.live)
      BY <1>3, <2>2 DEF Purge, NoRec, NoEffect
    <3>2. FenceInv' /\ CommittedInv'
      BY <2>1, <2>2, <3>1 DEF FenceInv, CommittedInv
    <3> QED
      BY <1>0, <2>1, <2>2, <3>1, <3>2
         DEF LockInv, ClockInv, GenInv, BegunInv, OneEffect
  <2>3. CASE rec' # rec
    <3>1. rec' = NoRec /\ ~rec'.live
      BY <1>3, <2>3 DEF Purge, NoRec
    <3>2. rec.live => now >= rec.at + Retention
      BY <1>3, <2>3 DEF Purge, Purgeable
    <3>3. \A a \in Attempts : pc[a] \notin InFlight
      BY <3>2, ClockAssumption DEF ClockInv, TypeOK, RecType
    <3>4. effect' = effect \/ ~effect'.live
      BY <1>3 DEF Purge, NoEffect
    <3> QED
      BY <1>0, <2>1, <3>1, <3>3, <3>4
         DEF FenceInv, LockInv, ClockInv, GenInv, BegunInv, CommittedInv,
             OneEffect
  <2> QED
    BY <2>2, <2>3
<1> QED
  BY <1>1, <1>2, <1>3

(* Every step preserves the strengthened invariant.                         *)
LEMMA IndStep == IndInv /\ [Next]_vars => IndInv'
<1> SUFFICES ASSUME IndInv, [Next]_vars PROVE IndInv'
  OBVIOUS
<1>1. CASE UNCHANGED vars
  BY <1>1
     DEF IndInv, vars, TypeOK, FenceInv, LockInv, ClockInv, GenInv, BegunInv,
         CommittedInv, OneEffect
<1>2. ASSUME NEW a \in Attempts, Step(a)
      PROVE  IndInv'
  BY <1>2, ClaimStep, RequestStep, LockStep, CommitStep, AroundStep DEF Step
<1>3. CASE Purge \/ Tick
  BY <1>3, AroundStep
<1> QED
  BY <1>1, <1>2, <1>3 DEF Next

(* The strengthened invariant holds in every reachable state.               *)
THEOREM Inductive == Spec => []IndInv
BY IndInit, IndStep, PTL DEF Spec

(* One write per admission of a key, for any number of attempts, any lease  *)
(* (none included), any retention longer than the longest request, and      *)
(* whatever is crashed, delayed or lost on the way.                         *)
THEOREM AtMostOneEffect == Spec => []OneEffect
<1>1. IndInv => OneEffect
  BY DEF IndInv
<1> QED
  BY <1>1, Inductive, PTL

----------------------------------------------------------------------------
(* What an answer, a receipt and a mark say.                                *)

(* Whose reference is whose: a reference belongs to the admission that      *)
(* minted it, and the record names the one its attempt was admitted under.  *)
RefInv ==
    /\ rec.live => /\ epoch > 0
                   /\ opref[rec.claim] = rec.ref
                   /\ track => rec.ref \in Attempts
    /\ \A a \in Attempts : opref[a] # None =>
          track /\ pc[opref[a]] # "idle" /\ gen[opref[a]] = gen[a]
    /\ \A a \in Attempts : track /\ pc[a] \in InFlight => opref[a] \in Attempts
    /\ \A r \in Attempts : receipts[r].live => pc[r] # "idle"

(* An outcome that is staged is the only one, on a receipt that has none:   *)
(* the row lock keeps it so until the transaction ends.                     *)
Staged(a) == staged[a].outcome # ""
Blank(r) == receipts[r].live /\ receipts[r].outcome = ""

StagedInv ==
    \A a \in Attempts : Staged(a) =>
        /\ staged[a].outcome \in {"succeeded", "pending_approval"}
        /\ pc[a] \in {"finished", "marked"}
        /\ opref[a] \in Attempts
        /\ Blank(opref[a])
        /\ \A b \in Attempts \ {a} : Staged(b) => opref[b] # opref[a]

(* Where an attempt is says what became of its writes.                      *)
WorkInv ==
    \A a \in Attempts :
        /\ pc[a] \in {"idle", "claimed", "reserved", "running", "finished", "marked"} =>
              work[a] = "none"
        /\ pc[a] = "committed" => work[a] # "rolledback"
        /\ pc[a] \in {"failing", "failmarked"} => track

(* An answer is landed by the attempt that is over with it.                 *)
AnswerInv == (rec.live /\ rec.completed) => pc[rec.claim] = "done"

(* A success, or an approval to wait for, was committed by somebody.        *)
PaidInv ==
    \A r \in Attempts :
        (receipts[r].live /\ receipts[r].outcome \in {"succeeded", "pending_approval"}) =>
            \E a \in Attempts : opref[a] = r /\ work[a] = "committed"

(* A receipt that failed is one whose record's attempt is past its write.   *)
FailedInv ==
    \A r \in Attempts :
        (receipts[r].live /\ receipts[r].outcome = "failed" /\ rec.live /\ rec.ref = r) =>
            rec.began /\ pc[rec.claim] \in {"committed", "failed", "done"}

(* A mark stands for a write that committed, or for an outcome on record.   *)
MarkInv == (rec.live /\ effect.committed) => work[rec.claim] = "committed" \/ KnownOutcome

TruthInv ==
    /\ RefInv
    /\ StagedInv
    /\ WorkInv
    /\ AnswerInv
    /\ PaidInv
    /\ FailedInv
    /\ MarkInv
    /\ ReplayTruth

(* The attempt that has marked is the one the record and the fence name.    *)
LEMMA Held ==
    ASSUME IndInv, NEW a \in Attempts, pc[a] \in {"marked", "failmarked"}
    PROVE  /\ marking.by = a /\ rec.live /\ rec.claim = a /\ rec.began
           /\ gen[a] = epoch /\ effect.live /\ effect.claim = a
<1>1. marking.by = a /\ rec.live
  BY DEF IndInv, LockInv, ClockInv, InFlight, Working
<1> QED
  BY <1>1, AttemptAssumption DEF IndInv, LockInv, FenceInv, GenInv, BegunInv, Working

(* With no attempt admitted there is nothing to be untrue about. *)
LEMMA TruthInit == Init => TruthInv
<1> SUFFICES ASSUME Init PROVE TruthInv
  OBVIOUS
<1>1. /\ ~rec.live
      /\ \A a \in Attempts : /\ opref[a] = None /\ ~Staged(a) /\ work[a] = "none"
                             /\ pc[a] = "idle" /\ ~receipts[a].live
  BY DEF Init, NoRec, NoReceipt, NotStaged, Staged
<1>2. RefInv /\ StagedInv /\ WorkInv
  BY <1>1 DEF RefInv, StagedInv, WorkInv, InFlight, Working
<1>3. AnswerInv /\ PaidInv /\ FailedInv /\ MarkInv /\ ReplayTruth
  BY <1>1 DEF AnswerInv, PaidInv, FailedInv, MarkInv, ReplayTruth
<1> QED
  BY <1>2, <1>3 DEF TruthInv

RecKept == UNCHANGED rec \/ rec' = [rec EXCEPT !.began = TRUE]

(* A step of one attempt that names nobody new and writes no receipt and no *)
(* answer.                                                                  *)
LEMMA QuietStep ==
    ASSUME IndInv, TruthInv, NEW a \in Attempts,
           UNCHANGED <<track, effect, receipts, opref, epoch, gen>>,
           RecKept,
           \A b \in Attempts \ {a} : pc'[b] = pc[b] /\ work'[b] = work[b],
           \A b \in Attempts : Staged(b)' =>
               Staged(b) /\ staged'[b] = staged[b] /\ pc'[b] \in {"finished", "marked"},
           pc[a] # "done", pc'[a] # "idle",
           pc'[a] \in InFlight => pc[a] \in InFlight,
           pc[a] \in {"committed", "failed"} => pc'[a] \in {"committed", "failed", "done"},
           pc'[a] \in {"claimed", "reserved", "running", "finished", "marked"} =>
               work'[a] = "none",
           pc'[a] = "committed" => work'[a] # "rolledback",
           pc'[a] \in {"failing", "failmarked"} => track,
           work[a] = "committed" <=> work'[a] = "committed"
    PROVE  TruthInv'
<1> USE DEF TruthInv
<1>1. \A b \in Attempts : /\ pc[b] # "idle" => pc'[b] # "idle"
                          /\ pc'[b] \in InFlight => pc[b] \in InFlight
                          /\ work[b] = "committed" <=> work'[b] = "committed"
                          /\ pc[b] = "done" => pc'[b] = "done" /\ work'[b] = work[b]
                          /\ pc[b] \in {"committed", "failed", "done"} =>
                                pc'[b] \in {"committed", "failed", "done"}
  OBVIOUS
<1>2. rec.live => rec.claim \in Attempts
  BY DEF IndInv, FenceInv
<1> SUFFICES ASSUME rec'.live = rec.live, rec'.claim = rec.claim, rec'.ref = rec.ref,
                    rec'.completed = rec.completed, rec'.ok = rec.ok, rec.began => rec'.began
             PROVE  TruthInv'
  <2>1. rec \in RecType
    BY DEF IndInv, TypeOK
  <2> QED
    BY <2>1 DEF RecType, RecKept
<1>0. /\ track' = track /\ opref' = opref /\ gen' = gen /\ epoch' = epoch
      /\ receipts' = receipts /\ effect' = effect
  OBVIOUS
<1>0a. \A b \in Attempts : opref[b] \in Attempts \cup {None}
  BY DEF IndInv, TypeOK, Claimants
<1>3. RefInv'
  <2>1. rec'.live => /\ epoch' > 0 /\ opref'[rec'.claim] = rec'.ref
                     /\ track' => rec'.ref \in Attempts
    <3>1. rec.live => epoch > 0 /\ opref[rec.claim] = rec.ref /\ (track => rec.ref \in Attempts)
      BY DEF RefInv
    <3> QED
      BY <3>1, <1>0
  <2>2. ASSUME NEW b \in Attempts, opref[b] # None
        PROVE  track /\ pc'[opref[b]] # "idle" /\ gen[opref[b]] = gen[b]
    BY <2>2, <1>0a, <1>1 DEF RefInv
  <2>3. ASSUME NEW b \in Attempts, track, pc'[b] \in InFlight PROVE opref[b] \in Attempts
    BY <2>3, <1>1 DEF RefInv
  <2>4. ASSUME NEW b \in Attempts, receipts[b].live PROVE pc'[b] # "idle"
    BY <2>4, <1>1 DEF RefInv
  <2> QED
    BY <2>1, <2>2, <2>3, <2>4, <1>0 DEF RefInv
<1>4. StagedInv'
  <2>1. \A r \in Attempts : Blank(r)' = Blank(r)
    BY <1>0 DEF Blank
  <2> QED
    BY <2>1, <1>0 DEF StagedInv
<1>5. WorkInv'
  BY DEF WorkInv
<1>6. AnswerInv'
  BY <1>1, <1>2 DEF AnswerInv
<1>7. PaidInv'
  BY <1>1 DEF PaidInv
<1>8. FailedInv'
  <2> SUFFICES ASSUME NEW r \in Attempts, receipts[r].live, receipts[r].outcome = "failed",
                      rec.live, rec.ref = r
               PROVE  rec'.began /\ pc'[rec.claim] \in {"committed", "failed", "done"}
    BY <1>0 DEF FailedInv
  <2> QED
    BY <1>1, <1>2 DEF FailedInv
<1>9. MarkInv'
  <2>1. KnownOutcome' = KnownOutcome
    BY DEF KnownOutcome
  <2> QED
    BY <2>1, <1>1, <1>2 DEF MarkInv
<1>10. ReplayTruth'
  <2> SUFFICES ASSUME rec.live, rec.completed
               PROVE  IF rec.ok THEN work'[rec.claim] # "rolledback"
                      ELSE \A b \in Attempts : gen[b] = epoch => work'[b] # "committed"
    BY <1>0 DEF ReplayTruth
  <2>1. work'[rec.claim] = work[rec.claim]
    BY <1>1, <1>2 DEF AnswerInv
  <2> QED
    BY <2>1, <1>1 DEF ReplayTruth
<1> QED
  BY <1>3, <1>4, <1>5, <1>6, <1>7, <1>8, <1>9, <1>10

(* Steps of a request that stage, land and write nothing.                   *)
LEMMA RequestQuiet ==
    ASSUME IndInv, TruthInv, NEW a \in Attempts,
           \/ \E body \in Bodies : ClaimAnswered(a, body) /\ pc[a] = "idle"
           \/ Begin(a) \/ Fail(a) \/ AnswerWithoutTx(a)
           \/ Mark(a) \/ FailMark(a) \/ FailUnrecorded(a) \/ Abandon(a)
    PROVE  TruthInv'
<1>0. /\ pc \in [Attempts -> Phases] /\ rec \in RecType /\ work \in [Attempts -> {"none", "committed", "rolledback"}]
      /\ staged \in [Attempts -> [outcome : Outcomes, at : Nat]]
  BY DEF IndInv, TypeOK
<1>1. UNCHANGED <<track, effect, receipts, opref, epoch, gen>>
  BY DEF ClaimAnswered, Begin, Fail, AnswerWithoutTx, Mark, FailMark, FailUnrecorded, Abandon
<1>2. RecKept
  BY DEF RecKept, ClaimAnswered, Begin, Fail, AnswerWithoutTx, Mark, FailMark, FailUnrecorded, Abandon
<1>3. \A b \in Attempts \ {a} : pc'[b] = pc[b] /\ work'[b] = work[b]
  BY <1>0 DEF ClaimAnswered, Begin, Fail, AnswerWithoutTx, Mark, FailMark, FailUnrecorded, Abandon
<1>4. /\ pc[a] # "done" /\ pc'[a] # "idle"
      /\ pc'[a] \in InFlight => pc[a] \in InFlight
      /\ pc[a] \in {"committed", "failed"} => pc'[a] \in {"committed", "failed", "done"}
  BY <1>0 DEF ClaimAnswered, Begin, Fail, AnswerWithoutTx, Mark, FailMark, FailUnrecorded, Abandon,
              InFlight, Working
<1>5. /\ pc[a] \in {"idle", "claimed", "reserved", "running", "finished", "marked"} => work[a] = "none"
      /\ pc[a] = "committed" => work[a] # "rolledback"
      /\ pc[a] \in {"failing", "failmarked"} => track
      /\ work[a] = "committed" => pc[a] \in {"committed", "done"}
  BY DEF TruthInv, WorkInv, IndInv, CommittedInv
<1>6. /\ pc'[a] \in {"claimed", "reserved", "running", "finished", "marked"} => work'[a] = "none"
      /\ pc'[a] = "committed" => work'[a] # "rolledback"
      /\ pc'[a] \in {"failing", "failmarked"} => track
      /\ work[a] = "committed" <=> work'[a] = "committed"
  <2>1. CASE Fail(a)
    BY <2>1, <1>0, <1>5 DEF Fail
  <2>2. CASE Begin(a) \/ AnswerWithoutTx(a) \/ FailMark(a) \/ FailUnrecorded(a)
             \/ \E body \in Bodies : ClaimAnswered(a, body)
    BY <2>2, <1>0, <1>5 DEF ClaimAnswered, Begin, AnswerWithoutTx, FailMark, FailUnrecorded
  <2>3. CASE Mark(a)
    BY <2>3, <1>0, <1>5 DEF Mark
  <2>4. CASE Abandon(a)
    BY <2>4, <1>0, <1>5 DEF Abandon
  <2> QED
    BY <2>1, <2>2, <2>3, <2>4
<1>7. \A b \in Attempts : Staged(b)' =>
         Staged(b) /\ staged'[b] = staged[b] /\ pc'[b] \in {"finished", "marked"}
  <2>1. staged' = staged \/ staged' = [staged EXCEPT ![a] = NotStaged]
    BY DEF ClaimAnswered, Begin, Fail, AnswerWithoutTx, Mark, FailMark, FailUnrecorded, Abandon
  <2>2. NotStaged.outcome = ""
    BY DEF NotStaged
  <2>3. \A b \in Attempts : Staged(b)' => Staged(b) /\ staged'[b] = staged[b]
    BY <2>1, <2>2, <1>0 DEF Staged
  <2>4. \A b \in Attempts : Staged(b) => pc[b] \in {"finished", "marked"}
    BY DEF TruthInv, StagedInv
  <2>5. ~Staged(a)' \/ pc'[a] \in {"finished", "marked"}
    <3>1. CASE Mark(a)
      BY <3>1, <2>2, <1>0 DEF Mark, Staged
    <3>2. CASE Abandon(a)
      BY <3>2, <2>2, <1>0 DEF Abandon, Staged
    <3>3. CASE ~Mark(a) /\ ~Abandon(a)
      <4>1. pc[a] \notin {"finished", "marked"}
        BY <3>3 DEF ClaimAnswered, Begin, Fail, AnswerWithoutTx, FailMark, FailUnrecorded
      <4> QED
        BY <4>1, <2>3, <2>4
    <3> QED
      BY <3>1, <3>2, <3>3
  <2> QED
    BY <2>3, <2>4, <2>5, <1>3
<1>8. IndInv /\ TruthInv
  OBVIOUS
<1> QED
  BY ONLY <1>1, <1>2, <1>3, <1>4, <1>6, <1>7, <1>8, QuietStep

(* The handler's outcome is staged on a receipt nobody else has locked.     *)
LEMMA FinishTruth ==
    ASSUME IndInv, TruthInv, NEW a \in Attempts, NEW outcome \in Decided, Finish(a, outcome)
    PROVE  TruthInv'
<1>0. /\ pc \in [Attempts -> Phases] /\ staged \in [Attempts -> [outcome : Outcomes, at : Nat]]
  BY DEF IndInv, TypeOK
<1>1. /\ UNCHANGED <<track, rec, effect, receipts, opref, work, epoch, gen>>
      /\ pc[a] = "running" /\ pc' = [pc EXCEPT ![a] = "finished"]
  BY DEF Finish
<1>2. /\ pc[a] # "done" /\ pc'[a] = "finished" /\ pc[a] \in InFlight
      /\ \A b \in Attempts \ {a} : pc'[b] = pc[b] /\ work'[b] = work[b]
      /\ work[a] = "none" /\ work'[a] = "none"
  BY <1>0, <1>1 DEF InFlight, Working, TruthInv, WorkInv
<1>3. \A b \in Attempts : Staged(b) => pc[b] \in {"finished", "marked"}
  BY DEF TruthInv, StagedInv
<1>4. CASE staged' = staged
  <2>1. \A b \in Attempts : Staged(b)' =>
           Staged(b) /\ staged'[b] = staged[b] /\ pc'[b] \in {"finished", "marked"}
    BY <1>1, <1>2, <1>3, <1>4 DEF Staged
  <2> QED
    BY <1>1, <1>2, <2>1, QuietStep DEF RecKept
<1>5. CASE staged' # staged
  <2>1. /\ outcome \in {"succeeded", "pending_approval"} /\ track
        /\ staged' = [staged EXCEPT ![a] = [outcome |-> outcome, at |-> now]]
        /\ Blank(opref[a]) /\ ~ReceiptLocked(opref[a])
    BY <1>5 DEF Finish, Decided, Blank
  <2>2. opref[a] \in Attempts
    BY <2>1, <1>2 DEF TruthInv, RefInv
  <2>3. \A b \in Attempts \ {a} : Staged(b) => opref[b] # opref[a]
    BY <2>1, <1>3 DEF ReceiptLocked, Staged
  <2>4. /\ staged'[a].outcome = outcome
        /\ \A b \in Attempts \ {a} : staged'[b] = staged[b] /\ Staged(b)' = Staged(b)
    BY <2>1, <1>0 DEF Staged
  <2>5. StagedInv'
    <3>1. \A r \in Attempts : Blank(r)' = Blank(r)
      BY <1>1 DEF Blank
    <3>2. ~Staged(a)
      BY <1>1, <1>3
    <3> QED
      BY <2>1, <2>2, <2>3, <2>4, <3>1, <3>2, <1>1, <1>2 DEF TruthInv, StagedInv
  <2>6. RefInv' /\ WorkInv'
    <3>1. \A b \in Attempts : /\ pc'[b] # "idle" <=> pc[b] # "idle"
                              /\ pc'[b] \in InFlight <=> pc[b] \in InFlight
      BY <1>1, <1>2 DEF InFlight, Working
    <3>2. \A b \in Attempts : opref[b] \in Attempts \cup {None}
      BY DEF IndInv, TypeOK, Claimants
    <3>3. RefInv'
      BY <1>1, <3>1, <3>2 DEF TruthInv, RefInv
    <3>4. WorkInv'
      BY <1>1, <1>2 DEF TruthInv, WorkInv
    <3> QED
      BY <3>3, <3>4
  <2>7. AnswerInv' /\ FailedInv'
    <3>1. rec.live => rec.claim \in Attempts
      BY DEF IndInv, FenceInv
    <3>2. AnswerInv'
      BY <3>1, <1>1, <1>2 DEF TruthInv, AnswerInv
    <3>3. FailedInv'
      BY <3>1, <1>1, <1>2 DEF TruthInv, FailedInv
    <3> QED
      BY <3>2, <3>3
  <2>8. PaidInv' /\ MarkInv' /\ ReplayTruth'
    BY <1>1 DEF TruthInv, PaidInv, MarkInv, ReplayTruth, KnownOutcome
  <2> QED
    BY <2>5, <2>6, <2>7, <2>8 DEF TruthInv
<1> QED
  BY <1>4, <1>5

(* An answer is landed by the attempt the record names, and says what       *)
(* became of its write.                                                     *)
LEMMA CompleteTruth ==
    ASSUME IndInv, TruthInv, NEW a \in Attempts, NEW kept \in BOOLEAN, Complete(a, kept)
    PROVE  TruthInv'
<1> USE DEF TruthInv
<1>1. /\ UNCHANGED <<track, effect, receipts, opref, staged, work, epoch, gen>>
      /\ pc[a] \in {"committed", "failed"} /\ pc' = [pc EXCEPT ![a] = "done"]
  BY DEF Complete
<1>2. /\ pc[a] # "done" /\ pc'[a] = "done"
      /\ \A b \in Attempts \ {a} : pc'[b] = pc[b] /\ work'[b] = work[b]
  BY <1>1 DEF IndInv, TypeOK
<1>3. \A b \in Attempts : Staged(b)' =>
         Staged(b) /\ staged'[b] = staged[b] /\ pc'[b] \in {"finished", "marked"}
  <2>1. \A b \in Attempts : Staged(b) => pc[b] \in {"finished", "marked"}
    BY DEF StagedInv
  <2> QED
    BY <1>1, <1>2, <2>1 DEF Staged
<1>4. CASE ~Holds(a)
  <2>1. UNCHANGED rec
    BY <1>4 DEF Complete
  <2>2. "done" \notin InFlight /\ work'[a] = work[a]
    BY <1>1 DEF InFlight, Working
  <2> QED
    BY <1>1, <1>2, <1>3, <2>1, <2>2, QuietStep DEF RecKept
<1>5. CASE Holds(a)
  <2>1. rec.live /\ rec.claim = a /\ rec \in RecType
    BY <1>5 DEF Holds, IndInv, TypeOK
  <2> SUFFICES ASSUME rec'.live = rec.live, rec'.claim = rec.claim, rec'.ref = rec.ref,
                      rec'.began = rec.began, rec'.completed, rec'.ok = (pc[a] = "committed")
               PROVE  TruthInv'
    <3>1. rec' = [rec EXCEPT !.completed = TRUE, !.recorded = kept, !.ok = (pc[a] = "committed")]
      BY <1>5 DEF Complete
    <3> QED
      BY <2>1, <3>1 DEF RecType
  <2>2. \A b \in Attempts : /\ pc[b] # "idle" => pc'[b] # "idle"
                            /\ pc'[b] \in InFlight => pc[b] \in InFlight
    BY <1>2 DEF InFlight, Working
  <2>3. RefInv'
    <3>1. \A b \in Attempts : opref[b] \in Attempts \cup {None}
      BY DEF IndInv, TypeOK, Claimants
    <3>2. ASSUME NEW b \in Attempts, opref[b] # None
          PROVE  track /\ pc'[opref[b]] # "idle" /\ gen[opref[b]] = gen[b]
      BY <3>1, <3>2, <2>2 DEF RefInv
    <3>3. ASSUME NEW b \in Attempts, track, pc'[b] \in InFlight PROVE opref[b] \in Attempts
      BY <3>3, <2>2 DEF RefInv
    <3>4. rec.live => epoch > 0 /\ opref[rec.claim] = rec.ref /\ (track => rec.ref \in Attempts)
      BY DEF RefInv
    <3>5. ASSUME NEW b \in Attempts, receipts[b].live PROVE pc'[b] # "idle"
      BY <3>5, <2>2 DEF RefInv
    <3> QED
      BY <3>2, <3>3, <3>4, <3>5, <1>1 DEF RefInv
  <2>4. StagedInv'
    <3>1. \A r \in Attempts : Blank(r)' = Blank(r)
      BY <1>1 DEF Blank
    <3> QED
      BY <3>1, <1>1, <1>3 DEF StagedInv
  <2>5. WorkInv' /\ PaidInv'
    BY <1>1, <1>2 DEF WorkInv, PaidInv
  <2>6. AnswerInv' /\ FailedInv'
    BY <1>1, <1>2, <2>1 DEF AnswerInv, FailedInv
  <2>7. MarkInv'
    <3>1. KnownOutcome' = KnownOutcome
      BY <1>1 DEF KnownOutcome
    <3> QED
      BY <3>1, <1>1 DEF MarkInv
  <2>8. ReplayTruth'
    <3>1. CASE pc[a] = "committed"
      <4>1. work[a] # "rolledback"
        BY <3>1 DEF WorkInv
      <4> QED
        BY <3>1, <4>1, <1>1, <2>1 DEF ReplayTruth
    <3>2. CASE pc[a] = "failed"
      <4>1. \A b \in Attempts : gen[b] = epoch => work[b] # "committed"
        BY <3>2, <2>1 DEF IndInv, CommittedInv
      <4> QED
        BY <3>2, <4>1, <1>1 DEF ReplayTruth
    <3> QED
      BY <3>1, <3>2, <1>1
  <2> QED
    BY <2>3, <2>4, <2>5, <2>6, <2>7, <2>8
<1> QED
  BY <1>4, <1>5

(* A reservation writes a receipt where there is none.                      *)
LEMMA ReserveTruth ==
    ASSUME IndInv, TruthInv, NEW a \in Attempts, Reserve(a)
    PROVE  TruthInv'
<1> USE DEF TruthInv
<1>1. /\ UNCHANGED <<track, rec, effect, opref, staged, work, epoch, gen>> /\ track
      /\ pc[a] = "claimed" /\ pc' = [pc EXCEPT ![a] = "reserved"]
  BY DEF Reserve
<1>2. /\ pc'[a] = "reserved" /\ pc[a] \in InFlight /\ pc'[a] \in InFlight /\ opref[a] \in Attempts
      /\ \A b \in Attempts \ {a} : pc'[b] = pc[b]
  BY <1>1 DEF RefInv, InFlight, Working, IndInv, TypeOK
<1>3. /\ receipts'[opref[a]].live
      /\ \A r \in Attempts : receipts[r].live => receipts'[r] = receipts[r]
      /\ \A r \in Attempts : receipts'[r].live => receipts[r].live \/ (r = opref[a] /\ Blank(r)')
  <2>1. CASE receipts[opref[a]].live
    BY <2>1, <1>2 DEF Reserve
  <2>2. CASE ~receipts[opref[a]].live
    <3>1. receipts' = [receipts EXCEPT ![opref[a]] = [live |-> TRUE, outcome |-> "",
                                                      started |-> at[opref[a]], outcomeAt |-> 0]]
      BY <2>2 DEF Reserve
    <3>2. receipts'[opref[a]].live /\ receipts'[opref[a]].outcome = ""
          /\ \A r \in Attempts \ {opref[a]} : receipts'[r] = receipts[r]
      BY <3>1, <1>2 DEF IndInv, TypeOK
    <3> QED
      BY <3>2, <2>2, <1>2 DEF Blank
  <2> QED
    BY <2>1, <2>2
<1>4. RefInv'
  <2>1. \A b \in Attempts : /\ pc[b] # "idle" <=> pc'[b] # "idle"
                            /\ pc'[b] \in InFlight <=> pc[b] \in InFlight
    BY <1>1, <1>2
  <2>2. \A b \in Attempts : opref[b] \in Attempts \cup {None}
    BY DEF IndInv, TypeOK, Claimants
  <2>3. ASSUME NEW b \in Attempts, opref[b] # None
        PROVE  track /\ pc'[opref[b]] # "idle" /\ gen[opref[b]] = gen[b]
    BY <2>1, <2>2, <2>3 DEF RefInv
  <2>4. pc'[opref[a]] # "idle"
    BY <2>3, <1>2, AttemptAssumption
  <2>5. ASSUME NEW r \in Attempts, receipts'[r].live PROVE pc'[r] # "idle"
    BY <2>1, <2>4, <2>5, <1>3 DEF RefInv
  <2>6. ASSUME NEW b \in Attempts, track, pc'[b] \in InFlight PROVE opref[b] \in Attempts
    BY <2>1, <2>6 DEF RefInv
  <2> QED
    BY <2>3, <2>5, <2>6, <1>1 DEF RefInv
<1>5. StagedInv'
  <2>1. \A r \in Attempts : Blank(r) => Blank(r)'
    BY <1>3 DEF Blank
  <2>2. \A b \in Attempts : Staged(b)' = Staged(b)
    BY <1>1 DEF Staged
  <2> QED
    BY <2>1, <2>2, <1>1, <1>2 DEF StagedInv
<1>6. WorkInv' /\ AnswerInv'
  <2>1. rec.live => rec.claim \in Attempts
    BY DEF IndInv, FenceInv
  <2>2. WorkInv'
    BY <1>1, <1>2 DEF WorkInv
  <2>3. AnswerInv'
    BY <1>1, <1>2, <2>1 DEF AnswerInv
  <2> QED
    BY <2>2, <2>3
<1>7. PaidInv' /\ FailedInv'
  <2>1. \A r \in Attempts : Blank(r)' => receipts'[r].outcome \notin {"succeeded", "pending_approval", "failed"}
    BY DEF Blank
  <2>2. rec.live => rec.claim \in Attempts
    BY DEF IndInv, FenceInv
  <2>3. PaidInv'
    BY <2>1, <1>1, <1>3 DEF PaidInv
  <2>4. ASSUME NEW r \in Attempts, receipts'[r].live, receipts'[r].outcome = "failed",
               rec.live, rec.ref = r
        PROVE  rec.began /\ pc'[rec.claim] \in {"committed", "failed", "done"}
    BY <2>1, <2>2, <2>4, <1>1, <1>2, <1>3 DEF FailedInv
  <2> QED
    BY <2>3, <2>4, <1>1 DEF FailedInv
<1>8. MarkInv' /\ ReplayTruth'
  <2>1. rec.live /\ KnownOutcome => KnownOutcome'
    BY <1>1, <1>3 DEF KnownOutcome, RefInv
  <2>2. MarkInv'
    BY <2>1, <1>1 DEF MarkInv
  <2>3. ReplayTruth'
    BY <1>1 DEF ReplayTruth
  <2> QED
    BY <2>2, <2>3
<1> QED
  BY <1>4, <1>5, <1>6, <1>7, <1>8

(* Taking the key: a fresh key has a reference no receipt knows, and a      *)
(* record whose outcome is known is not taken over.                         *)
LEMMA ClaimTruth ==
    ASSUME IndInv, TruthInv, NEW a \in Attempts, NEW body \in Bodies,
           pc[a] = "idle", ClaimFirst(a, body)
    PROVE  TruthInv'
<1> DEFINE fresh == ~rec.live \/ ClaimExpired
           ref == IF fresh THEN IF track THEN a ELSE None ELSE rec.ref
<1> USE DEF TruthInv
<1>1. /\ UNCHANGED <<track, receipts, staged, work>>
      /\ pc' = [pc EXCEPT ![a] = "claimed"] /\ opref' = [opref EXCEPT ![a] = ref]
      /\ epoch' = IF fresh THEN epoch + 1 ELSE epoch
      /\ gen' = [gen EXCEPT ![a] = epoch']
      /\ Verdict(body) = "first"
  <2>1. rec'.ref = ref
    BY DEF ClaimFirst, Taken
  <2> QED
    BY <2>1 DEF ClaimFirst
<1>2. /\ rec'.live /\ rec'.claim = a /\ ~rec'.completed /\ rec'.ref = ref /\ ~effect'.committed
  BY DEF ClaimFirst, Taken, Fence
<1> HIDE DEF ref
<1>3. /\ pc'[a] = "claimed" /\ opref'[a] = ref /\ gen'[a] = epoch'
      /\ \A b \in Attempts \ {a} : pc'[b] = pc[b] /\ opref'[b] = opref[b] /\ gen'[b] = gen[b]
  BY <1>1 DEF IndInv, TypeOK
<1>4. /\ track' = track /\ receipts' = receipts /\ staged' = staged /\ work' = work
      /\ work[a] = "none" /\ ~Staged(a) /\ ~receipts[a].live
      /\ \A b \in Attempts : opref[b] \in Attempts \cup {None} /\ opref[b] # a
  <2>1. ASSUME NEW b \in Attempts PROVE opref[b] \in Attempts \cup {None} /\ opref[b] # a
    BY AttemptAssumption DEF IndInv, TypeOK, Claimants, RefInv
  <2> QED
    BY <2>1, <1>1 DEF WorkInv, StagedInv, RefInv
<1>5. ~fresh => /\ rec.live /\ rec.claim \in Attempts /\ ref = rec.ref
                /\ opref[rec.claim] = rec.ref /\ gen[rec.claim] = epoch /\ epoch > 0
                /\ track => rec.ref \in Attempts
  BY DEF RefInv, IndInv, FenceInv, GenInv, ref
<1>6. fresh => ref = IF track THEN a ELSE None
  BY DEF ref
<1> HIDE DEF fresh
<1>7. RefInv'
  <2>1. epoch' > 0
    <3>1. epoch \in Nat
      BY DEF IndInv, TypeOK
    <3> QED
      BY <3>1, <1>1, <1>5
  <2>2. track => ref \in Attempts
    BY <1>5, <1>6
  <2>3. ref # None => track /\ pc'[ref] # "idle" /\ gen'[ref] = epoch'
    <3>1. CASE fresh
      BY <3>1, <1>3, <1>6
    <3>2. CASE ~fresh
      <4>1. ASSUME ref # None
            PROVE  track /\ ref \in Attempts \ {a} /\ pc[ref] # "idle" /\ gen[ref] = epoch
        BY <4>1, <1>4, <1>5, <3>2 DEF RefInv
      <4> QED
        BY <4>1, <3>2, <1>1, <1>3
    <3> QED
      BY <3>1, <3>2
  <2>4. ASSUME NEW b \in Attempts, opref'[b] # None
        PROVE  track /\ pc'[opref'[b]] # "idle" /\ gen'[opref'[b]] = gen'[b]
    <3>1. CASE b = a
      BY <2>3, <2>4, <3>1, <1>3
    <3>2. CASE b # a
      <4>1. opref'[b] = opref[b] /\ opref[b] \in Attempts \ {a}
        BY <2>4, <3>2, <1>3, <1>4
      <4> QED
        BY <2>4, <3>2, <4>1, <1>3 DEF RefInv
    <3> QED
      BY <3>1, <3>2
  <2>5. ASSUME NEW b \in Attempts, track, pc'[b] \in InFlight PROVE opref'[b] \in Attempts
    BY <2>2, <2>5, <1>3 DEF RefInv
  <2>6. ASSUME NEW r \in Attempts, receipts[r].live PROVE pc'[r] # "idle"
    BY <2>6, <1>3 DEF RefInv
  <2> QED
    BY <2>1, <2>2, <2>4, <2>5, <2>6, <1>2, <1>3, <1>4 DEF RefInv
<1>8. StagedInv'
  <2>1. \A r \in Attempts : Blank(r)' = Blank(r)
    BY <1>4 DEF Blank
  <2>2. \A b \in Attempts : Staged(b)' = Staged(b)
    BY <1>4 DEF Staged
  <2> QED
    BY <2>1, <2>2, <1>3, <1>4 DEF StagedInv
<1>9. WorkInv' /\ AnswerInv'
  BY <1>2, <1>3, <1>4 DEF WorkInv, AnswerInv
<1>10. PaidInv'
  BY <1>3, <1>4 DEF PaidInv
<1>11. FailedInv'
  <2> SUFFICES ASSUME NEW r \in Attempts, receipts[r].live, receipts[r].outcome = "failed", ref = r
               PROVE  FALSE
    BY <1>2, <1>4 DEF FailedInv
  <2>1. ~fresh
    BY <1>4, <1>6, AttemptAssumption
  <2>2. rec.live /\ rec.began /\ rec.ref = r /\ track /\ ~ClaimExpired
    BY <2>1, <1>5, AttemptAssumption DEF FailedInv, RefInv, fresh
  <2>3. KnownOutcome
    BY <2>2 DEF KnownOutcome
  <2>4. Decide(body) = "first"
    BY <2>2, <1>1 DEF Verdict
  <2> QED
    BY <2>2, <2>3, <2>4 DEF Decide
<1>12. MarkInv' /\ ReplayTruth'
  BY <1>2 DEF MarkInv, ReplayTruth
<1> QED
  BY <1>7, <1>8, <1>9, <1>10, <1>11, <1>12

(* A transition moves one receipt's outcome.                                *)
LEMMA Transition ==
    ASSUME TypeOK, NEW r \in Claimants, NEW outcome, NEW t, receipts' = WithOutcome(r, outcome, t)
    PROVE  /\ \A x \in Attempts \ {r} : receipts'[x] = receipts[x]
           /\ r \in Attempts => /\ receipts'[r].live = receipts[r].live
                                /\ receipts'[r].outcome = outcome
                                /\ receipts'[r].outcomeAt = t
  BY DEF WithOutcome, TypeOK

(* COMMIT: the outcome it staged becomes the receipt's, with the write.     *)
LEMMA CommitTruth ==
    ASSUME IndInv, TruthInv, NEW a \in Attempts, NEW heard \in BOOLEAN, Commit(a, heard)
    PROVE  TruthInv'
<1> USE DEF TruthInv
<1>1. /\ track' = track /\ rec' = rec /\ opref' = opref /\ epoch' = epoch /\ gen' = gen
      /\ pc[a] = "marked"
      /\ pc' = [pc EXCEPT ![a] = IF heard THEN "committed" ELSE "done"]
      /\ work' = [work EXCEPT ![a] = "committed"]
      /\ staged' = [staged EXCEPT ![a] = NotStaged]
  BY DEF Commit
<1>2. /\ pc'[a] \in {"committed", "done"} /\ work'[a] = "committed" /\ ~Staged(a)'
      /\ \A b \in Attempts \ {a} :
            pc'[b] = pc[b] /\ work'[b] = work[b] /\ staged'[b] = staged[b]
  BY <1>1 DEF IndInv, TypeOK, Staged, NotStaged
<1>3. rec.live /\ rec.claim = a /\ rec.began /\ gen[a] = epoch /\ ~rec.completed
  BY <1>1, Held DEF AnswerInv
<1>4. /\ Staged(a) => opref[a] \in Attempts /\ Blank(opref[a])
      /\ \A r \in Attempts : r # opref[a] \/ ~Staged(a) => receipts'[r] = receipts[r]
      /\ Staged(a) => /\ receipts'[opref[a]].live
                      /\ receipts'[opref[a]].outcome \in {"succeeded", "pending_approval"}
  <2>1. CASE Staged(a)
    <3>1. /\ opref[a] \in Attempts /\ Blank(opref[a])
          /\ staged[a].outcome \in {"succeeded", "pending_approval"}
      BY <2>1 DEF StagedInv
    <3>2. receipts' = WithOutcome(opref[a], staged[a].outcome, staged[a].at)
      BY <2>1 DEF Commit, Staged
    <3>3. /\ \A r \in Attempts \ {opref[a]} : receipts'[r] = receipts[r]
          /\ receipts'[opref[a]].live = receipts[opref[a]].live
          /\ receipts'[opref[a]].outcome = staged[a].outcome
      BY <3>1, <3>2, Transition DEF IndInv, Claimants
    <3>4. receipts[opref[a]].live
      BY <3>1 DEF Blank
    <3> QED
      BY <2>1, <3>1, <3>3, <3>4
  <2>2. CASE ~Staged(a)
    BY <2>2 DEF Commit, Staged
  <2> QED
    BY <2>1, <2>2
<1>5. \A r \in Attempts : receipts'[r].live <=> receipts[r].live
  BY <1>4 DEF Blank
<1>6. RefInv'
  <2>1. \A b \in Attempts : /\ pc'[b] # "idle" <=> pc[b] # "idle"
                            /\ pc'[b] \in InFlight => pc[b] \in InFlight
    BY <1>1, <1>2 DEF InFlight, Working
  <2>2. \A b \in Attempts : opref[b] \in Attempts \cup {None}
    BY DEF IndInv, TypeOK, Claimants
  <2> QED
    BY <2>1, <2>2, <1>1, <1>5 DEF RefInv
<1>7. StagedInv'
  <2>1. \A b \in Attempts \ {a} : Staged(b)' = Staged(b)
    BY <1>2 DEF Staged
  <2>2. ASSUME NEW b \in Attempts \ {a}, Staged(b) PROVE Blank(opref[b])'
    <3>1. opref[b] \in Attempts /\ Blank(opref[b])
      BY <2>2 DEF StagedInv
    <3>2. Staged(a) => opref[a] # opref[b]
      BY <2>2 DEF StagedInv
    <3>3. receipts'[opref[b]] = receipts[opref[b]]
      BY <3>1, <3>2, <1>4
    <3> QED
      BY <3>1, <3>3, <1>1 DEF Blank
  <2> QED
    BY <2>1, <2>2, <1>1, <1>2 DEF StagedInv
<1>8. WorkInv' /\ AnswerInv' /\ ReplayTruth'
  BY <1>1, <1>2, <1>3 DEF WorkInv, AnswerInv, ReplayTruth
<1>9. PaidInv'
  BY <1>1, <1>2, <1>4 DEF PaidInv
<1>10. FailedInv'
  BY <1>1, <1>2, <1>3 DEF FailedInv
<1>11. MarkInv'
  BY <1>1, <1>2, <1>3 DEF MarkInv
<1> QED
  BY <1>6, <1>7, <1>8, <1>9, <1>10, <1>11

(* A failure is recorded by the attempt that is past its write, on a        *)
(* receipt nobody has staged an outcome on.                                 *)
LEMMA FailTruth ==
    ASSUME IndInv, TruthInv, NEW a \in Attempts, FailCommit(a)
    PROVE  TruthInv'
<1> USE DEF TruthInv
<1>1. /\ track' = track /\ rec' = rec /\ opref' = opref /\ epoch' = epoch /\ gen' = gen
      /\ work' = work /\ staged' = staged
      /\ pc[a] = "failmarked" /\ pc' = [pc EXCEPT ![a] = "failed"]
      /\ receipts[opref[a]].live /\ ~ReceiptLocked(opref[a])
  BY DEF FailCommit
<1>2. /\ pc'[a] = "failed" /\ pc[a] \in InFlight /\ track
      /\ \A b \in Attempts \ {a} : pc'[b] = pc[b]
  BY <1>1 DEF IndInv, TypeOK, InFlight, Working, WorkInv
<1>3. rec.live /\ rec.claim = a /\ rec.began /\ gen[a] = epoch /\ ~rec.completed
      /\ rec.ref = opref[a] /\ opref[a] \in Attempts
  BY <1>1, <1>2, Held DEF AnswerInv, RefInv
<1>4. /\ \A r \in Attempts \ {opref[a]} : receipts'[r] = receipts[r]
      /\ receipts'[opref[a]].live
      /\ \/ receipts'[opref[a]].outcome = "failed"
         \/ receipts'[opref[a]] = receipts[opref[a]] /\ receipts[opref[a]].outcome \in Terminal
  <2>1. CASE receipts[opref[a]].outcome \in Terminal
    BY <2>1, <1>1 DEF FailCommit
  <2>2. CASE receipts[opref[a]].outcome \notin Terminal
    <3>1. receipts' = WithOutcome(opref[a], "failed", now)
      BY <2>2 DEF FailCommit
    <3> QED
      BY <3>1, <1>1, <1>3, Transition DEF IndInv, Claimants
  <2> QED
    BY <2>1, <2>2
<1>5. RefInv'
  <2>1. \A b \in Attempts : /\ pc'[b] # "idle" <=> pc[b] # "idle"
                            /\ pc'[b] \in InFlight => pc[b] \in InFlight
    BY <1>1, <1>2
  <2>2. \A b \in Attempts : opref[b] \in Attempts \cup {None}
    BY DEF IndInv, TypeOK, Claimants
  <2>3. \A r \in Attempts : receipts'[r].live => receipts[r].live
    BY <1>1, <1>4
  <2> QED
    BY <2>1, <2>2, <2>3, <1>1 DEF RefInv
<1>6. StagedInv'
  <2>1. \A b \in Attempts : Staged(b)' = Staged(b)
    BY <1>1 DEF Staged
  <2>2. ASSUME NEW b \in Attempts, Staged(b)
        PROVE  pc'[b] \in {"finished", "marked"} /\ Blank(opref[b])'
    <3>1. opref[b] \in Attempts /\ Blank(opref[b]) /\ pc[b] \in {"finished", "marked"}
      BY <2>2 DEF StagedInv
    <3>2. opref[b] # opref[a]
      BY <2>2, <3>1, <1>1 DEF ReceiptLocked, Staged
    <3>3. receipts'[opref[b]] = receipts[opref[b]]
      BY <3>1, <3>2, <1>4
    <3> QED
      BY <3>1, <3>3, <1>1, <1>2 DEF Blank
  <2> QED
    BY <2>1, <2>2, <1>1 DEF StagedInv
<1>7. WorkInv' /\ AnswerInv' /\ ReplayTruth'
  BY <1>1, <1>2, <1>3 DEF WorkInv, AnswerInv, ReplayTruth
<1>8. PaidInv'
  BY <1>1, <1>4 DEF PaidInv
<1>9. FailedInv'
  BY <1>1, <1>2, <1>3 DEF FailedInv
<1>10. MarkInv'
  <2>1. receipts'[opref[a]].outcome \in Terminal
    BY <1>4 DEF Terminal
  <2>1a. receipts'[opref[a]].outcome # ""
    BY <2>1 DEF Terminal
  <2>1b. track' /\ receipts'[rec'.ref] = receipts'[opref[a]]
    BY <1>1, <1>2, <1>3
  <2>2. KnownOutcome'
    BY <2>1a, <2>1b, <1>4 DEF KnownOutcome
  <2> QED
    BY <2>2 DEF MarkInv
<1> QED
  BY <1>5, <1>6, <1>7, <1>8, <1>9, <1>10

(* An owner decides a receipt whose write committed.                        *)
LEMMA OwnerTruth ==
    ASSUME IndInv, TruthInv, NEW a \in Attempts, NEW outcome \in Terminal, OwnerOutcome(a, outcome)
    PROVE  TruthInv'
<1> USE DEF TruthInv
<1>1. /\ track' = track /\ rec' = rec /\ opref' = opref /\ epoch' = epoch /\ gen' = gen
      /\ work' = work /\ staged' = staged /\ pc' = pc /\ effect' = effect
      /\ work[a] = "committed" /\ ~ReceiptLocked(opref[a]) /\ receipts[opref[a]].live
      /\ receipts' = WithOutcome(opref[a], outcome, now)
  BY DEF OwnerOutcome
<1>2. /\ opref[a] \in Claimants
      /\ \A r \in Attempts \ {opref[a]} : receipts'[r] = receipts[r]
      /\ opref[a] \in Attempts => /\ receipts'[opref[a]].live = receipts[opref[a]].live
                                  /\ receipts'[opref[a]].outcome = outcome
  <2>1. opref[a] \in Claimants
    BY DEF IndInv, TypeOK
  <2> QED
    BY <2>1, <1>1, Transition DEF IndInv
<1>3. RefInv'
  <2>1. \A r \in Attempts : receipts'[r].live => receipts[r].live
    BY <1>1, <1>2
  <2> QED
    BY <2>1, <1>1 DEF RefInv
<1>4. StagedInv'
  <2>1. \A b \in Attempts : Staged(b)' = Staged(b)
    BY <1>1 DEF Staged
  <2>2. ASSUME NEW b \in Attempts, Staged(b) PROVE Blank(opref[b])'
    <3>1. opref[b] \in Attempts /\ Blank(opref[b]) /\ pc[b] \in {"finished", "marked"}
      BY <2>2 DEF StagedInv
    <3>2. opref[b] # opref[a]
      BY <2>2, <3>1, <1>1 DEF ReceiptLocked, Staged
    <3>3. receipts'[opref[b]] = receipts[opref[b]]
      BY <3>1, <3>2, <1>2
    <3> QED
      BY <3>1, <3>3, <1>1 DEF Blank
  <2> QED
    BY <2>1, <2>2, <1>1 DEF StagedInv
<1>5. WorkInv' /\ AnswerInv' /\ ReplayTruth'
  BY <1>1 DEF WorkInv, AnswerInv, ReplayTruth
<1>6. PaidInv'
  BY <1>1, <1>2 DEF PaidInv
<1>7. FailedInv'
  <2> SUFFICES ASSUME NEW r \in Attempts, receipts'[r].live, receipts'[r].outcome = "failed",
                      rec.live, rec.ref = r
               PROVE  rec.began /\ pc[rec.claim] \in {"committed", "failed", "done"}
    BY <1>1 DEF FailedInv
  <2>1. CASE r # opref[a]
    BY <2>1, <1>2 DEF FailedInv
  <2>2. CASE r = opref[a]
    <3>1. rec.claim \in Attempts /\ gen[rec.claim] = epoch /\ opref[rec.claim] = r
      BY <1>1 DEF RefInv, IndInv, FenceInv, GenInv
    <3>2. gen[a] = gen[r] /\ gen[rec.claim] = gen[r]
      BY <2>2, <3>1, AttemptAssumption DEF RefInv
    <3>3. rec.claim = a /\ rec.began /\ pc[a] \in {"committed", "done"}
      BY <3>1, <3>2, <1>1 DEF IndInv, CommittedInv
    <3> QED
      BY <3>3
  <2> QED
    BY <2>1, <2>2
<1>8. MarkInv'
  <2>1. outcome # ""
    BY DEF Terminal
  <2>2. rec.live /\ KnownOutcome => KnownOutcome'
    BY <2>1, <1>1, <1>2 DEF KnownOutcome, RefInv
  <2> QED
    BY <2>2, <1>1 DEF MarkInv
<1> QED
  BY <1>3, <1>4, <1>5, <1>6, <1>7, <1>8

(* The purge takes a record only when nothing is in flight, and a receipt   *)
(* only once it is terminal and no record names it.                         *)
LEMMA PurgeTruth ==
    ASSUME IndInv, TruthInv, Purge
    PROVE  TruthInv'
<1> USE DEF TruthInv
<1>1. /\ track' = track /\ opref' = opref /\ epoch' = epoch /\ gen' = gen
      /\ work' = work /\ staged' = staged /\ pc' = pc
      /\ (rec.live /\ rec' = rec) \/ ~rec'.live
  BY DEF Purge, NoRec
<1>2. /\ \A r \in Attempts : receipts'[r] = receipts[r] \/ ~receipts'[r].live
      /\ \A r \in Attempts : Blank(r) => receipts'[r] = receipts[r]
      /\ rec'.live => effect' = effect
      /\ rec'.live /\ rec.ref \in Attempts => receipts'[rec.ref] = receipts[rec.ref]
  <2>1. ASSUME NEW r \in Attempts, receipts'[r] # receipts[r]
        PROVE  /\ ~receipts'[r].live
               /\ receipts[r].outcome \in Terminal
               /\ ~(rec'.live /\ rec.ref = r)
    BY <2>1 DEF Purge, ReceiptExpired, NoReceipt, NoRec
  <2>2. \A r \in Attempts : Blank(r) => receipts[r].outcome \notin Terminal
    BY DEF Blank, Terminal
  <2>3. rec'.live => effect' = effect
    BY DEF Purge, NoRec
  <2> QED
    BY <2>1, <2>2, <2>3
<1>3. RefInv'
  BY <1>1, <1>2 DEF RefInv
<1>4. StagedInv'
  <2>1. \A b \in Attempts : Staged(b)' = Staged(b)
    BY <1>1 DEF Staged
  <2>2. \A r \in Attempts : Blank(r) => Blank(r)'
    BY <1>2 DEF Blank
  <2> QED
    BY <2>1, <2>2, <1>1 DEF StagedInv
<1>5. WorkInv' /\ AnswerInv' /\ ReplayTruth'
  BY <1>1 DEF WorkInv, AnswerInv, ReplayTruth
<1>6. PaidInv'
  BY <1>1, <1>2 DEF PaidInv
<1>7. FailedInv'
  BY <1>1, <1>2 DEF FailedInv
<1>8. MarkInv'
  <2>1. rec'.live /\ KnownOutcome => KnownOutcome'
    BY <1>1, <1>2 DEF KnownOutcome, RefInv
  <2> QED
    BY <2>1, <1>1, <1>2 DEF MarkInv
<1> QED
  BY <1>3, <1>4, <1>5, <1>6, <1>7, <1>8

(* Every step keeps what the rows say true.                                 *)
LEMMA TruthStep == IndInv /\ TruthInv /\ [Next]_vars => TruthInv'
<1> SUFFICES ASSUME IndInv, TruthInv, [Next]_vars PROVE TruthInv'
  OBVIOUS
<1>1. CASE UNCHANGED vars \/ Tick
  <2>1. UNCHANGED <<track, rec, effect, receipts, pc, opref, staged, work, epoch, gen>>
    BY <1>1 DEF vars, Tick
  <2>2. /\ \A a \in Attempts : Staged(a)' = Staged(a)
        /\ \A r \in Attempts : Blank(r)' = Blank(r)
        /\ KnownOutcome' = KnownOutcome
    BY <2>1 DEF Staged, Blank, KnownOutcome
  <2>3. RefInv' /\ StagedInv' /\ WorkInv'
    BY <2>1, <2>2 DEF TruthInv, RefInv, StagedInv, WorkInv
  <2>4. AnswerInv' /\ PaidInv' /\ FailedInv' /\ MarkInv' /\ ReplayTruth'
    BY <2>1, <2>2 DEF TruthInv, AnswerInv, PaidInv, FailedInv, MarkInv, ReplayTruth
  <2> QED
    BY <2>3, <2>4 DEF TruthInv
<1>2. ASSUME NEW a \in Attempts, Step(a)
      PROVE  TruthInv'
  <2>1. ASSUME NEW body \in Bodies, Claim(a, body)
        PROVE  TruthInv'
    BY <2>1, ClaimTruth, RequestQuiet DEF Claim
  <2>2. CASE Begin(a) \/ Fail(a) \/ AnswerWithoutTx(a) \/ Mark(a) \/ FailMark(a)
             \/ FailUnrecorded(a) \/ Abandon(a)
    BY <2>2, RequestQuiet
  <2> QED
    BY <1>2, <2>1, <2>2, ReserveTruth, FinishTruth, CommitTruth, FailTruth, CompleteTruth,
       OwnerTruth DEF Step
<1>3. CASE Purge
  BY <1>3, PurgeTruth
<1> QED
  BY <1>1, <1>2, <1>3 DEF Next

(* What the rows say holds in every reachable state.                        *)
THEOREM Truthful == Spec => []TruthInv
<1>1. Init => IndInv /\ TruthInv
  BY IndInit, TruthInit
<1>2. IndInv /\ TruthInv /\ [Next]_vars => IndInv' /\ TruthInv'
  BY IndStep, TruthStep
<1> QED
  BY <1>1, <1>2, PTL DEF Spec

(* An answer that a retry is replayed is what became of the write: a 200 is *)
(* never a rolled-back one, and a refusal never stands over a commit of the *)
(* same admission (complete and the order of Close in kit/httpx).           *)
THEOREM AnswersTellTheTruth == Spec => []ReplayTruth
<1>1. TruthInv => ReplayTruth
  BY DEF TruthInv
<1> QED
  BY <1>1, Truthful, PTL

(* A receipt says succeeded only over a committed write, and a receipt that *)
(* says failed belongs to no attempt that can still commit                  *)
(* (finishOperation, failedOperation and RecordOutcome).                    *)
THEOREM ReceiptsTellTheTruth == Spec => []ReceiptTruth
<1>1. IndInv /\ TruthInv => ReceiptTruth
  <2> SUFFICES ASSUME IndInv, TruthInv, NEW r \in Attempts, receipts[r].live
               PROVE  /\ receipts[r].outcome \in {"succeeded", "pending_approval"} =>
                             \E a \in Attempts : opref[a] = r /\ work[a] = "committed"
                      /\ receipts[r].outcome = "failed" =>
                             \A a \in Attempts : opref[a] = r => pc[a] # "marked"
    BY DEF ReceiptTruth
  <2>1. receipts[r].outcome \in {"succeeded", "pending_approval"} =>
           \E a \in Attempts : opref[a] = r /\ work[a] = "committed"
    BY DEF TruthInv, PaidInv
  <2>2. ASSUME receipts[r].outcome = "failed", NEW a \in Attempts, opref[a] = r, pc[a] = "marked"
        PROVE  FALSE
    <3>1. rec.live /\ rec.claim = a
      BY <2>2, Held
    <3>2. rec.ref = r
      BY <2>2, <3>1 DEF TruthInv, RefInv
    <3> QED
      BY <2>2, <3>1, <3>2 DEF TruthInv, FailedInv
  <2> QED
    BY <2>1, <2>2
<1> QED
  BY <1>1, Inductive, Truthful, PTL

(* A write that was rolled back or lost can be made again: the record is    *)
(* spent only over a commit or a known outcome, and is in flight only while *)
(* somebody is (decide and resolveEffect).                                  *)
THEOREM RetriesAreAdmitted == Spec => []RetryAdmitted
<1>1. IndInv /\ TruthInv => RetryAdmitted
  <2> SUFFICES ASSUME IndInv, TruthInv, rec.live, ~rec.completed, LeaseOver,
                      now < rec.started + Retention,
                      \A a \in Attempts : gen[a] = epoch /\ epoch > 0 =>
                          pc[a] \notin InFlight /\ work[a] # "committed",
                      ~KnownOutcome
               PROVE  Verdict(rec.fp) = "first"
    BY DEF RetryAdmitted
  <2>1. epoch > 0 /\ rec.claim \in Attempts /\ gen[rec.claim] = epoch
        /\ effect.live /\ effect.claim = rec.claim
    BY DEF TruthInv, RefInv, IndInv, FenceInv, GenInv
  <2>2. ~(now >= rec.started + Retention)
    BY ClockAssumption DEF IndInv, TypeOK, RecType
  <2>3. marking.by = None
    <3> SUFFICES ASSUME marking.by # None PROVE FALSE
      OBVIOUS
    <3>1. marking.by \in Attempts /\ pc[marking.by] \in {"marked", "failmarked"}
      BY DEF IndInv, TypeOK, LockInv, Claimants
    <3>2. gen[marking.by] = epoch
      BY <3>1, Held
    <3> QED
      BY <3>1, <3>2, <2>1 DEF InFlight, Working
  <2>4. ~EffectCommitted
    BY <2>1 DEF EffectCommitted, TruthInv, MarkInv
  <2>5. Decide(rec.fp) = "first"
    BY <2>2, <2>4 DEF Decide
  <2> QED
    BY <2>3, <2>5 DEF Verdict
<1> QED
  BY <1>1, Inductive, Truthful, PTL

(* "A terminal result cannot change": no attempt, owner or purge moves a    *)
(* terminal receipt to another outcome (decideOutcome's refusal, and the    *)
(* blank receipt an outcome is staged on).                                  *)
THEOREM TerminalStays == Spec => TerminalIsFinal
<1>1. IndInv /\ TruthInv /\ [Next]_vars =>
         [\A r \in Attempts :
             (receipts[r].live /\ receipts[r].outcome \in Terminal) =>
                 \/ ~receipts'[r].live
                 \/ receipts'[r].outcome = receipts[r].outcome]_vars
  <2> SUFFICES ASSUME IndInv, TruthInv, [Next]_vars, NEW r \in Attempts,
                      receipts[r].live, receipts[r].outcome \in Terminal,
                      receipts'[r] # receipts[r]
               PROVE  ~receipts'[r].live \/ receipts'[r].outcome = receipts[r].outcome
    OBVIOUS
  <2>1. ~Blank(r)
    BY DEF Blank, Terminal
  <2>2. receipts' # receipts /\ TypeOK
    BY DEF IndInv
  <2>3. ASSUME NEW a \in Attempts, NEW outcome, NEW t, opref[a] # r,
               receipts' = WithOutcome(opref[a], outcome, t)
        PROVE  FALSE
    <3>1. opref[a] \in Claimants
      BY <2>2 DEF TypeOK
    <3> QED
      BY <2>2, <2>3, <3>1, Transition
  <2>4. ASSUME NEW a \in Attempts, Reserve(a) PROVE FALSE
    BY <2>4, <2>2 DEF Reserve, TypeOK
  <2>5. ASSUME NEW a \in Attempts, NEW heard \in BOOLEAN, Commit(a, heard) PROVE FALSE
    <3>1. Staged(a) /\ receipts' = WithOutcome(opref[a], staged[a].outcome, staged[a].at)
      BY <2>5, <2>2 DEF Commit, Staged
    <3>2. opref[a] # r
      BY <3>1, <2>1 DEF TruthInv, StagedInv
    <3> QED
      BY <2>3, <3>1, <3>2
  <2>6. ASSUME NEW a \in Attempts, FailCommit(a) PROVE FALSE
    BY <2>2, <2>3, <2>6 DEF FailCommit
  <2>7. ASSUME NEW a \in Attempts, NEW outcome \in Terminal, OwnerOutcome(a, outcome) PROVE FALSE
    BY <2>3, <2>7 DEF OwnerOutcome
  <2>8. CASE Purge
    BY <2>8 DEF Purge, NoReceipt
  <2>9. ASSUME NEW a \in Attempts, Step(a) PROVE FALSE
    BY <2>2, <2>4, <2>5, <2>6, <2>7, <2>9
       DEF Step, Claim, ClaimFirst, ClaimAnswered, Begin, Finish, Fail, AnswerWithoutTx, Mark,
           FailMark, FailUnrecorded, Complete, Abandon
  <2> QED
    BY <2>2, <2>8, <2>9 DEF Next, Tick, vars
<1> QED
  BY <1>1, Inductive, Truthful, PTL DEF Spec, TerminalIsFinal

----------------------------------------------------------------------------
(* What the caller is promised: the key as KeyedWrite has it.               *)

(* With receipts, an attempt that heard its COMMIT has written.             *)
WroteInv == \A a \in Attempts : (track /\ pc[a] = "committed") => work[a] = "committed"

(* The record dates from its attempt's claim, and an outcome that is on its *)
(* receipt, or staged for it, is at least as young: what retires the record *)
(* by its receipt's age retires nothing before its time.                    *)
SinceInv ==
    /\ ~rec.live => rec.at = 0
    /\ rec.live => at[rec.claim] = rec.at
    /\ \A a \in Attempts : Staged(a) => staged[a].at >= at[a]
    /\ (rec.live /\ track /\ receipts[rec.ref].live /\ receipts[rec.ref].outcome \in Terminal) =>
          receipts[rec.ref].outcomeAt >= rec.at

(* A key that passes on, rather than being taken afresh, has no terminal    *)
(* outcome on its receipt: the record would have been spent.                *)
LEMMA PassedOn ==
    ASSUME IndInv, TruthInv, NEW body \in Bodies, Verdict(body) = "first",
           rec.live, ~ClaimExpired, marking.by = None
    PROVE  /\ ~rec.completed /\ LeaseOver
           /\ \A b \in Attempts : ~(gen[b] = epoch /\ work[b] = "committed")
           /\ (track /\ receipts[rec.ref].live) => receipts[rec.ref].outcome \notin Terminal
<1>1. /\ ~rec.completed /\ LeaseOver /\ ~(rec.began /\ (EffectCommitted \/ KnownOutcome))
  BY DEF Verdict, Decide
<1>2. \A b \in Attempts : ~(gen[b] = epoch /\ work[b] = "committed")
  BY <1>1 DEF IndInv, CommittedInv, EffectCommitted
<1>3. ASSUME track, receipts[rec.ref].live, receipts[rec.ref].outcome \in Terminal
      PROVE  FALSE
  <2>1. KnownOutcome
    BY <1>3 DEF KnownOutcome, Terminal
  <2>2. ~rec.began
    BY <1>1, <2>1
  <2>3. rec.ref \in Attempts /\ rec.claim \in Attempts /\ opref[rec.claim] = rec.ref
        /\ gen[rec.claim] = epoch
    BY <1>3 DEF TruthInv, RefInv, IndInv, FenceInv, GenInv
  <2>4. receipts[rec.ref].outcome # "failed"
    BY <1>3, <2>2, <2>3 DEF TruthInv, FailedInv
  <2>5. PICK b \in Attempts : opref[b] = rec.ref /\ work[b] = "committed"
    BY <1>3, <2>3, <2>4 DEF TruthInv, PaidInv, Terminal
  <2>6. gen[b] = gen[rec.ref] /\ gen[rec.claim] = gen[rec.ref]
    BY <2>3, <2>5, AttemptAssumption DEF TruthInv, RefInv
  <2> QED
    BY <1>2, <2>3, <2>5, <2>6
<1> QED
  BY <1>1, <1>2, <1>3

(* Only COMMIT, or an answer without a transaction, is heard.               *)
LEMMA WroteStep ==
    ASSUME IndInv, TruthInv, WroteInv, [Next]_vars
    PROVE  WroteInv'
<1>0. /\ pc \in [Attempts -> Phases] /\ work \in [Attempts -> {"none", "committed", "rolledback"}]
  BY DEF IndInv, TypeOK
<1>1. CASE UNCHANGED vars \/ Tick \/ Purge
  BY <1>1 DEF vars, Tick, Purge, WroteInv
<1>2. ASSUME NEW a \in Attempts, Step(a)
      PROVE  WroteInv'
  <2>1. CASE \E heard \in BOOLEAN : Commit(a, heard)
    <3>1. /\ track' = track /\ work' = [work EXCEPT ![a] = "committed"]
          /\ \E heard \in BOOLEAN : pc' = [pc EXCEPT ![a] = IF heard THEN "committed" ELSE "done"]
      BY <2>1 DEF Commit
    <3> QED
      BY <3>1, <1>0 DEF WroteInv
  <2>2. CASE AnswerWithoutTx(a)
    BY <2>2 DEF AnswerWithoutTx, WroteInv
  <2>3. CASE \/ \E body \in Bodies : Claim(a, body)
             \/ Reserve(a) \/ Begin(a) \/ FailMark(a) \/ FailCommit(a) \/ FailUnrecorded(a)
             \/ \E outcome \in Decided : Finish(a, outcome)
             \/ \E kept \in BOOLEAN : Complete(a, kept)
             \/ \E outcome \in Terminal : OwnerOutcome(a, outcome)
    BY <2>3, <1>0
       DEF Claim, ClaimFirst, ClaimAnswered, Reserve, Begin, FailMark, FailCommit, FailUnrecorded,
           Finish, Complete, OwnerOutcome, WroteInv
  <2>4. CASE Fail(a) \/ Mark(a) \/ Abandon(a)
    BY <2>4, <1>0 DEF Fail, Mark, Abandon, WroteInv
  <2> QED
    BY <1>2, <2>1, <2>2, <2>3, <2>4 DEF Step
<1> QED
  BY <1>1, <1>2 DEF Next

(* Taking the key dates the record and its attempt by one clock.            *)
LEMMA ClaimSince ==
    ASSUME IndInv, TruthInv, SinceInv, NEW a \in Attempts, NEW body \in Bodies,
           pc[a] = "idle", ClaimFirst(a, body)
    PROVE  SinceInv'
<1>0. at \in [Attempts -> Nat] /\ now \in Nat
  BY DEF IndInv, TypeOK
<1>1. /\ rec'.live /\ rec'.claim = a /\ rec'.at = now
      /\ rec'.ref = IF ~rec.live \/ ClaimExpired THEN IF track THEN a ELSE None ELSE rec.ref
  BY DEF ClaimFirst, Taken
<1>2. /\ at' = [at EXCEPT ![a] = now]
      /\ UNCHANGED <<track, now, marking, receipts, staged, work>>
      /\ Verdict(body) = "first" /\ marking.by = None
  BY DEF ClaimFirst
<1>3. at'[a] = now /\ \A b \in Attempts \ {a} : at'[b] = at[b]
  BY <1>0, <1>2
<1>4. ASSUME NEW b \in Attempts, Staged(b)'
      PROVE  staged'[b].at >= at'[b]
  <2>1. Staged(b) /\ staged'[b] = staged[b]
    BY <1>2, <1>4 DEF Staged
  <2>2. b # a
    BY <2>1 DEF TruthInv, StagedInv
  <2> QED
    BY <1>3, <2>1, <2>2 DEF SinceInv
<1>5. ASSUME track, receipts[rec'.ref].live, receipts[rec'.ref].outcome \in Terminal
      PROVE  FALSE
  <2>1. rec'.ref # a
    BY <1>5 DEF TruthInv, RefInv
  <2>2. rec.live /\ ~ClaimExpired /\ rec'.ref = rec.ref
    BY <1>1, <1>5, <2>1
  <2> QED
    BY <1>2, <1>5, <2>2, PassedOn
<1> QED
  BY <1>1, <1>2, <1>3, <1>4, <1>5 DEF SinceInv

(* The steps of a request that leave the receipts alone.                    *)
LEMMA RequestSince ==
    ASSUME IndInv, TruthInv, SinceInv, NEW a \in Attempts,
           \/ \E body \in Bodies : ClaimAnswered(a, body)
           \/ Begin(a) \/ Fail(a) \/ AnswerWithoutTx(a) \/ Mark(a) \/ FailMark(a)
           \/ FailUnrecorded(a) \/ Abandon(a)
           \/ \E outcome \in Decided : Finish(a, outcome)
           \/ \E kept \in BOOLEAN : Complete(a, kept)
    PROVE  SinceInv'
<1>0. /\ at \in [Attempts -> Nat] /\ now \in Nat /\ rec \in RecType
      /\ staged \in [Attempts -> [outcome : Outcomes, at : Nat]]
  BY DEF IndInv, TypeOK
<1>1. UNCHANGED <<track, now, receipts, at>>
  BY DEF ClaimAnswered, Begin, Fail, AnswerWithoutTx, Mark, FailMark, FailUnrecorded, Abandon,
         Finish, Complete
<1>2. rec'.live = rec.live /\ rec'.claim = rec.claim /\ rec'.at = rec.at /\ rec'.ref = rec.ref
  <2>1. \/ rec' = rec \/ rec' = [rec EXCEPT !.began = TRUE]
        \/ \E kept \in BOOLEAN : rec' = [rec EXCEPT !.completed = TRUE, !.recorded = kept,
                                                    !.ok = (pc[a] = "committed")]
    BY DEF ClaimAnswered, Begin, Fail, AnswerWithoutTx, Mark, FailMark, FailUnrecorded, Abandon,
           Finish, Complete
  <2> QED
    BY <2>1, <1>0 DEF RecType
<1>3. ASSUME NEW b \in Attempts, Staged(b)'
      PROVE  staged'[b].at >= at[b]
  <2>1. \/ staged' = staged \/ staged' = [staged EXCEPT ![a] = NotStaged]
        \/ /\ \E outcome \in Decided : staged' = [staged EXCEPT ![a] = [outcome |-> outcome, at |-> now]]
           /\ pc[a] = "running"
    BY DEF ClaimAnswered, Begin, Fail, AnswerWithoutTx, Mark, FailMark, FailUnrecorded, Abandon,
           Finish, Complete
  <2>2. \/ staged'[b] = staged[b] \/ staged'[b].outcome = NotStaged.outcome
        \/ b = a /\ staged'[b].at = now /\ pc[a] = "running"
    BY <2>1, <1>0
  <2>3. CASE staged'[b] = staged[b]
    BY <1>3, <2>3 DEF SinceInv, Staged
  <2>4. CASE staged'[b].outcome = NotStaged.outcome
    BY <1>3, <2>4 DEF Staged, NotStaged
  <2>5. CASE b = a /\ staged'[b].at = now /\ pc[a] = "running"
    <3>1. rec.live /\ at[a] <= rec.at /\ rec.at <= now
      BY <2>5 DEF IndInv, ClockInv, InFlight, Working
    <3> QED
      BY <3>1, <2>5, <1>0 DEF RecType
  <2> QED
    BY <2>2, <2>3, <2>4, <2>5
<1>4. \A b \in Attempts : at'[b] = at[b]
  BY <1>1
<1>5. rec.live => rec.claim \in Attempts
  BY DEF IndInv, FenceInv
<1> QED
  BY <1>1, <1>2, <1>3, <1>4, <1>5 DEF SinceInv

(* The steps that write a receipt date its outcome by a clock that has not  *)
(* gone back since the record's claim; the others leave it alone.           *)
LEMMA ReceiptSince ==
    ASSUME IndInv, TruthInv, SinceInv, NEW a \in Attempts,
           \/ Reserve(a)
           \/ \E heard \in BOOLEAN : Commit(a, heard)
           \/ FailCommit(a)
           \/ \E outcome \in Terminal : OwnerOutcome(a, outcome)
    PROVE  SinceInv'
<1>0. /\ at \in [Attempts -> Nat] /\ now \in Nat /\ rec.at \in Nat /\ opref[a] \in Claimants
      /\ staged \in [Attempts -> [outcome : Outcomes, at : Nat]]
      /\ receipts \in [Attempts -> ReceiptType]
  BY DEF IndInv, TypeOK, RecType
<1>1. track' = track /\ now' = now /\ at' = at /\ rec' = rec
  BY DEF Reserve, Commit, FailCommit, OwnerOutcome
<1>2. \/ staged' = staged
      \/ staged' = [staged EXCEPT ![a] = NotStaged]
  BY DEF Reserve, Commit, FailCommit, OwnerOutcome
<1>3. ASSUME NEW b \in Attempts, Staged(b)'
      PROVE  staged'[b].at >= at[b]
  <2>1. staged'[b] = staged[b] \/ staged'[b].outcome = NotStaged.outcome
    BY <1>0, <1>2
  <2>2. staged'[b] = staged[b] /\ Staged(b)
    BY <1>3, <2>1 DEF Staged, NotStaged
  <2> QED
    BY <2>2 DEF SinceInv
<1>4. ASSUME rec.live, track, receipts'[rec.ref].live, receipts'[rec.ref].outcome \in Terminal
      PROVE  receipts'[rec.ref].outcomeAt >= rec.at
  <2>1. rec.ref \in Attempts /\ rec.claim \in Attempts /\ opref[rec.claim] = rec.ref /\ rec.at <= now
    BY <1>4 DEF TruthInv, RefInv, IndInv, FenceInv, ClockInv
  <2>2. CASE receipts'[rec.ref] = receipts[rec.ref]
    BY <1>4, <2>2 DEF SinceInv
  <2>3. CASE Reserve(a)
    <3>1. \A r \in Attempts : receipts'[r] = receipts[r] \/ receipts'[r].outcome = ""
      BY <2>3, <1>0 DEF Reserve, Claimants
    <3>2. receipts'[rec.ref].outcome # ""
      BY <1>4 DEF Terminal
    <3> QED
      BY <2>1, <2>2, <3>1, <3>2
  <2>4. CASE \E heard \in BOOLEAN : Commit(a, heard)
    <3>1. pc[a] = "marked" /\ (Staged(a) => receipts' = WithOutcome(opref[a], staged[a].outcome, staged[a].at))
          /\ (~Staged(a) => receipts' = receipts)
      BY <2>4 DEF Commit, Staged
    <3>2. rec.claim = a
      BY <3>1, Held
    <3>3. CASE ~Staged(a)
      BY <2>2, <3>1, <3>3
    <3>4. CASE Staged(a)
      <4>1. receipts'[rec.ref].outcomeAt = staged[a].at
        BY <2>1, <3>1, <3>2, <3>4, <1>0, Transition DEF IndInv
      <4>2. staged[a].at >= at[a] /\ at[a] = rec.at
        BY <1>4, <3>2, <3>4 DEF SinceInv
      <4> QED
        BY <4>1, <4>2
    <3> QED
      BY <3>3, <3>4
  <2>5. ASSUME NEW outcome, receipts' = WithOutcome(opref[a], outcome, now)
        PROVE  receipts'[rec.ref].outcomeAt >= rec.at
    <3>1. CASE opref[a] = rec.ref
      <4>1. receipts'[rec.ref].outcomeAt = now
        BY <2>1, <2>5, <3>1, <1>0, Transition DEF IndInv
      <4> QED
        BY <2>1, <4>1, <1>0
    <3>2. CASE opref[a] # rec.ref
      <4>1. receipts'[rec.ref] = receipts[rec.ref]
        BY <2>1, <2>5, <3>2, <1>0, Transition DEF IndInv
      <4> QED
        BY <2>2, <4>1
    <3> QED
      BY <3>1, <3>2
  <2>6. CASE FailCommit(a)
    <3>1. receipts' = receipts \/ receipts' = WithOutcome(opref[a], "failed", now)
      BY <2>6 DEF FailCommit
    <3> QED
      BY <2>2, <2>5, <3>1
  <2>7. CASE \E outcome \in Terminal : OwnerOutcome(a, outcome)
    <3>1. PICK outcome \in Terminal : receipts' = WithOutcome(opref[a], outcome, now)
      BY <2>7 DEF OwnerOutcome
    <3> QED
      BY <2>5, <3>1
  <2> QED
    BY <2>3, <2>4, <2>6, <2>7
<1>5. (~rec.live => rec.at = 0) /\ (rec.live => at[rec.claim] = rec.at)
  BY DEF SinceInv
<1> QED
  BY <1>1, <1>3, <1>4, <1>5 DEF SinceInv

(* Every step keeps the dates in order.                                     *)
LEMMA SinceStep ==
    ASSUME IndInv, TruthInv, SinceInv, [Next]_vars
    PROVE  SinceInv'
<1>1. CASE UNCHANGED vars \/ Tick
  <2>1. UNCHANGED <<track, rec, receipts, at, staged>>
    BY <1>1 DEF vars, Tick
  <2> QED
    BY <2>1 DEF SinceInv, Staged
<1>2. CASE Purge
  <2>1. /\ UNCHANGED <<track, at, staged>>
        /\ \/ rec.live /\ rec' = rec
           \/ rec' = NoRec
    BY <1>2 DEF Purge
  <2>2. \A b \in Attempts : Staged(b)' => Staged(b)
    BY <2>1 DEF Staged
  <2>3. CASE rec' = NoRec
    BY <2>1, <2>2, <2>3 DEF SinceInv, NoRec
  <2>4. CASE rec.live /\ rec' = rec
    <3>1. (track /\ receipts'[rec.ref].live) => receipts'[rec.ref] = receipts[rec.ref]
      <4>1. track => rec.ref \in Attempts
        BY <2>4 DEF TruthInv, RefInv
      <4>2. \A r \in Attempts : receipts'[r] = NoReceipt \/ receipts'[r] = receipts[r]
        BY <1>2 DEF Purge
      <4>3. ~NoReceipt.live
        BY DEF NoReceipt
      <4> QED
        BY <4>1, <4>2, <4>3
    <3> QED
      BY <2>1, <2>2, <2>4, <3>1 DEF SinceInv
  <2> QED
    BY <2>1, <2>3, <2>4
<1>3. ASSUME NEW a \in Attempts, Step(a)
      PROVE  SinceInv'
  <2>1. CASE \E body \in Bodies : Claim(a, body)
    BY <2>1, ClaimSince, RequestSince DEF Claim
  <2> QED
    BY <1>3, <2>1, RequestSince, ReceiptSince DEF Step
<1> QED
  BY <1>1, <1>2, <1>3 DEF Next

(* A record that is expired has outlived its retention, whichever of its    *)
(* rows says so.                                                            *)
LEMMA ExpiredLate ==
    ASSUME IndInv, TruthInv, SinceInv, rec.live, ClaimExpired
    PROVE  now >= rec.at + Retention
<1>0. now \in Nat /\ rec.at \in Nat /\ Retention \in Nat
  BY ClockAssumption DEF IndInv, TypeOK, RecType
<1>1. CASE ~track
  BY <1>1 DEF ClaimExpired
<1>2. CASE track
  <2> DEFINE r == receipts[rec.ref]
  <2>1. r.live /\ r.outcome \in Terminal /\ now >= Later(r.started, r.outcomeAt) + Retention
    BY <1>2 DEF ClaimExpired, ReceiptExpired
  <2>2. r.outcomeAt >= rec.at
    BY <1>2, <2>1 DEF SinceInv
  <2>3. rec.ref \in Attempts /\ r \in ReceiptType
    BY <1>2 DEF TruthInv, RefInv, IndInv, TypeOK
  <2>4. r.started \in Nat /\ r.outcomeAt \in Nat
    BY <2>3 DEF ReceiptType
  <2>5. Later(r.started, r.outcomeAt) >= r.outcomeAt
    BY <2>4 DEF Later
  <2>6. Later(r.started, r.outcomeAt) \in Nat
    BY <2>4 DEF Later
  <2> QED
    BY <1>0, <2>1, <2>2, <2>4, <2>5, <2>6
<1> QED
  BY <1>1, <1>2

(* Every step under the key is what KeyedWrite promises of it, or changes   *)
(* nothing it speaks of.                                                    *)
LEMMA KeyedStep ==
    ASSUME IndInv, TruthInv, WroteInv, SinceInv, [Next]_vars
    PROVE  [Promise!KeyedNext]_(Promise!kvars)
<1> DEFINE owner == IF rec.live THEN rec.claim ELSE None
           written == {b \in Attempts : gen[b] = epoch /\ work[b] = "committed"}
           answer == IF rec.live /\ rec.completed THEN IF rec.ok THEN "ok" ELSE "failed" ELSE ""
           kept == owner # None /\ now < rec.at + Retention
<1>0. /\ now \in Nat /\ rec.at \in Nat /\ epoch \in Nat /\ rec \in RecType
      /\ pc \in [Attempts -> Phases] /\ gen \in [Attempts -> Nat]
      /\ work \in [Attempts -> {"none", "committed", "rolledback"}]
      /\ Retention \in Nat /\ MaxRun \in Nat /\ MaxRun < Retention
  BY ClockAssumption DEF IndInv, TypeOK, RecType
<1>1. owner # None <=> rec.live
  BY AttemptAssumption DEF IndInv, FenceInv
<1>2. ASSUME NEW a \in Attempts, pc[a] \in InFlight
      PROVE  rec.live /\ kept
  <2>1. rec.live /\ at[a] <= rec.at /\ now <= at[a] + MaxRun /\ at[a] \in Nat
    BY <1>2 DEF IndInv, ClockInv, TypeOK
  <2>2. now < rec.at + Retention
    BY ONLY <1>0, <2>1
  <2> QED
    BY <1>1, <2>1, <2>2
<1>3. ASSUME UNCHANGED <<track, now>>, owner' = owner, rec'.at = rec.at, written' = written,
             answer' = answer
      PROVE  [Promise!KeyedNext]_(Promise!kvars)
  BY <1>3 DEF Promise!kvars
<1>4. ASSUME NEW a \in Attempts, NEW body \in Bodies, pc[a] = "idle", ClaimFirst(a, body)
      PROVE  Promise!Take(a)
  <2>1. /\ rec'.live /\ rec'.claim = a /\ rec'.at = now /\ ~rec'.completed
        /\ UNCHANGED <<track, now, work>> /\ marking.by = None /\ Verdict(body) = "first"
    BY <1>4 DEF ClaimFirst, Taken
  <2>2. kept => written = {} /\ answer = "" /\ now >= rec.at + Lease
    <3> SUFFICES ASSUME kept PROVE written = {} /\ answer = "" /\ now >= rec.at + Lease
      OBVIOUS
    <3>1. rec.live
      BY <1>1
    <3>2. ~(now >= rec.at + Retention)
      BY <1>0
    <3>3. ~ClaimExpired
      BY <3>1, <3>2, ExpiredLate
    <3>4. /\ ~rec.completed /\ LeaseOver
          /\ \A b \in Attempts : ~(gen[b] = epoch /\ work[b] = "committed")
      BY <2>1, <3>1, <3>3, PassedOn
    <3> QED
      BY <3>4 DEF LeaseOver
  <2>3. written' = {}
    <3> SUFFICES ASSUME NEW b \in Attempts, gen'[b] = epoch', work[b] = "committed"
                 PROVE  FALSE
      BY <2>1
    <3>1. b # a
      BY <1>4 DEF IndInv, CommittedInv
    <3>2. /\ gen'[b] = gen[b] /\ gen[b] <= epoch /\ gen[b] \in Nat
          /\ epoch' = IF ~rec.live \/ ClaimExpired THEN epoch + 1 ELSE epoch
      BY <1>0, <1>4, <3>1 DEF ClaimFirst, IndInv, GenInv
    <3>3. epoch' # epoch + 1
      BY ONLY <1>0, <3>2, gen'[b] = epoch'
    <3>4. rec.live /\ ~ClaimExpired /\ gen[b] = epoch
      BY <3>2, <3>3
    <3> QED
      BY <2>1, <3>4, PassedOn
  <2>4. owner' = a /\ answer' = ""
    BY <2>1
  <2> QED
    BY <2>1, <2>2, <2>3, <2>4 DEF Promise!Take, Promise!Kept, Promise!Unsettled
<1>5. ASSUME NEW a \in Attempts, NEW heard \in BOOLEAN, Commit(a, heard)
      PROVE  Promise!Write
  <2>1. /\ UNCHANGED <<track, now, rec, epoch, gen>>
        /\ pc[a] = "marked" /\ work' = [work EXCEPT ![a] = "committed"]
    BY <1>5 DEF Commit
  <2>2. rec.live /\ rec.claim = a /\ gen[a] = epoch
    BY <2>1, Held
  <2>3. kept
    BY <2>1, <1>2 DEF InFlight, Working
  <2>4. ~rec.completed
    BY <2>1, <2>2 DEF TruthInv, AnswerInv
  <2>5. \A b \in Attempts : ~(gen[b] = epoch /\ work[b] = "committed")
    BY <2>1, <2>2 DEF IndInv, CommittedInv
  <2>6. written = {} /\ answer = ""
    BY <2>4, <2>5
  <2>7. written' = {a}
    BY <1>0, <2>1, <2>2, <2>5
  <2>8. owner = a /\ owner' = owner /\ answer' = answer /\ rec'.at = rec.at
    BY <2>1, <2>2
  <2> QED
    BY <2>1, <2>3, <2>6, <2>7, <2>8 DEF Promise!Write, Promise!Kept, Promise!Unsettled
<1>6. ASSUME NEW a \in Attempts, NEW whole \in BOOLEAN, Complete(a, whole)
      PROVE  [Promise!KeyedNext]_(Promise!kvars)
  <2>1. UNCHANGED <<track, now, epoch, gen, work>> /\ pc[a] \in {"committed", "failed"}
    BY <1>6 DEF Complete
  <2>2. written' = written
    BY <2>1
  <2>3. CASE ~Holds(a)
    BY <1>3, <1>6, <2>1, <2>2, <2>3 DEF Complete
  <2>4. CASE Holds(a)
    <3>1. /\ rec.live /\ rec.claim = a /\ ~rec.completed
          /\ rec'.live /\ rec'.claim = a /\ rec'.at = rec.at /\ rec'.completed
          /\ rec'.ok = (pc[a] = "committed")
      BY <1>0, <1>6, <2>4 DEF Complete, Holds, RecType
    <3>2. kept
      BY <2>1, <1>2 DEF InFlight
    <3>3. owner = a /\ owner' = a /\ answer = ""
      BY <3>1
    <3>4. gen[a] = epoch
      BY <3>1 DEF IndInv, GenInv
    <3>5. \A b \in Attempts : gen[b] = epoch /\ work[b] = "committed" =>
             b = a /\ pc[a] \in {"committed", "done"}
      BY <3>1 DEF IndInv, CommittedInv
    <3>6. CASE pc[a] = "failed"
      <4>1. written = {} /\ answer' = "failed"
        BY <3>1, <3>5, <3>6
      <4> QED
        BY <2>1, <2>2, <3>1, <3>2, <3>3, <4>1
           DEF Promise!KeyedNext, Promise!Land, Promise!Kept
    <3>7. CASE pc[a] = "committed"
      <4>1. track => written = {a}
        BY <3>4, <3>5, <3>7 DEF WroteInv
      <4>2. answer' = "ok"
        BY <3>1, <3>7
      <4> QED
        BY <2>1, <2>2, <3>1, <3>2, <3>3, <4>1, <4>2
           DEF Promise!KeyedNext, Promise!Land, Promise!Kept
    <3> QED
      BY <2>1, <3>6, <3>7
  <2> QED
    BY <2>3, <2>4
<1>7. ASSUME Purge
      PROVE  [Promise!KeyedNext]_(Promise!kvars)
  <2>1. /\ UNCHANGED <<track, now, epoch, gen, work>>
        /\ \/ rec.live /\ rec' = rec
           \/ rec' = NoRec /\ ~(rec.live /\ ~Purgeable)
    BY <1>7 DEF Purge
  <2>2. written' = written
    BY <2>1
  <2>3. CASE rec.live /\ rec' = rec
    BY <1>3, <2>1, <2>2, <2>3
  <2>4. CASE rec' = NoRec
    <3>1. ~rec'.live /\ rec'.at = 0
      BY <2>4 DEF NoRec
    <3>2. owner' = None /\ answer' = ""
      BY <3>1
    <3>3. CASE ~rec.live
      <4>1. owner = None /\ answer = "" /\ rec.at = 0
        BY <3>3 DEF SinceInv
      <4> QED
        BY <1>3, <2>1, <2>2, <3>1, <3>2, <4>1
    <3>4. CASE rec.live /\ Purgeable
      <4>1. owner # None /\ ~kept
        BY <1>0, <1>1, <3>4 DEF Purgeable
      <4> QED
        BY <2>1, <2>2, <3>1, <3>2, <4>1 DEF Promise!KeyedNext, Promise!Forget, Promise!Kept
    <3> QED
      BY <2>1, <2>4, <3>1, <3>3, <3>4
  <2> QED
    BY <2>1, <2>3, <2>4
<1>8. ASSUME Tick
      PROVE  [Promise!KeyedNext]_(Promise!kvars)
  <2>1. now' = now + 1 /\ UNCHANGED <<track, rec, epoch, gen, work>>
    BY <1>8 DEF Tick
  <2>2. owner' = owner /\ rec'.at = rec.at /\ written' = written /\ answer' = answer
    BY <2>1
  <2> QED
    BY <2>1, <2>2 DEF Promise!KeyedNext, Promise!Pass
<1>9. ASSUME NEW a \in Attempts,
             \/ \E body \in Bodies : ClaimAnswered(a, body)
             \/ Reserve(a) \/ Begin(a) \/ Fail(a) \/ AnswerWithoutTx(a) \/ Mark(a) \/ FailMark(a)
             \/ FailCommit(a) \/ FailUnrecorded(a) \/ Abandon(a)
             \/ \E outcome \in Decided : Finish(a, outcome)
             \/ \E outcome \in Terminal : OwnerOutcome(a, outcome)
      PROVE  [Promise!KeyedNext]_(Promise!kvars)
  <2>1. UNCHANGED <<track, now, epoch, gen>>
    BY <1>9 DEF ClaimAnswered, Reserve, Begin, Fail, AnswerWithoutTx, Mark, FailMark, FailCommit,
                FailUnrecorded, Abandon, Finish, OwnerOutcome
  <2>2. rec' = rec \/ rec' = [rec EXCEPT !.began = TRUE]
    BY <1>9 DEF ClaimAnswered, Reserve, Begin, Fail, AnswerWithoutTx, Mark, FailMark, FailCommit,
                FailUnrecorded, Abandon, Finish, OwnerOutcome
  <2>3. rec'.live = rec.live /\ rec'.claim = rec.claim /\ rec'.at = rec.at
        /\ rec'.completed = rec.completed /\ rec'.ok = rec.ok
    BY <1>0, <2>2 DEF RecType
  <2>4. \/ work' = work
        \/ /\ pc[a] \in {"running", "finished", "marked"}
           /\ work' = [work EXCEPT ![a] = "rolledback"]
    BY <1>9 DEF ClaimAnswered, Reserve, Begin, Fail, AnswerWithoutTx, Mark, FailMark, FailCommit,
                FailUnrecorded, Abandon, Finish, OwnerOutcome
  <2>5. \A b \in Attempts : work'[b] = "committed" <=> work[b] = "committed"
    BY <1>0, <2>4 DEF IndInv, CommittedInv
  <2>6. written' = written /\ owner' = owner /\ answer' = answer
    BY <2>1, <2>3, <2>5
  <2> QED
    BY <1>3, <2>1, <2>3, <2>6
<1>10. ASSUME NEW a \in Attempts, Step(a)
       PROVE  [Promise!KeyedNext]_(Promise!kvars)
  <2>1. ASSUME NEW body \in Bodies, Claim(a, body)
        PROVE  [Promise!KeyedNext]_(Promise!kvars)
    <3>1. CASE ClaimFirst(a, body)
      BY <1>4, <2>1, <3>1 DEF Claim, Promise!KeyedNext
    <3>2. CASE ClaimAnswered(a, body)
      BY <1>9, <3>2
    <3> QED
      BY <2>1, <3>1, <3>2 DEF Claim
  <2>2. ASSUME NEW heard \in BOOLEAN, Commit(a, heard)
        PROVE  [Promise!KeyedNext]_(Promise!kvars)
    BY <1>5, <2>2 DEF Promise!KeyedNext
  <2> QED
    BY <1>6, <1>9, <1>10, <2>1, <2>2 DEF Step
<1>11. CASE UNCHANGED vars
  BY <1>11, <1>3 DEF vars
<1> QED
  BY <1>7, <1>8, <1>10, <1>11 DEF Next

(* The key keeps its promise: whatever dies, expires, is taken over or is   *)
(* purged underneath, one attempt owns the key at a time, it passes on only *)
(* after a lease and over nothing, at most one write is made under it, and  *)
(* what was answered stands until a retention has passed (Claim, Mark,      *)
(* complete and PurgeAt of kit/idempotency under kit/httpx).                *)
THEOREM KeyedWriteRefined == Spec => ImplementsKeyedWrite
<1>1. Init => Promise!KeyedInit
  <2> SUFFICES ASSUME Init PROVE Promise!KeyedInit
    OBVIOUS
  <2>1. ~rec.live /\ rec.at = 0 /\ \A b \in Attempts : work[b] = "none"
    BY DEF Init, NoRec
  <2> QED
    BY <2>1 DEF Init, Promise!KeyedInit
<1>2. Init => IndInv /\ TruthInv /\ WroteInv /\ SinceInv
  <2> SUFFICES ASSUME Init PROVE WroteInv /\ SinceInv
    BY IndInit, TruthInit
  <2>1. /\ ~rec.live /\ rec.at = 0
        /\ \A b \in Attempts : ~Staged(b) /\ pc[b] = "idle"
    BY DEF Init, NoRec, NotStaged, Staged
  <2> QED
    BY <2>1 DEF WroteInv, SinceInv
<1>3. IndInv /\ TruthInv /\ WroteInv /\ SinceInv /\ [Next]_vars =>
         /\ IndInv' /\ TruthInv' /\ WroteInv' /\ SinceInv'
         /\ [Promise!KeyedNext]_(Promise!kvars)
  BY IndStep, TruthStep, WroteStep, SinceStep, KeyedStep
<1> QED
  BY <1>1, <1>2, <1>3, PTL DEF Spec, ImplementsKeyedWrite, Promise!KeyedSpec

=============================================================================
