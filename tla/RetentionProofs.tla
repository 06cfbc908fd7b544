-------------------------- MODULE RetentionProofs --------------------------
(* Proofs about Retention, for any durables, any Keep and any number of     *)
(* replays.                                                                 *)
EXTENDS Retention, TLAPS

(* A stamp is taken after the publish it answers for, so while the row is   *)
(* published its stamp is no older than any copy on the stream.             *)
StampInv == row.state = "published" => \A age \in copies : row.age <= age

(* Once the row is purged nothing is left to deliver and nothing publishes. *)
GoneInv == row.state = "gone" => copies = {} /\ letter = {}

(* The relay's transaction holds a pending row.                             *)
RelayInv == relay.at # "idle" => row.state = "pending"

(* Every replay entitles a durable to one more run at most.                 *)
GrantInv == \A d \in Durables : granted[d] <= replays + 1

(* A durable that has run as often as it may has its mark, for as long as   *)
(* there may be a copy.                                                     *)
MarkInv ==
    \A d \in Durables :
        /\ ran[d] <= granted[d]
        /\ ran[d] = granted[d] => mark[d].set \/ row.state = "gone"

IndInv ==
    /\ TypeOK
    /\ StampInv
    /\ GoneInv
    /\ RelayInv
    /\ GrantInv
    /\ MarkInv

----------------------------------------------------------------------------
(* Ages.                                                                    *)

(* An age that grows stays an age and keeps its order with others.          *)
LEMMA OlderAge ==
    ASSUME NEW a \in Ages, NEW b \in Ages
    PROVE  /\ Older(a) \in Ages
           /\ a <= b => Older(a) <= Older(b)
BY RetentionAssumption DEF Older, Ages

(* A published row past Keep has outlived every copy of it (Purge).         *)
LEMMA NoCopyOutlivesRow ==
    ASSUME TypeOK, StampInv, RowPurged
    PROVE  copies = {}
<1>1. \A age \in copies : age \in 0..Keep /\ row.age <= age
  BY DEF TypeOK, StampInv, RowPurged
<1>2. row.age \in Ages /\ row.age > Keep
  BY DEF TypeOK, RowPurged, Past
<1> QED
  BY <1>1, <1>2, RetentionAssumption DEF Ages

----------------------------------------------------------------------------

(* A pending row that nobody read satisfies the invariant. *)
LEMMA InitInd == Init => IndInv
BY RetentionAssumption DEF Init, IndInv, TypeOK, StampInv, GoneInv, RelayInv, GrantInv,
   MarkInv, NoRelay, NoMark, Ages

(* A delivery commits where the durable has neither mark nor letter, and    *)
(* leaves its mark.                                                         *)
LEMMA DeliveryStep ==
    ASSUME IndInv, NEW d \in Durables, Handle(d) \/ DeadLetter(d) \/ TerminalLetter(d)
    PROVE  IndInv'
<1> USE DEF IndInv
<1>1. /\ Claims(d)
      /\ mark' = [mark EXCEPT ![d] = Fresh]
      /\ letter' \in {letter, letter \cup {d}}
      /\ ran' \in {ran, [ran EXCEPT ![d] = @ + 1]}
      /\ UNCHANGED <<row, relay, copies, replays, granted>>
  BY DEF Handle, DeadLetter, TerminalLetter
<1>2. row.state # "gone" /\ ran[d] < granted[d]
  <2>1. ran[d] \in Nat /\ granted[d] \in Nat /\ ran[d] <= granted[d]
    BY DEF MarkInv, TypeOK
  <2> QED
    BY <1>1, <2>1 DEF Claims, GoneInv, MarkInv
<1>3. /\ ran[d] \in 0..(MaxReplays + 1) /\ granted[d] \in 1..(MaxReplays + 1)
      /\ ran' \in [Durables -> 0..(MaxReplays + 1)]
  <2>1. ran[d] \in 0..(MaxReplays + 1) /\ granted[d] \in 1..(MaxReplays + 1)
    BY DEF TypeOK
  <2>2. ran[d] + 1 \in 0..(MaxReplays + 1)
    BY <1>2, <2>1, RetentionAssumption
  <2> QED
    BY <1>1, <2>1, <2>2 DEF TypeOK
<1>4. TypeOK'
  <2>1. Fresh \in [set : BOOLEAN, age : Ages]
    BY RetentionAssumption DEF Fresh, Ages
  <2> QED
    BY <1>1, <1>3, <2>1 DEF TypeOK
<1>5. StampInv' /\ RelayInv' /\ GrantInv'
  BY <1>1 DEF StampInv, RelayInv, GrantInv
<1>6. GoneInv'
  BY <1>1, <1>2 DEF GoneInv
<1>7. MarkInv'
  <2> SUFFICES ASSUME NEW e \in Durables
               PROVE  /\ ran'[e] <= granted'[e]
                      /\ ran'[e] = granted'[e] => mark'[e].set \/ row'.state = "gone"
    BY DEF MarkInv
  <2>1. CASE e = d
    <3>1. mark'[d].set
      BY <1>1 DEF TypeOK, Fresh
    <3>2. ran'[d] \in {ran[d], ran[d] + 1}
      BY <1>1 DEF TypeOK
    <3> QED
      BY <1>1, <1>2, <1>3, <2>1, <3>1, <3>2, RetentionAssumption
  <2>2. CASE e # d
    <3>1. ran'[e] = ran[e] /\ mark'[e] = mark[e]
      BY <1>1, <2>2 DEF TypeOK
    <3> QED
      BY <1>1, <3>1 DEF MarkInv
  <2> QED
    BY <2>1, <2>2
<1> QED
  BY <1>4, <1>5, <1>6, <1>7

(* Purge takes a row that has outlived its copies, and marks of a row that  *)
(* is gone.                                                                 *)
LEMMA PurgeStep ==
    ASSUME IndInv, Purge
    PROVE  IndInv'
<1> USE DEF IndInv
<1>1. /\ row' = IF RowPurged THEN [state |-> "gone", age |-> 0] ELSE row
      /\ mark' = [d \in Durables |-> IF MarkPurged(d) THEN NoMark ELSE mark[d]]
      /\ UNCHANGED <<relay, copies, letter, replays, ran, granted>>
  BY DEF Purge
<1>2. RowPurged => copies = {} /\ letter = {} /\ relay.at = "idle"
  BY NoCopyOutlivesRow DEF RowPurged, RelayInv
<1>3. \A d \in Durables : mark'[d] = mark[d] \/ row'.state = "gone"
  BY <1>1 DEF MarkPurged
<1>4. TypeOK'
  <2>1. NoMark \in [set : BOOLEAN, age : Ages]
    BY RetentionAssumption DEF NoMark, Ages
  <2>2. mark' \in [Durables -> [set : BOOLEAN, age : Ages]]
    BY <1>1, <2>1 DEF TypeOK
  <2>3. row' \in [state : {"pending", "published", "gone"}, age : Ages]
    BY <1>1, RetentionAssumption DEF TypeOK, Ages
  <2> QED
    BY <1>1, <2>2, <2>3 DEF TypeOK
<1>5. StampInv' /\ GoneInv' /\ RelayInv' /\ GrantInv'
  BY <1>1, <1>2 DEF StampInv, GoneInv, RelayInv, GrantInv
<1>6. MarkInv'
  BY <1>1, <1>3 DEF MarkInv
<1> QED
  BY <1>4, <1>5, <1>6

(* Replay clears marks of a row that is there, and entitles those durables. *)
LEMMA ReplayStep ==
    ASSUME IndInv, Replay
    PROVE  IndInv'
<1> USE DEF IndInv
<1>1. PICK cleared \in {{d} : d \in Durables} \cup {Durables} :
         /\ mark' = [d \in Durables |-> IF d \in cleared THEN NoMark ELSE mark[d]]
         /\ letter' = letter \ cleared
         /\ granted' = [d \in Durables |-> IF d \in cleared THEN granted[d] + 1 ELSE granted[d]]
  BY DEF Replay
<1>2. /\ row.state # "gone" /\ relay.at = "idle" /\ replays < MaxReplays
      /\ row' = [state |-> "pending", age |-> 0]
      /\ replays' = replays + 1
      /\ UNCHANGED <<relay, copies, ran>>
  BY DEF Replay
<1>3. \A d \in Durables :
         /\ granted[d] \in Nat /\ granted[d] >= 1 /\ granted[d] <= replays + 1
         /\ ran[d] \in Nat /\ ran[d] <= granted[d]
  <2> TAKE d \in Durables
  <2>1. granted[d] \in 1..(MaxReplays + 1) /\ ran[d] \in 0..(MaxReplays + 1)
    BY DEF TypeOK
  <2>2. granted[d] <= replays + 1 /\ ran[d] <= granted[d]
    BY DEF GrantInv, MarkInv
  <2> QED
    BY <2>1, <2>2, RetentionAssumption
<1>4. \A d \in Durables :
         /\ granted'[d] \in {granted[d], granted[d] + 1}
         /\ granted'[d] = granted[d] => mark'[d] = mark[d]
  BY <1>1, <1>3
<1>5. replays \in Nat /\ replays + 1 <= MaxReplays
  BY <1>2, RetentionAssumption DEF TypeOK
<1>6. GrantInv'
  BY <1>2, <1>3, <1>4, <1>5 DEF GrantInv
<1>7. TypeOK'
  <2>1. NoMark \in [set : BOOLEAN, age : Ages]
    BY RetentionAssumption DEF NoMark, Ages
  <2>2. mark' \in [Durables -> [set : BOOLEAN, age : Ages]]
    BY <1>1, <2>1 DEF TypeOK
  <2>3. \A d \in Durables : granted'[d] \in 1..(MaxReplays + 1)
    BY <1>3, <1>4, <1>5, RetentionAssumption
  <2>4. granted' \in [Durables -> 1..(MaxReplays + 1)]
    BY <1>1, <2>3
  <2>5. row' \in [state : {"pending", "published", "gone"}, age : Ages]
    BY <1>2, RetentionAssumption DEF Ages
  <2>6. replays' \in 0..MaxReplays
    BY <1>2, <1>5, RetentionAssumption
  <2> QED
    BY <1>1, <1>2, <2>2, <2>4, <2>5, <2>6 DEF TypeOK
<1>8. StampInv' /\ GoneInv' /\ RelayInv'
  BY <1>2 DEF StampInv, GoneInv, RelayInv
<1>9. MarkInv'
  <2> SUFFICES ASSUME NEW d \in Durables
               PROVE  /\ ran'[d] <= granted'[d]
                      /\ ran'[d] = granted'[d] => mark'[d].set \/ row'.state = "gone"
    BY DEF MarkInv
  <2>1. CASE granted'[d] = granted[d]
    BY <1>2, <1>4, <2>1 DEF MarkInv
  <2>2. CASE granted'[d] = granted[d] + 1
    BY <1>2, <1>3, <2>2
  <2> QED
    BY <1>4, <2>1, <2>2
<1> QED
  BY <1>6, <1>7, <1>8, <1>9

(* Time ages the stamp and the copies together.                             *)
LEMMA TickStep ==
    ASSUME IndInv, Tick
    PROVE  IndInv'
<1> USE DEF IndInv
<1>1. /\ row' = [row EXCEPT !.age = IF row.state = "published" THEN Older(@) ELSE @]
      /\ relay' = [relay EXCEPT !.age = IF relay.at = "idle" THEN @ ELSE Older(@)]
      /\ copies' = {age \in Ages : ~Past(age) /\ \E old \in copies : age = Older(old)}
      /\ mark' = [d \in Durables |-> IF mark[d].set THEN [mark[d] EXCEPT !.age = Older(@)] ELSE mark[d]]
      /\ UNCHANGED <<letter, replays, ran, granted>>
  BY DEF Tick
<1>2. row \in [state : {"pending", "published", "gone"}, age : Ages]
  BY DEF TypeOK
<1>3. row'.state = row.state /\ relay'.at = relay.at
  BY <1>1 DEF TypeOK
<1>4. \A d \in Durables : mark'[d].set = mark[d].set /\ mark'[d] \in [set : BOOLEAN, age : Ages]
  <2> TAKE d \in Durables
  <2>1. mark[d] \in [set : BOOLEAN, age : Ages]
    BY DEF TypeOK
  <2>2. Older(mark[d].age) \in Ages
    BY <2>1, OlderAge
  <2> QED
    BY <1>1, <2>1, <2>2
<1>5. copies \subseteq Ages
  BY RetentionAssumption DEF TypeOK, Ages
<1>6. TypeOK'
  <2>1. row' \in [state : {"pending", "published", "gone"}, age : Ages]
    BY <1>1, <1>2, OlderAge
  <2>2. relay' \in [at : {"idle", "reading", "sent"}, age : Ages]
    BY <1>1, OlderAge DEF TypeOK
  <2>3. copies' \subseteq 0..Keep
    BY <1>1, RetentionAssumption DEF Ages, Past
  <2>4. mark' \in [Durables -> [set : BOOLEAN, age : Ages]]
    BY <1>1, <1>4
  <2> QED
    BY <1>1, <2>1, <2>2, <2>3, <2>4 DEF TypeOK
<1>7. StampInv'
  <2> SUFFICES ASSUME row'.state = "published", NEW age \in copies'
               PROVE  row'.age <= age
    BY DEF StampInv
  <2>1. PICK old \in copies : age = Older(old)
    BY <1>1
  <2>2. row.age <= old /\ row.age \in Ages /\ old \in Ages
    BY <1>2, <1>3, <1>5 DEF StampInv
  <2>3. row'.age = Older(row.age)
    BY <1>1, <1>2, <1>3
  <2> QED
    BY <2>1, <2>2, <2>3, OlderAge
<1>8. GoneInv'
  BY <1>1, <1>3 DEF GoneInv
<1>9. RelayInv' /\ GrantInv'
  BY <1>1, <1>3 DEF RelayInv, GrantInv
<1>10. MarkInv'
  BY <1>1, <1>3, <1>4 DEF MarkInv
<1> QED
  BY <1>6, <1>7, <1>8, <1>9, <1>10

(* The relay's own steps.                                                   *)
LEMMA RelayStep ==
    ASSUME IndInv, RelayReads \/ Publish \/ Stamp \/ RelayFails
    PROVE  IndInv'
<1> USE DEF IndInv
<1>1. 0 \in Ages /\ 0 \in 0..Keep
  BY RetentionAssumption DEF Ages
<1>2. UNCHANGED <<mark, letter, replays, ran, granted>>
  BY DEF RelayReads, Publish, Stamp, RelayFails
<1>3. MarkInv' /\ GrantInv'
  <2>1. row.state = "gone" => row'.state = "gone"
    BY DEF RelayReads, Publish, Stamp, RelayFails, RelayInv
  <2> QED
    BY <1>2, <2>1 DEF MarkInv, GrantInv
<1>4. CASE RelayReads
  BY <1>1, <1>2, <1>3, <1>4 DEF RelayReads, TypeOK, StampInv, GoneInv, RelayInv
<1>5. CASE Publish
  <2>1. relay'.at = "sent" /\ row.state = "pending"
    BY <1>5 DEF Publish, TypeOK, RelayInv
  <2> QED
    BY <1>1, <1>2, <1>3, <1>5, <2>1 DEF Publish, TypeOK, StampInv, GoneInv, RelayInv
<1>6. CASE Stamp
  BY <1>1, <1>2, <1>3, <1>6 DEF Stamp, TypeOK, StampInv, GoneInv, RelayInv, NoRelay
<1>7. CASE RelayFails
  BY <1>1, <1>2, <1>3, <1>7 DEF RelayFails, TypeOK, StampInv, GoneInv, RelayInv, NoRelay
<1> QED
  BY <1>4, <1>5, <1>6, <1>7

(* Every step keeps the invariant. *)
LEMMA NextStep ==
    ASSUME IndInv, [Next]_vars
    PROVE  IndInv'
<1>1. CASE Next
  BY <1>1, RelayStep, DeliveryStep, PurgeStep, ReplayStep, TickStep DEF Next
<1>2. CASE UNCHANGED vars
  BY <1>2 DEF vars, IndInv, TypeOK, StampInv, GoneInv, RelayInv, GrantInv, MarkInv
<1> QED
  BY <1>1, <1>2

----------------------------------------------------------------------------
(* The strengthening is an invariant.                                       *)
THEOREM Inductive == Spec => []IndInv
BY InitInd, NextStep, PTL DEF Spec

(* Rows, stream, marks and counters keep their shape.                       *)
THEOREM TypeCorrect == Spec => []TypeOK
<1>1. IndInv => TypeOK
  BY DEF IndInv
<1> QED
  BY <1>1, Inductive, PTL

(* However late a copy comes back, a durable's handler or hook commits once *)
(* and once more for each replay that names it (Purge, relayBatch).         *)
THEOREM RunsOnce == Spec => []RanOnce
<1>1. IndInv => RanOnce
  BY DEF IndInv, MarkInv, RanOnce
<1> QED
  BY <1>1, Inductive, PTL

(* The row with the payload stays as long as a letter does (Purge).         *)
THEOREM LetterReplayable == Spec => []LetterKeepsRow
<1>1. IndInv => LetterKeepsRow
  BY DEF IndInv, GoneInv, LetterKeepsRow
<1> QED
  BY <1>1, Inductive, PTL

=============================================================================
