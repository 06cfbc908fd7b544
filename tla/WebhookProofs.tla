---------------------------- MODULE WebhookProofs ----------------------------
(***************************************************************************)
(* Proofs about Webhook, for every set of events and of replicas, every    *)
(* ladder of delays, count, window, lease and batch, and every number of   *)
(* crashes and lost locks.                                                 *)
(*                                                                         *)
(* Every action is first summed up by what it does to the log (RowsGo):    *)
(* which rows it may touch, that ended ones stay, and that no ladder gets  *)
(* a second waiting attempt as long as no lock was lost.  The invariant of *)
(* the whole then follows from the summaries.                              *)
(***************************************************************************)
EXTENDS Webhook, FiniteSetTheorems, SequenceTheorems, TLAPS

(* What a sender's run is: Idle, or a run whose rows are distinct and whose *)
(* answer is one classify gives.                                            *)
RunType == [pc : {"idle", "running", "answered"}, batch : SUBSET Nat, since : 0..Window,
            row : Nat, answer : Answers]
RunInv == sender \in [Senders -> RunType]

(* Only a replay goes past the ladder's count.                              *)
AttemptInv == \A i \in DOMAIN rows : rows[i].attempt <= MaxAttempts + replays

(* Without a lost lock the run in progress is the holder's, and what it     *)
(* claimed is in flight until its outcome is written.                       *)
ClaimInv ==
    ~overlap => \A s \in Senders :
        /\ sender[s].pc # "idle" => lock = s
        /\ sender[s].pc = "idle" => lock # s
        /\ sender[s].pc # "idle" =>
             \A i \in sender[s].batch : rows[i].state = "in_flight"
        /\ sender[s].pc = "answered" =>
             sender[s].row \notin sender[s].batch /\ rows[sender[s].row].state = "in_flight"

(* OneLadder, attempt by attempt.                                           *)
OneWaits(rs) ==
    \A i, j \in DOMAIN rs : rs[i].root = rs[j].root /\ rs[i].state \in Waiting =>
        /\ rs[j].state \in Waiting => i = j
        /\ rs[j].state # "sent"
LadderInv == ~overlap => OneWaits(rows)

(* The fault clock never runs ahead of the last success or enablement.      *)
ClockInv == ep.failing # Never => ep.failing <= good

(* The strengthening the theorems rest on.                                  *)
IndInv == TypeOK /\ RunInv /\ AttemptInv /\ ClaimInv /\ LadderInv /\ ClockInv

-----------------------------------------------------------------------------
(* The log as a sequence. *)

(* A log that fits: each row's ladder starts at or before it, and no number *)
(* is past m.                                                               *)
Fits(rs, m) ==
    /\ rs \in Seq(Row)
    /\ \A i \in DOMAIN rs : rs[i].root \in 1..i /\ rs[i].attempt <= m

(* No row is added, none begins to wait or is sent, and what ended stays.   *)
Follows(rs, qs) ==
    /\ qs \in Seq(Row) /\ DOMAIN qs = DOMAIN rs
    /\ \A i \in DOMAIN rs :
         /\ qs[i].root = rs[i].root /\ qs[i].attempt = rs[i].attempt
         /\ qs[i].state \in Waiting => rs[i].state \in Waiting
         /\ qs[i].state = "sent" => rs[i].state = "sent"
         /\ rs[i].state \in Ended => qs[i] = rs[i]

(* The counters of a row that is not waiting for a time are at rest. *)
LEMMA Rest == 0 \in 0..(Window - 1) /\ 0 \in 0..(Lease + 1)
<1>1. Window \in Nat \ {0} /\ Lease \in Nat
  BY TimesAssumption
<1> QED
  BY ONLY <1>1

(* Writing some rows of a log anew leaves a log of the same length. *)
LEMMA Rewritten ==
    ASSUME NEW rs \in Seq(Row), NEW qs, qs = [i \in DOMAIN rs |-> qs[i]],
           \A i \in DOMAIN rs : qs[i] \in Row
    PROVE  qs \in Seq(Row) /\ DOMAIN qs = DOMAIN rs /\ Len(qs) = Len(rs)
<1>1. Len(rs) \in Nat /\ DOMAIN rs = 1..Len(rs)
  BY LenProperties
<1>2. qs \in [1..Len(rs) -> Row]
  BY <1>1
<1>3. qs \in Seq(Row)
  BY <1>1, <1>2, SeqDef
<1>4. Len(qs) \in Nat /\ DOMAIN qs = 1..Len(qs)
  BY <1>3, LenProperties
<1> QED
  BY <1>1, <1>2, <1>3, <1>4

(* What adding a row to the log does. *)
LEMMA Added ==
    ASSUME NEW rs \in Seq(Row), NEW r \in Row
    PROVE  /\ Append(rs, r) \in Seq(Row) /\ Len(rs) \in Nat
           /\ DOMAIN rs = 1..Len(rs)
           /\ DOMAIN Append(rs, r) = 1..(Len(rs) + 1)
           /\ \A i \in DOMAIN rs : Append(rs, r)[i] = rs[i]
           /\ Append(rs, r)[Len(rs) + 1] = r
<1>1. Len(rs) \in Nat /\ DOMAIN rs = 1..Len(rs)
  BY LenProperties
<1>2. Append(rs, r) \in Seq(Row) /\ Len(Append(rs, r)) = Len(rs) + 1
  BY AppendProperties
<1>3. DOMAIN Append(rs, r) = 1..(Len(rs) + 1)
  BY <1>2, LenProperties
<1>4. /\ \A i \in 1..Len(rs) : Append(rs, r)[i] = rs[i]
      /\ Append(rs, r)[Len(rs) + 1] = r
  BY AppendProperties
<1> QED
  BY <1>1, <1>2, <1>3, <1>4

(* dropQueued touches queued rows only. *)
LEMMA QueuedDropped ==
    ASSUME NEW rs \in Seq(Row)
    PROVE  /\ Follows(rs, DropQueued(rs))
           /\ \A i \in DOMAIN rs : rs[i].state = "in_flight" =>
                DropQueued(rs)[i].state = "in_flight"
<1> DEFINE qs == DropQueued(rs)
<1>1. \A i \in DOMAIN rs : rs[i] \in Row
  BY LenProperties, ElementOfSeq
<1>2. qs = [i \in DOMAIN rs |-> qs[i]]
  BY DEF DropQueued
<1>3. \A i \in DOMAIN rs :
        qs[i] = IF rs[i].state = "queued"
                  THEN [rs[i] EXCEPT !.state = "dropped", !.wait = 0] ELSE rs[i]
  BY DEF DropQueued
<1> HIDE DEF qs
<1>4. \A i \in DOMAIN rs : qs[i] \in Row
  <2>1. "dropped" \in Waiting \cup Ended
    BY DEF Ended
  <2> SUFFICES ASSUME NEW i \in DOMAIN rs, rs[i].state = "queued" PROVE qs[i] \in Row
    BY <1>1, <1>3
  <2>2. rs[i] \in Row /\ qs[i] = [rs[i] EXCEPT !.state = "dropped", !.wait = 0]
    BY <1>1, <1>3
  <2> QED
    BY ONLY <2>1, <2>2, Rest DEF Row
<1>5. qs \in Seq(Row) /\ DOMAIN qs = DOMAIN rs
  BY <1>2, <1>4, Rewritten
<1>6. \A i \in DOMAIN rs :
        /\ qs[i].root = rs[i].root /\ qs[i].attempt = rs[i].attempt
        /\ qs[i].state \in Waiting => rs[i].state \in Waiting
        /\ qs[i].state = "sent" => rs[i].state = "sent"
        /\ rs[i].state \in Ended => qs[i] = rs[i]
        /\ rs[i].state = "in_flight" => qs[i].state = "in_flight"
  BY <1>1, <1>3 DEF Row, Waiting, Ended
<1> QED
  BY <1>5, <1>6 DEF Follows, qs

(* dropRowColumns writes the one row, if it is in flight, and no other. *)
LEMMA RowEnded ==
    ASSUME NEW rs \in Seq(Row), NEW i \in DOMAIN rs, NEW state \in Ended
    PROVE  /\ End(rs, i, state) \in Seq(Row) /\ DOMAIN End(rs, i, state) = DOMAIN rs
           /\ \A j \in DOMAIN rs \ {i} : End(rs, i, state)[j] = rs[j]
           /\ rs[i].state # "in_flight" => End(rs, i, state)[i] = rs[i]
           /\ rs[i].state = "in_flight" => End(rs, i, state)[i].state = state
           /\ End(rs, i, state)[i].root = rs[i].root
           /\ End(rs, i, state)[i].attempt = rs[i].attempt
<1>1. rs[i] \in Row /\ DOMAIN rs = 1..Len(rs)
  BY LenProperties, ElementOfSeq
<1>2. CASE rs[i].state # "in_flight"
  BY <1>2 DEF End
<1>3. CASE rs[i].state = "in_flight"
  <2> DEFINE r == [rs[i] EXCEPT !.state = state, !.wait = 0, !.age = 0]
  <2>1. r \in Row /\ r.state = state /\ r.root = rs[i].root /\ r.attempt = rs[i].attempt
    <3>1. state \in Waiting \cup Ended
      BY DEF Waiting, Ended
    <3>2. r = [rs[i] EXCEPT !.state = state, !.wait = 0, !.age = 0]
      OBVIOUS
    <3> HIDE DEF r
    <3> QED
      BY ONLY <1>1, <3>1, <3>2, Rest DEF Row
  <2>2. End(rs, i, state) = [rs EXCEPT ![i] = r]
    BY <1>1, <1>3, LenProperties DEF End
  <2> HIDE DEF r
  <2>3. /\ [rs EXCEPT ![i] = r] \in Seq(Row)
        /\ \A j \in 1..Len(rs) : [rs EXCEPT ![i] = r][j] = IF j = i THEN r ELSE rs[j]
    BY <1>1, <2>1, ExceptSeq
  <2>4. DOMAIN [rs EXCEPT ![i] = r] = DOMAIN rs
    OBVIOUS
  <2> QED
    BY <1>1, <1>3, <2>1, <2>2, <2>3, <2>4
<1> QED
  BY <1>2, <1>3

(* What the clock does to a row: its counters, and those of no ended row. *)
LEMMA OlderRow ==
    ASSUME NEW row \in Row, Window \in Nat \ {0}, Lease \in Nat
    PROVE  /\ Older(row) \in Row /\ Older(row).root = row.root
           /\ Older(row).attempt = row.attempt /\ Older(row).state = row.state
           /\ row.state \in Ended => Older(row) = row
<1>1. row.wait \in 0..(Window - 1) /\ row.age \in 0..(Lease + 1)
  BY DEF Row
<1>2. CASE row.state = "queued" /\ row.wait > 0
  <2>1. row.wait - 1 \in 0..(Window - 1)
    BY ONLY <1>1, <1>2, Window \in Nat \ {0}
  <2>2. Older(row) = [row EXCEPT !.wait = row.wait - 1]
    BY <1>2 DEF Older
  <2> QED
    BY <1>2, <2>1, <2>2 DEF Row, Ended
<1>3. CASE row.state = "in_flight"
  <2> DEFINE age == Least(row.age + 1, Lease + 1)
  <2>1. age \in 0..(Lease + 1)
    BY <1>1 DEF Least
  <2>2. Older(row) = [row EXCEPT !.age = age]
    BY <1>3 DEF Older
  <2> HIDE DEF age
  <2> QED
    BY <1>3, <2>1, <2>2 DEF Row, Ended
<1>4. CASE ~(row.state = "queued" /\ row.wait > 0) /\ row.state # "in_flight"
  BY <1>4 DEF Older
<1> QED
  BY <1>2, <1>3, <1>4

(* A row that queue makes. *)
LEMMA NewRowType ==
    ASSUME NEW e \in Events, NEW root \in Nat, NEW n \in 1..MaxNumber,
           NEW cause \in {"initial", "retry", "replay"}, NEW wait \in 0..(Window - 1)
    PROVE  /\ NewRow(e, root, n, cause, wait) \in Row
           /\ NewRow(e, root, n, cause, wait).root = root
           /\ NewRow(e, root, n, cause, wait).attempt = n
           /\ NewRow(e, root, n, cause, wait).state = "queued"
  BY TimesAssumption DEF NewRow, Row, Waiting

-----------------------------------------------------------------------------
(* One ladder at a time. *)

(* Rows that only stop waiting leave every ladder with at most one. *)
LEMMA LadderFollows ==
    ASSUME NEW rs, NEW qs, OneWaits(rs), Follows(rs, qs)
    PROVE  OneWaits(qs)
  BY DEF OneWaits, Follows

(* The outcome of a ladder's waiting attempt leaves none waiting in it; and *)
(* unless it was sent, none that was sent.                                  *)
LEMMA LadderEnds ==
    ASSUME NEW rs \in Seq(Row), NEW i \in DOMAIN rs, NEW state \in Ended,
           OneWaits(rs), rs[i].state = "in_flight"
    PROVE  /\ OneWaits(End(rs, i, state))
           /\ \A j \in DOMAIN rs : rs[j].root = rs[i].root =>
                /\ End(rs, i, state)[j].state \notin Waiting
                /\ state # "sent" => End(rs, i, state)[j].state # "sent"
<1> DEFINE qs == End(rs, i, state)
<1>1. /\ DOMAIN qs = DOMAIN rs
      /\ \A j \in DOMAIN rs \ {i} : qs[j] = rs[j]
      /\ qs[i].state = state /\ qs[i].root = rs[i].root
  BY RowEnded
<1> HIDE DEF qs
<1>2. \A j \in DOMAIN rs : rs[j].root = rs[i].root /\ j # i =>
        rs[j].state \notin Waiting /\ rs[j].state # "sent"
  BY DEF OneWaits, Waiting
<1>3. state \notin Waiting
  BY DEF Ended, Waiting
<1>4. \A j \in DOMAIN rs : rs[j].root = rs[i].root =>
        qs[j].state \notin Waiting /\ (state # "sent" => qs[j].state # "sent")
  BY <1>1, <1>2, <1>3
<1>5. OneWaits(qs)
  BY <1>1, <1>2, <1>3, <1>4 DEF OneWaits
<1> QED
  BY <1>4, <1>5 DEF qs

(* A row added to a ladder with none waiting and none sent is its only one. *)
LEMMA LadderGrows ==
    ASSUME NEW rs \in Seq(Row), NEW r \in Row, OneWaits(rs), r.state = "queued",
           \A j \in DOMAIN rs : rs[j].root = r.root =>
             rs[j].state \notin Waiting /\ rs[j].state # "sent"
    PROVE  OneWaits(Append(rs, r))
<1> DEFINE qs == Append(rs, r)
<1>1. /\ Len(rs) \in Nat /\ DOMAIN rs = 1..Len(rs) /\ DOMAIN qs = 1..(Len(rs) + 1)
      /\ \A i \in DOMAIN rs : qs[i] = rs[i]
      /\ qs[Len(rs) + 1] = r
  BY Added
<1> HIDE DEF qs
<1>2. \A i \in DOMAIN qs : i \in DOMAIN rs \/ i = Len(rs) + 1
  BY <1>1
<1> QED
  BY <1>1, <1>2 DEF OneWaits, qs

-----------------------------------------------------------------------------
(* What a step does to the log, and what the summaries are worth. *)

(* qs is what a step that writes no in-flight row outside touched leaves.   *)
RowsGo(qs, m, touched) ==
    /\ Fits(qs, m)
    /\ DOMAIN rows \subseteq DOMAIN qs
    /\ \A i \in DOMAIN rows : rows[i].state \in Ended => qs[i] = rows[i]
    /\ \A i \in DOMAIN rows \ touched :
         rows[i].state = "in_flight" => qs[i].state = "in_flight"
    /\ ~overlap => OneWaits(qs)

Numbers == MaxAttempts + replays

(* What the invariant says of the log. *)
LEMMA RowsFit ==
    ASSUME IndInv
    PROVE  /\ Fits(rows, Numbers) /\ Numbers \in Nat /\ Numbers <= MaxNumber
           /\ MaxAttempts \in Nat \ {0} /\ MaxReplays \in Nat /\ replays \in 0..MaxReplays
           /\ Len(rows) \in Nat /\ DOMAIN rows = 1..Len(rows)
           /\ \A i \in DOMAIN rows : rows[i] \in Row
<1>1. /\ rows \in Seq(Row) /\ replays \in 0..MaxReplays
      /\ \A i \in DOMAIN rows : rows[i].root \in 1..i
      /\ \A i \in DOMAIN rows : rows[i].attempt <= MaxAttempts + replays
  BY DEF IndInv, TypeOK, AttemptInv
<1>2. MaxAttempts \in Nat \ {0} /\ MaxReplays \in Nat
  BY TimesAssumption, BoundsAssumption
<1>3. MaxAttempts + replays \in Nat /\ MaxAttempts + replays <= MaxAttempts + MaxReplays
  BY ONLY <1>1, <1>2
<1>4. Len(rows) \in Nat /\ DOMAIN rows = 1..Len(rows)
  BY <1>1, LenProperties
<1>5. \A i \in DOMAIN rows : rows[i] \in Row
  BY <1>1, <1>4, ElementOfSeq
<1> QED
  BY <1>1, <1>2, <1>3, <1>4, <1>5 DEF Fits, Numbers, MaxNumber

(* A log that only follows the one before it. *)
LEMMA FollowsGo ==
    ASSUME IndInv, NEW qs, Follows(rows, qs), NEW touched,
           \A i \in DOMAIN rows \ touched :
             rows[i].state = "in_flight" => qs[i].state = "in_flight"
    PROVE  RowsGo(qs, Numbers, touched)
<1>1. Fits(qs, Numbers)
  BY RowsFit DEF Fits, Follows
<1>2. ~overlap => OneWaits(qs)
  BY LadderFollows DEF IndInv, LadderInv
<1> QED
  BY <1>1, <1>2 DEF RowsGo, Follows

(* A disablement on top of a step. *)
LEMMA DropGo ==
    ASSUME IndInv, NEW qs, NEW touched, RowsGo(qs, Numbers, touched)
    PROVE  RowsGo(DropQueued(qs), Numbers, touched)
<1>1. qs \in Seq(Row) /\ Fits(qs, Numbers)
  BY DEF RowsGo, Fits
<1>2. /\ Follows(qs, DropQueued(qs))
      /\ \A i \in DOMAIN qs : qs[i].state = "in_flight" =>
           DropQueued(qs)[i].state = "in_flight"
  BY <1>1, QueuedDropped
<1>3. Fits(DropQueued(qs), Numbers)
  BY <1>1, <1>2 DEF Fits, Follows
<1>4. OneWaits(qs) => OneWaits(DropQueued(qs))
  BY <1>2, LadderFollows
<1>5. \A i \in DOMAIN qs : qs[i].state \in Ended => DropQueued(qs)[i] = qs[i]
  BY <1>2 DEF Follows
<1>6. DOMAIN DropQueued(qs) = DOMAIN qs
  BY <1>2 DEF Follows
<1>7. \A i \in DOMAIN rows : rows[i].state \in Ended => DropQueued(qs)[i] = rows[i]
  BY <1>5 DEF RowsGo
<1> QED
  BY <1>2, <1>3, <1>4, <1>6, <1>7 DEF RowsGo

(* An outcome: the row's end. *)
LEMMA EndGo ==
    ASSUME IndInv, NEW i \in DOMAIN rows, NEW state \in Ended,
           ~overlap => rows[i].state = "in_flight"
    PROVE  RowsGo(End(rows, i, state), Numbers, {i})
<1> DEFINE qs == End(rows, i, state)
<1>1. rows \in Seq(Row)
  BY RowsFit DEF Fits
<1>2. /\ qs \in Seq(Row) /\ DOMAIN qs = DOMAIN rows
      /\ \A j \in DOMAIN rows \ {i} : qs[j] = rows[j]
      /\ rows[i].state # "in_flight" => qs[i] = rows[i]
      /\ qs[i].root = rows[i].root /\ qs[i].attempt = rows[i].attempt
  BY <1>1, RowEnded
<1>3. ~overlap => OneWaits(qs)
  BY <1>1, LadderEnds DEF IndInv, LadderInv
<1> HIDE DEF qs
<1>4. \A j \in DOMAIN rows : qs[j].root = rows[j].root /\ qs[j].attempt = rows[j].attempt
  BY <1>2
<1>5. Fits(qs, Numbers)
  BY <1>2, <1>4, RowsFit DEF Fits
<1>6. \A j \in DOMAIN rows : rows[j].state \in Ended => qs[j] = rows[j]
  BY <1>2 DEF Ended
<1> QED
  BY <1>2, <1>3, <1>5, <1>6 DEF RowsGo, qs

(* A row added to the log, in a ladder that has none waiting. *)
LEMMA AddGo ==
    ASSUME IndInv, NEW qs, NEW touched, NEW m \in Nat, Numbers <= m,
           RowsGo(qs, Numbers, touched),
           NEW r \in Row, r.root \in 1..(Len(qs) + 1), r.attempt <= m, r.state = "queued",
           ~overlap => \A j \in DOMAIN qs : qs[j].root = r.root =>
                         qs[j].state \notin Waiting /\ qs[j].state # "sent"
    PROVE  RowsGo(Append(qs, r), m, touched)
<1> DEFINE ps == Append(qs, r)
<1>1. /\ qs \in Seq(Row) /\ DOMAIN rows \subseteq DOMAIN qs
      /\ \A i \in DOMAIN qs : qs[i].root \in 1..i /\ qs[i].attempt <= Numbers
      /\ ~overlap => OneWaits(qs)
  BY DEF RowsGo, Fits
<1>2. /\ ps \in Seq(Row) /\ Len(qs) \in Nat
      /\ DOMAIN qs = 1..Len(qs) /\ DOMAIN ps = 1..(Len(qs) + 1)
      /\ \A i \in DOMAIN qs : ps[i] = qs[i]
      /\ ps[Len(qs) + 1] = r
  BY <1>1, Added
<1>3. ~overlap => OneWaits(ps)
  BY <1>1, LadderGrows
<1> HIDE DEF ps
<1>4. \A i \in DOMAIN ps : i \in DOMAIN qs \/ i = Len(qs) + 1
  BY <1>2
<1>5. \A i \in DOMAIN qs : qs[i].attempt <= m
  <2> TAKE i \in DOMAIN qs
  <2>1. qs[i] \in Row
    BY <1>1, <1>2, ElementOfSeq
  <2>2. qs[i].attempt \in 1..MaxNumber /\ qs[i].attempt <= Numbers
    BY <1>1, <2>1 DEF Row
  <2>3. Numbers \in Nat /\ MaxNumber \in Nat
    BY RowsFit DEF MaxNumber
  <2> QED
    BY ONLY <2>2, <2>3, m \in Nat, Numbers <= m
<1>6. Fits(ps, m)
  <2> SUFFICES ASSUME NEW i \in DOMAIN ps
               PROVE  ps[i].root \in 1..i /\ ps[i].attempt <= m
    BY <1>2 DEF Fits
  <2>1. CASE i \in DOMAIN qs
    BY <1>1, <1>2, <1>5, <2>1
  <2>2. CASE i = Len(qs) + 1
    BY <1>2, <2>2
  <2> QED
    BY <1>4, <2>1, <2>2
<1>7. DOMAIN rows \subseteq DOMAIN ps
  BY <1>1, <1>2
<1>8. \A i \in DOMAIN rows : ps[i] = qs[i]
  BY <1>1, <1>2
<1> QED
  BY <1>3, <1>6, <1>7, <1>8 DEF RowsGo, ps

(* A delay that nextAttempt accepts is one the log can hold. *)
LEMMA DelayFits ==
    ASSUME NEW since \in 0..Window, NEW n \in Nat \ {0}, NextAttempt(since, n)
    PROVE  delayBefore(n) \in 0..(Window - 1) /\ n < MaxAttempts
<1>1. Ladder \in Seq(Nat) /\ Len(Ladder) \in Nat \ {0} /\ Window \in Nat
  BY TimesAssumption, LenProperties
<1>2. Least(n, Len(Ladder)) \in 1..Len(Ladder)
  BY <1>1 DEF Least
<1>3. delayBefore(n) \in Nat
  BY <1>1, <1>2, ElementOfSeq DEF delayBefore
<1>4. since + delayBefore(n) < Window /\ n < MaxAttempts
  BY DEF NextAttempt
<1>5. delayBefore(n) \in 0..(Window - 1)
  BY ONLY <1>1, <1>3, <1>4, since \in 0..Window
<1> QED
  BY <1>4, <1>5

(* record: the row's end and, on a failure, the next attempt of its ladder, *)
(* of which nothing was waiting but the row that ended.                     *)
LEMMA RecordedGo ==
    ASSUME IndInv, NEW s \in Senders, sender[s].pc = "answered"
    PROVE  RowsGo(Recorded(s), Numbers, {sender[s].row})
<1> DEFINE i == sender[s].row
           a == sender[s].answer
           state == IF a = "refused" THEN "dropped" ELSE a
           done == End(rows, i, state)
           n == rows[i].attempt
           r == NewRow(rows[i].ev, rows[i].root, n + 1, "retry", delayBefore(n))
<1>1. i \in DOMAIN rows /\ rows \in Seq(Row)
  BY DEF IndInv, TypeOK
<1>2. a \in Answers /\ sender[s].since \in 0..Window
  BY DEF IndInv, RunInv, RunType
<1>3. state \in Ended
  BY <1>2 DEF Answers, Ended
<1>4. ~overlap => rows[i].state = "in_flight"
  BY DEF IndInv, ClaimInv
<1>5. RowsGo(done, Numbers, {i})
  BY <1>1, <1>3, <1>4, EndGo
<1>6. CASE ~(a = "failed" /\ Enabled /\ NextAttempt(sender[s].since, n))
  BY <1>5, <1>6 DEF Recorded
<1>7. CASE a = "failed" /\ Enabled /\ NextAttempt(sender[s].since, n)
  <2>1. Recorded(s) = Append(done, r)
    BY <1>7 DEF Recorded
  <2>2. rows[i] \in Row /\ rows[i].root \in 1..i /\ DOMAIN rows = 1..Len(rows)
    BY <1>1, RowsFit DEF Fits
  <2>3. n \in Nat \ {0} /\ rows[i].ev \in Events /\ rows[i].root \in Nat
    BY <2>2 DEF Row, MaxNumber
  <2>4. delayBefore(n) \in 0..(Window - 1) /\ n < MaxAttempts
    BY <1>2, <1>7, <2>3, DelayFits
  <2>5. n + 1 \in 1..MaxNumber /\ n + 1 <= Numbers /\ Numbers \in Nat
    <3>1. MaxAttempts <= Numbers /\ Numbers <= MaxNumber /\ Numbers \in Nat
          /\ MaxAttempts \in Nat /\ MaxNumber \in Nat
      BY RowsFit DEF Numbers, MaxNumber
    <3> QED
      BY ONLY <2>3, <2>4, <3>1
  <2>6. r \in Row /\ r.root = rows[i].root /\ r.attempt = n + 1 /\ r.state = "queued"
    BY <2>3, <2>4, <2>5, NewRowType
  <2>7. DOMAIN done = DOMAIN rows /\ done \in Seq(Row)
        /\ \A j \in DOMAIN rows : done[j].root = rows[j].root
    <3> HIDE DEF state, i
    <3>1. /\ DOMAIN done = DOMAIN rows /\ done \in Seq(Row)
          /\ \A j \in DOMAIN rows \ {i} : done[j] = rows[j]
          /\ done[i].root = rows[i].root
      BY <1>1, <1>3, RowEnded
    <3> HIDE DEF done
    <3> QED
      BY <3>1
  <2>8. ~overlap => \A j \in DOMAIN done : done[j].root = r.root =>
                      done[j].state \notin Waiting /\ done[j].state # "sent"
    <3> SUFFICES ASSUME ~overlap
                 PROVE  \A j \in DOMAIN rows : rows[j].root = rows[i].root =>
                          done[j].state \notin Waiting /\ done[j].state # "sent"
      BY <2>6, <2>7
    <3>1. OneWaits(rows) /\ rows[i].state = "in_flight" /\ state # "sent"
      BY <1>4, <1>7 DEF IndInv, LadderInv
    <3> HIDE DEF state, i
    <3> QED
      BY <1>1, <1>3, <3>1, LadderEnds
  <2>9. r.root \in 1..(Len(done) + 1)
    <3>1. Len(done) \in Nat /\ DOMAIN done = 1..Len(done)
      BY <2>7, LenProperties
    <3>2. i \in 1..Len(done)
      BY <1>1, <2>7, <3>1
    <3> HIDE DEF done, r
    <3> QED
      BY <2>2, <2>6, <3>1, <3>2
  <2> HIDE DEF done, r, n
  <2> QED
    BY <1>5, <2>1, <2>5, <2>6, <2>8, <2>9, AddGo
<1> QED
  BY <1>6, <1>7

-----------------------------------------------------------------------------
(* The runs of the job. *)

(* What the invariant says of the runs, with the log they claimed from. *)
RunsInv ==
    /\ RunInv /\ ClaimInv
    /\ lock \in Senders \cup {Nobody}
    /\ \A s \in Senders : /\ sender[s].batch \subseteq DOMAIN rows
                          /\ sender[s].pc = "answered" => sender[s].row \in DOMAIN rows

(* GoOn's update of a run, field by field. *)
LEMMA RunNext ==
    ASSUME NEW run \in RunType, NEW batch
    PROVE  [run EXCEPT !.pc = "running", !.batch = batch, !.row = 0, !.answer = "sent"]
             = [pc |-> "running", batch |-> batch, since |-> run.since,
                row |-> 0, answer |-> "sent"]
<1> DEFINE q == [run EXCEPT !.pc = "running", !.batch = batch, !.row = 0, !.answer = "sent"]
<1>1. run = [f \in {"pc", "batch", "since", "row", "answer"} |-> run[f]]
  BY DEF RunType
<1>2. q = [f \in {"pc", "batch", "since", "row", "answer"} |-> q[f]]
  BY <1>1
<1>3. /\ q["pc"] = "running" /\ q["batch"] = batch /\ q["since"] = run["since"]
      /\ q["row"] = 0 /\ q["answer"] = "sent"
  BY <1>1
<1> HIDE DEF q
<1>4. q = [pc |-> "running", batch |-> batch, since |-> run.since,
           row |-> 0, answer |-> "sent"]
  BY <1>2, <1>3
<1> QED
  BY <1>4 DEF q

(* Send's update of a run, field by field. *)
LEMMA RunAnswered ==
    ASSUME NEW run \in RunType, NEW batch, NEW i, NEW a
    PROVE  [run EXCEPT !.batch = batch, !.pc = "answered", !.row = i, !.answer = a]
             = [pc |-> "answered", batch |-> batch, since |-> run.since,
                row |-> i, answer |-> a]
<1> DEFINE q == [run EXCEPT !.batch = batch, !.pc = "answered", !.row = i, !.answer = a]
<1>1. run = [f \in {"pc", "batch", "since", "row", "answer"} |-> run[f]]
  BY DEF RunType
<1>2. q = [f \in {"pc", "batch", "since", "row", "answer"} |-> q[f]]
  BY <1>1
<1>3. /\ q["pc"] = "answered" /\ q["batch"] = batch /\ q["since"] = run["since"]
      /\ q["row"] = i /\ q["answer"] = a
  BY <1>1
<1> HIDE DEF q
<1>4. q = [pc |-> "answered", batch |-> batch, since |-> run.since,
           row |-> i, answer |-> a]
  BY <1>2, <1>3
<1> QED
  BY <1>4 DEF q

(* The invariant contains it. *)
LEMMA RunsHold == IndInv => RunsInv
  BY DEF IndInv, TypeOK, RunsInv

(* Steps that leave every run where it was. *)
LEMMA RunsStay ==
    ASSUME IndInv, RowsGo(rows', Numbers', {}), UNCHANGED <<lock, sender, overlap>>
    PROVE  RunsInv'
<1>1. RunsInv /\ \A i \in DOMAIN rows : rows[i].state = "in_flight" => rows'[i].state = "in_flight"
  BY RunsHold DEF RowsGo
<1>2. DOMAIN rows \subseteq DOMAIN rows'
  BY DEF RowsGo
<1>3. RunInv'
  BY <1>1 DEF RunsInv, RunInv
<1>4. ClaimInv'
  BY <1>1, <1>2 DEF RunsInv, ClaimInv
<1> QED
  BY <1>1, <1>2, <1>3, <1>4 DEF RunsInv

(* A run goes on with what is left of its batch, or ends.  It may have      *)
(* written the row it is at; without a lost lock no other run has claimed   *)
(* anything.                                                                *)
LEMMA RunGoesOn ==
    ASSUME IndInv, NEW s \in Senders, NEW batch \in SUBSET sender[s].batch,
           NEW touched, ~overlap => touched \cap batch = {},
           RowsGo(rows', Numbers', touched), sender[s].pc # "idle",
           GoOn(s, batch), overlap' = overlap
    PROVE  RunsInv'
<1> DEFINE next == [pc |-> "running", batch |-> batch, since |-> sender[s].since,
                    row |-> 0, answer |-> "sent"]
<1>1. RunsInv
  BY RunsHold
<1>2. sender \in [Senders -> RunType] /\ DOMAIN rows \subseteq DOMAIN rows'
  BY <1>1 DEF RunsInv, RunInv, RowsGo
<1>3. Idle \in RunType /\ next \in RunType
  <2>1. sender[s] \in RunType
    BY <1>2
  <2>2. Window \in Nat \ {0}
    BY TimesAssumption
  <2>3. 0 \in 0..Window
    BY ONLY <2>2
  <2>4. batch \in SUBSET Nat /\ {} \in SUBSET Nat
    BY <2>1 DEF RunType
  <2> QED
    BY <2>1, <2>3, <2>4 DEF Idle, RunType, Answers
<1>4. \/ batch = {} /\ sender' = [sender EXCEPT ![s] = Idle] /\ lock' = Unlocked(s)
      \/ batch # {} /\ sender' = [sender EXCEPT ![s] = next] /\ lock' = lock
  <2>1. sender[s] \in RunType
    BY <1>2
  <2>2. [sender[s] EXCEPT !.pc = "running", !.batch = batch, !.row = 0, !.answer = "sent"] = next
    BY <2>1, RunNext
  <2> QED
    BY <1>2, <2>2 DEF GoOn
<1>5. RunInv'
  BY <1>2, <1>3, <1>4 DEF RunInv
<1>6. lock' \in Senders \cup {Nobody}
  BY <1>1, <1>4 DEF RunsInv, Unlocked
<1>7. \A t \in Senders : /\ sender'[t].batch \subseteq DOMAIN rows'
                         /\ sender'[t].pc = "answered" => sender'[t].row \in DOMAIN rows'
  BY <1>1, <1>2, <1>4 DEF RunsInv, Idle
<1>8. ClaimInv'
  <2> SUFFICES ASSUME ~overlap PROVE ClaimInv'
    BY DEF ClaimInv
  <2>1. lock = s /\ \A t \in Senders \ {s} : sender[t].pc = "idle"
    BY <1>1 DEF RunsInv, ClaimInv
  <2>2. \A t \in Senders \ {s} : sender'[t].pc = "idle" /\ lock' # t
    BY <1>2, <1>4, <2>1, NobodyAssumption DEF Unlocked
  <2>3. CASE batch = {}
    <3>1. lock' = Nobody /\ sender'[s] = Idle
      BY <1>2, <1>4, <2>1, <2>3 DEF Unlocked
    <3>2. lock' # s /\ sender'[s].pc = "idle"
      BY <3>1, NobodyAssumption DEF Idle
    <3> QED
      BY <2>2, <3>2 DEF ClaimInv
  <2>4. CASE batch # {}
    <3>1. lock' = s /\ sender'[s].pc = "running" /\ sender'[s].batch = batch
      BY <1>2, <1>4, <2>1, <2>4
    <3>2. \A i \in batch : rows'[i].state = "in_flight"
      BY <1>1 DEF RunsInv, ClaimInv, RowsGo
    <3> QED
      BY <2>2, <3>1, <3>2 DEF ClaimInv
  <2> QED
    BY <2>3, <2>4
<1> QED
  BY <1>5, <1>6, <1>7, <1>8 DEF RunsInv

-----------------------------------------------------------------------------
(* The steps. *)

EpInv ==
    /\ ep \in [status : {"enabled", "disabled", "deleted"},
               reason : {"none", "admin", "fault"}, failing : 0..Never]
    /\ good \in 0..Window /\ ClockInv
CountsInv ==
    /\ fan \in [Events -> {"new", "read", "done"}] /\ overlap \in BOOLEAN
    /\ faults \in 0..MaxFaults /\ replays \in 0..MaxReplays

(* What every step is shown to do. *)
GoodStep ==
    /\ \E touched \in SUBSET DOMAIN rows : RowsGo(rows', Numbers', touched)
    /\ RunsInv' /\ EpInv' /\ CountsInv' /\ (overlap => overlap')

(* The invariant, part by part. *)
LEMMA Parts == IndInv => EpInv /\ CountsInv /\ RunsInv
  BY RunsHold DEF IndInv, TypeOK, EpInv, CountsInv

(* A good step keeps the invariant, and what the log already ended. *)
LEMMA GoodKeeps ==
    ASSUME IndInv, GoodStep
    PROVE  IndInv' /\ \A i \in DOMAIN rows : rows[i].state \in Ended => rows'[i] = rows[i]
<1>1. PICK touched \in SUBSET DOMAIN rows : RowsGo(rows', Numbers', touched)
  BY DEF GoodStep
<1>2. Fits(rows', Numbers') /\ (~overlap => OneWaits(rows'))
      /\ \A i \in DOMAIN rows : rows[i].state \in Ended => rows'[i] = rows[i]
  BY <1>1 DEF RowsGo
<1>3. /\ rows' \in Seq(Row) /\ AttemptInv'
      /\ \A i \in DOMAIN rows' : rows'[i].root \in 1..i
  BY <1>2 DEF Fits, AttemptInv, Numbers
<1>4. LadderInv'
  BY <1>2 DEF GoodStep, LadderInv
<1>5. RunsInv' /\ EpInv' /\ CountsInv'
  BY DEF GoodStep
<1>6. \A s \in Senders : /\ sender'[s].pc \in {"idle", "running", "answered"}
                         /\ sender'[s].since \in 0..Window
                         /\ sender'[s].answer \in Answers
  BY <1>5 DEF RunsInv, RunInv, RunType
<1>7. TypeOK'
  BY <1>3, <1>5, <1>6 DEF TypeOK, RunsInv, EpInv, CountsInv
<1> QED
  BY <1>2, <1>3, <1>4, <1>5, <1>7 DEF IndInv, RunsInv, EpInv

(* A log nobody wrote. *)
LEMMA UnwrittenGo ==
    ASSUME IndInv, rows' = rows, replays' = replays
    PROVE  RowsGo(rows', Numbers', {})
<1>1. Fits(rows, Numbers)
  BY RowsFit
<1>2. Numbers' = Numbers
  BY DEF Numbers
<1> QED
  BY <1>1, <1>2 DEF RowsGo, IndInv, LadderInv

(* Fan-out: a row of its own ladder, or none. *)
LEMMA FanoutReadsGood ==
    ASSUME IndInv, NEW e \in Events, FanoutReads(e)
    PROVE  GoodStep
<1>1. RowsGo(rows', Numbers', {})
  BY UnwrittenGo DEF FanoutReads
<1>2. RunsInv'
  BY <1>1, RunsStay DEF FanoutReads
<1>3. EpInv'
  BY Parts DEF EpInv, ClockInv, FanoutReads
<1>4. CountsInv'
  BY Parts DEF CountsInv, FanoutReads
<1> QED
  BY <1>1, <1>2, <1>3, <1>4 DEF GoodStep, FanoutReads

(* A new ladder at the end of the log. *)
LEMMA NewLadderGo ==
    ASSUME IndInv, NEW m \in Nat, Numbers <= m, NEW r \in Row,
           r.root = Len(rows) + 1, r.attempt <= m, r.state = "queued"
    PROVE  RowsGo(Append(rows, r), m, {})
<1>1. RowsGo(rows, Numbers, {})
  BY RowsFit DEF RowsGo, IndInv, LadderInv
<1>2. Len(rows) \in Nat /\ DOMAIN rows = 1..Len(rows)
      /\ \A j \in DOMAIN rows : rows[j].root \in 1..j
  BY RowsFit DEF Fits
<1>3. \A j \in DOMAIN rows : rows[j].root # r.root
  BY <1>2
<1>4. r.root \in 1..(Len(rows) + 1)
  BY <1>2
<1> QED
  BY <1>1, <1>3, <1>4, AddGo

(* The fan-out's commit begins the event's ladder. *)
LEMMA FanoutCommitsGood ==
    ASSUME IndInv, NEW e \in Events, FanoutCommits(e)
    PROVE  GoodStep
<1> DEFINE r == NewRow(e, Len(rows) + 1, 1, "initial", 0)
<1>1. /\ Numbers \in Nat /\ Numbers <= MaxNumber /\ Len(rows) \in Nat
      /\ MaxAttempts \in Nat \ {0} /\ replays \in Nat /\ MaxNumber \in Nat
      /\ Numbers = MaxAttempts + replays
  BY RowsFit DEF Numbers, MaxNumber
<1>2. 1 \in 1..MaxNumber /\ 1 <= Numbers /\ Len(rows) + 1 \in Nat
  BY ONLY <1>1
<1>3. r \in Row /\ r.root = Len(rows) + 1 /\ r.attempt = 1 /\ r.state = "queued"
  BY <1>2, Rest, NewRowType
<1>4. rows' = Append(rows, r) /\ Numbers' = Numbers
  BY DEF FanoutCommits, Numbers
<1> HIDE DEF r
<1>5. RowsGo(Append(rows, r), Numbers, {})
  BY <1>1, <1>2, <1>3, NewLadderGo
<1>6. RowsGo(rows', Numbers', {})
  BY <1>4, <1>5
<1>7. RunsInv'
  BY <1>6, RunsStay DEF FanoutCommits
<1>8. EpInv'
  BY Parts DEF EpInv, ClockInv, FanoutCommits
<1>9. CountsInv'
  BY Parts DEF CountsInv, FanoutCommits
<1> QED
  BY <1>6, <1>7, <1>8, <1>9 DEF GoodStep, FanoutCommits

(* A replay: a new ladder, one number past every attempt of its event. *)
LEMMA ReplayGood ==
    ASSUME IndInv, NEW e \in Events, Replay(e)
    PROVE  GoodStep
<1> DEFINE numbers == {rows[i].attempt : i \in {j \in DOMAIN rows : rows[j].ev = e}}
<1>1. PICK last \in numbers : rows' = Append(rows, NewRow(e, Len(rows) + 1, last + 1, "replay", 0))
  BY DEF Replay
<1>2. PICK i \in DOMAIN rows : last = rows[i].attempt
  BY <1>1
<1> DEFINE r == NewRow(e, Len(rows) + 1, last + 1, "replay", 0)
<1>3. /\ Numbers \in Nat /\ Len(rows) \in Nat /\ Numbers = MaxAttempts + replays
      /\ MaxAttempts \in Nat \ {0} /\ MaxReplays \in Nat /\ replays \in 0..MaxReplays
      /\ MaxNumber = MaxAttempts + MaxReplays
  BY RowsFit DEF Numbers, MaxNumber
<1>4. last <= Numbers /\ last \in 1..MaxNumber
  <2>1. rows[i] \in Row /\ rows[i].attempt <= Numbers
    BY RowsFit DEF Fits
  <2> QED
    BY <1>2, <2>1 DEF Row
<1>5. replays' = replays + 1 /\ replays < MaxReplays /\ Numbers' = MaxAttempts + replays'
  BY DEF Replay, Numbers
<1>6. /\ last + 1 \in 1..MaxNumber /\ last + 1 <= Numbers' /\ Len(rows) + 1 \in Nat
      /\ Numbers' \in Nat /\ Numbers <= Numbers' /\ replays' \in 0..MaxReplays
  BY ONLY <1>3, <1>4, <1>5
<1>7. r \in Row /\ r.root = Len(rows) + 1 /\ r.attempt = last + 1 /\ r.state = "queued"
  BY <1>6, Rest, NewRowType
<1> HIDE DEF r
<1>8. RowsGo(Append(rows, r), Numbers', {})
  BY <1>6, <1>7, NewLadderGo
<1>9. RowsGo(rows', Numbers', {})
  BY <1>1, <1>8 DEF r
<1>10. RunsInv'
  BY <1>9, RunsStay DEF Replay
<1>11. EpInv'
  BY Parts DEF EpInv, ClockInv, Replay
<1>12. CountsInv'
  BY <1>6, Parts DEF CountsInv, Replay
<1> QED
  BY <1>9, <1>10, <1>11, <1>12 DEF GoodStep, Replay

(* The claim: only due rows are written, under a lock nobody held, so       *)
(* unless a lock was lost no run is sending what is claimed.                *)
LEMMA ClaimGood ==
    ASSUME IndInv, NEW s \in Senders, Claim(s)
    PROVE  GoodStep
<1> DEFINE state == IF Enabled THEN "in_flight" ELSE "dropped"
<1>1. PICK due \in SUBSET {i \in DOMAIN rows : Due(i)} :
        /\ rows' = [i \in DOMAIN rows |->
             IF i \notin due THEN rows[i] ELSE [rows[i] EXCEPT !.state = state, !.age = 0]]
        /\ \/ /\ Enabled
              /\ sender' = [sender EXCEPT ![s] = [Idle EXCEPT !.pc = "running", !.batch = due]]
              /\ lock' = s
           \/ ~Enabled /\ UNCHANGED <<sender, lock>>
  BY DEF Claim, ClaimRows, kSubset
<1>2. /\ lock = Nobody /\ sender[s].pc = "idle"
      /\ UNCHANGED <<ep, fan, good, overlap, faults, replays>>
  BY DEF Claim, ClaimRows
<1>3. /\ rows \in Seq(Row) /\ \A i \in DOMAIN rows : rows[i] \in Row
      /\ DOMAIN rows = 1..Len(rows)
  BY RowsFit DEF Fits
<1>4. \A i \in due : rows[i].state \in Waiting
  BY DEF Due, Waiting
<1>5. state \in Waiting \cup Ended /\ state # "sent" /\ (Enabled => state = "in_flight")
  BY DEF Waiting, Ended
<1> HIDE DEF state
<1>6. \A i \in DOMAIN rows : i \notin due => rows'[i] = rows[i]
  BY <1>1
<1>7. \A i \in due : /\ rows'[i] \in Row /\ rows'[i].state = state
                     /\ rows'[i].root = rows[i].root /\ rows'[i].attempt = rows[i].attempt
  <2> SUFFICES ASSUME NEW i \in due
               PROVE  /\ rows'[i] \in Row /\ rows'[i].state = state
                      /\ rows'[i].root = rows[i].root /\ rows'[i].attempt = rows[i].attempt
    OBVIOUS
  <2>1. rows[i] \in Row /\ rows'[i] = [rows[i] EXCEPT !.state = state, !.age = 0]
    BY <1>1, <1>3
  <2> QED
    BY ONLY <2>1, <1>5, Rest DEF Row
<1>8. rows' \in Seq(Row) /\ DOMAIN rows' = DOMAIN rows
  <2>1. rows' = [i \in DOMAIN rows |-> rows'[i]]
    BY <1>1
  <2>2. \A i \in DOMAIN rows : rows'[i] \in Row
    BY <1>3, <1>6, <1>7
  <2> QED
    BY <1>3, <2>1, <2>2, Rewritten
<1>9. \A i \in due : rows[i].state \notin Ended
  BY <1>4 DEF Waiting, Ended
<1>10. Follows(rows, rows')
  BY <1>4, <1>5, <1>6, <1>7, <1>8, <1>9 DEF Follows
<1>11. RowsGo(rows', Numbers', due)
  <2>1. Numbers' = Numbers
    BY <1>2 DEF Numbers
  <2> QED
    BY <1>6, <1>10, <2>1, FollowsGo
<1>12. RunsInv'
  <2>1. RunsInv
    BY RunsHold
  <2>2. ~overlap => \A t \in Senders : sender[t].pc = "idle"
    BY <1>2, <2>1, NobodyAssumption DEF RunsInv, ClaimInv
  <2>3. CASE ~Enabled
    <3>1. UNCHANGED <<sender, lock>>
      BY <1>1, <2>3
    <3>2. ClaimInv'
      BY <1>2, <2>1, <2>2, <3>1, NobodyAssumption DEF RunsInv, ClaimInv
    <3> QED
      BY <1>8, <2>1, <3>1, <3>2 DEF RunsInv, RunInv
  <2>4. CASE Enabled
    <3> DEFINE run == [pc |-> "running", batch |-> due, since |-> 0, row |-> 0, answer |-> "sent"]
    <3>1. sender' = [sender EXCEPT ![s] = run] /\ lock' = s
      BY <1>1, <2>4 DEF Idle
    <3>2. run \in RunType
      <4>1. Window \in Nat \ {0}
        BY TimesAssumption
      <4>2. 0 \in 0..Window
        BY ONLY <4>1
      <4>3. due \in SUBSET Nat
        BY <1>3, RowsFit
      <4> QED
        BY <4>2, <4>3 DEF RunType, Answers
    <3>3. sender \in [Senders -> RunType]
      BY <2>1 DEF RunsInv, RunInv
    <3>4. RunInv'
      BY <3>1, <3>2, <3>3 DEF RunInv
    <3>5. \A t \in Senders \ {s} : sender'[t] = sender[t]
      BY <3>1, <3>3
    <3>6. sender'[s].pc = "running" /\ sender'[s].batch = due
      BY <3>1, <3>3
    <3> HIDE DEF run
    <3>7. \A i \in due : rows'[i].state = "in_flight"
      BY <1>5, <1>7, <2>4
    <3>8. ClaimInv'
      BY <1>2, <2>2, <3>1, <3>5, <3>6, <3>7 DEF ClaimInv
    <3>9. \A t \in Senders : /\ sender'[t].batch \subseteq DOMAIN rows'
                             /\ sender'[t].pc = "answered" => sender'[t].row \in DOMAIN rows'
      BY <1>8, <2>1, <3>5, <3>6 DEF RunsInv
    <3> QED
      BY <3>1, <3>4, <3>8, <3>9 DEF RunsInv
  <2> QED
    BY <2>3, <2>4
<1>13. EpInv'
  BY <1>2, Parts DEF EpInv, ClockInv
<1>14. CountsInv'
  BY <1>2, Parts DEF CountsInv
<1> QED
  BY <1>2, <1>11, <1>12, <1>13, <1>14 DEF GoodStep

(* One row of a run: dropped by the recheck, or sent and answered. *)
LEMMA SendGood ==
    ASSUME IndInv, NEW s \in Senders, NEW i \in sender[s].batch, Send(s, i)
    PROVE  GoodStep
<1>1. /\ sender[s].pc = "running"
      /\ UNCHANGED <<ep, fan, good, overlap, faults, replays>>
  BY DEF Send
<1>2. RunsInv /\ i \in DOMAIN rows /\ Numbers' = Numbers
  BY <1>1, RunsHold DEF RunsInv, Numbers
<1>3. ~overlap => rows[i].state = "in_flight"
  BY <1>1, <1>2 DEF RunsInv, ClaimInv
<1>4. EpInv'
  BY <1>1, Parts DEF EpInv, ClockInv
<1>5. CountsInv'
  BY <1>1, Parts DEF CountsInv
<1>6. CASE rows' = End(rows, i, "dropped") /\ GoOn(s, sender[s].batch \ {i})
  <2>1. "dropped" \in Ended
    BY DEF Ended
  <2>2. RowsGo(rows', Numbers', {i})
    BY <1>2, <1>3, <1>6, <2>1, EndGo
  <2>3. RunsInv'
    BY <1>1, <1>6, <2>2, RunGoesOn
  <2> QED
    BY <1>1, <1>2, <1>4, <1>5, <2>2, <2>3 DEF GoodStep
<1>7. ASSUME NEW a \in Answers, UNCHANGED <<rows, lock>>,
             sender' = [sender EXCEPT ![s].batch = sender[s].batch \ {i}, ![s].pc = "answered",
                                      ![s].row = i, ![s].answer = a]
      PROVE  GoodStep
  <2> DEFINE run == [pc |-> "answered", batch |-> sender[s].batch \ {i},
                     since |-> sender[s].since, row |-> i, answer |-> a]
  <2>1. RowsGo(rows', Numbers', {})
    BY <1>1, <1>7, UnwrittenGo
  <2>2. sender \in [Senders -> RunType]
    BY <1>2 DEF RunsInv, RunInv
  <2>3. sender[s] \in RunType
    BY <2>2
  <2>4. i \in Nat
    BY <2>3 DEF RunType
  <2>5. run \in RunType
    BY <2>3, <2>4, <1>7 DEF RunType
  <2>6. sender' = [sender EXCEPT ![s] = run]
    <3>1. [sender[s] EXCEPT !.batch = sender[s].batch \ {i}, !.pc = "answered",
                            !.row = i, !.answer = a] = run
      BY <2>3, RunAnswered
    <3> QED
      BY <1>7, <2>2, <3>1
  <2>7. RunInv'
    BY <2>2, <2>5, <2>6 DEF RunInv
  <2>8. /\ \A t \in Senders \ {s} : sender'[t] = sender[t]
        /\ sender'[s].pc = "answered" /\ sender'[s].row = i
        /\ sender'[s].batch = sender[s].batch \ {i}
    BY <2>2, <2>6
  <2> HIDE DEF run
  <2>9. ClaimInv'
    <3> SUFFICES ASSUME ~overlap PROVE ClaimInv'
      BY <1>1 DEF ClaimInv
    <3>1. lock = s /\ \A j \in sender[s].batch : rows[j].state = "in_flight"
      BY <1>1, <1>2 DEF RunsInv, ClaimInv
    <3>2. \A t \in Senders \ {s} : sender[t].pc = "idle"
      BY <1>2, <3>1 DEF RunsInv, ClaimInv
    <3>3. \A t \in Senders \ {s} : sender'[t].pc = "idle" /\ lock' # t
      BY <1>7, <2>8, <3>1, <3>2
    <3>4. /\ sender'[s].pc # "idle" /\ lock' = s
          /\ \A j \in sender'[s].batch : rows'[j].state = "in_flight"
          /\ sender'[s].row \notin sender'[s].batch
          /\ rows'[sender'[s].row].state = "in_flight"
      BY <1>7, <2>8, <3>1
    <3> QED
      BY <3>3, <3>4 DEF ClaimInv
  <2>10. \A t \in Senders : /\ sender'[t].batch \subseteq DOMAIN rows'
                            /\ sender'[t].pc = "answered" => sender'[t].row \in DOMAIN rows'
    BY <1>2, <1>7, <2>8 DEF RunsInv
  <2>11. RunsInv'
    BY <1>2, <1>7, <2>7, <2>9, <2>10 DEF RunsInv
  <2> QED
    BY <1>1, <1>4, <1>5, <2>1, <2>11 DEF GoodStep
<1> QED
  BY <1>6, <1>7 DEF Send

(* The outcome is written: the row's end, the retry, the fault clock and,   *)
(* when the window is over, the disablement.                                *)
LEMMA RecordGood ==
    ASSUME IndInv, NEW s \in Senders, Record(s)
    PROVE  GoodStep
<1> DEFINE i == sender[s].row
           a == sender[s].answer
           state == IF a = "refused" THEN "dropped" ELSE a
<1>1. /\ sender[s].pc = "answered" /\ GoOn(s, sender[s].batch)
      /\ UNCHANGED <<fan, overlap, faults, replays>>
  BY DEF Record
<1>2. RunsInv /\ i \in DOMAIN rows /\ Numbers' = Numbers
  BY <1>1, RunsHold DEF RunsInv, Numbers
<1>3. a \in Answers
  BY <1>2 DEF RunsInv, RunInv, RunType
<1>4. state \in Ended
  BY <1>3 DEF Answers, Ended
<1>5. ~overlap => rows[i].state = "in_flight" /\ i \notin sender[s].batch
  BY <1>1, <1>2 DEF RunsInv, ClaimInv
<1>6. \/ ep.status = "deleted" /\ rows' = End(rows, i, state) /\ UNCHANGED <<ep, good>>
      \/ /\ rows' = DropQueued(Recorded(s)) /\ good' = (IF a = "sent" THEN 0 ELSE good)
         /\ ep' = [status |-> "disabled", reason |-> "fault", failing |-> FailingSince(a)]
      \/ /\ rows' = Recorded(s) /\ good' = (IF a = "sent" THEN 0 ELSE good)
         /\ ep' = [ep EXCEPT !.failing = FailingSince(a)]
  BY DEF Record
<1>7. RowsGo(rows', Numbers', {i})
  <2>1. RowsGo(Recorded(s), Numbers, {i})
    BY <1>1, RecordedGo
  <2>2. RowsGo(DropQueued(Recorded(s)), Numbers, {i})
    BY <2>1, DropGo
  <2>3. RowsGo(End(rows, i, state), Numbers, {i})
    <3> HIDE DEF i, state
    <3> QED
      BY <1>2, <1>4, <1>5, EndGo
  <2> QED
    BY <1>2, <1>6, <2>1, <2>2, <2>3
<1>8. RunsInv'
  <2>1. ~overlap => {i} \cap sender[s].batch = {}
    BY <1>5
  <2> QED
    BY <1>1, <1>7, <2>1, RunGoesOn
<1>9. EpInv'
  <2>1. /\ ep \in [status : {"enabled", "disabled", "deleted"},
                   reason : {"none", "admin", "fault"}, failing : 0..Never]
        /\ good \in 0..Window /\ (ep.failing # Never => ep.failing <= good)
    BY Parts DEF EpInv, ClockInv
  <2>2. Window \in Nat \ {0} /\ Never = Window + 1
    BY TimesAssumption DEF Never
  <2>3. ep.failing \in 0..Never
    BY <2>1
  <2>4. /\ FailingSince(a) \in 0..Never
        /\ a = "sent" => FailingSince(a) = Never
        /\ FailingSince(a) # Never => FailingSince(a) <= good
    <3>1. CASE a = "sent"
      BY <2>2, <3>1 DEF FailingSince
    <3>2. CASE a = "refused"
      BY <2>1, <2>3, <3>2 DEF FailingSince
    <3>3. CASE a # "sent" /\ a # "refused"
      <4>1. FailingSince(a) = IF ep.failing = Never THEN 0 ELSE ep.failing
        BY <3>3 DEF FailingSince
      <4> QED
        BY <2>1, <2>2, <2>3, <3>3, <4>1
    <3> QED
      BY <3>1, <3>2, <3>3
  <2>5. 0 \in 0..Window
    BY ONLY <2>2
  <2>6. good' \in 0..Window
    BY <1>6, <2>1, <2>5
  <2>7. ep' \in [status : {"enabled", "disabled", "deleted"},
                 reason : {"none", "admin", "fault"}, failing : 0..Never]
    BY <1>6, <2>1, <2>4
  <2>8. \/ ep'.failing = ep.failing /\ good' = good
        \/ ep'.failing = FailingSince(a) /\ (good' = good \/ a = "sent")
    BY <1>6, <2>1
  <2>9. ClockInv'
    BY <2>1, <2>4, <2>8 DEF ClockInv, Never
  <2> QED
    BY <2>6, <2>7, <2>9 DEF EpInv, Never
<1>10. CountsInv'
  BY <1>1, Parts DEF CountsInv
<1> QED
  BY <1>1, <1>2, <1>7, <1>8, <1>9, <1>10 DEF GoodStep

(* A transaction that fails leaves the row in flight for its lease. *)
LEMMA RecordFailsGood ==
    ASSUME IndInv, NEW s \in Senders, RecordFails(s)
    PROVE  GoodStep
<1>1. /\ sender[s].pc = "answered" /\ GoOn(s, sender[s].batch)
      /\ faults < MaxFaults /\ faults' = faults + 1
      /\ UNCHANGED <<ep, rows, fan, good, overlap, replays>>
  BY DEF RecordFails
<1>2. RowsGo(rows', Numbers', {})
  BY <1>1, UnwrittenGo
<1>3. RunsInv'
  BY <1>1, <1>2, RunGoesOn
<1>4. EpInv'
  BY <1>1, Parts DEF EpInv, ClockInv
<1>5. CountsInv'
  BY <1>1, Parts, BoundsAssumption DEF CountsInv
<1> QED
  BY <1>1, <1>2, <1>3, <1>4, <1>5 DEF GoodStep

(* A death is the end of a run: GoOn with nothing left. *)
LEMMA CrashGood ==
    ASSUME IndInv, NEW s \in Senders, Crash(s)
    PROVE  GoodStep
<1>1. /\ sender[s].pc # "idle" /\ GoOn(s, {})
      /\ faults < MaxFaults /\ faults' = faults + 1
      /\ UNCHANGED <<ep, rows, fan, good, overlap, replays>>
  BY DEF Crash, GoOn
<1>2. RowsGo(rows', Numbers', {})
  BY <1>1, UnwrittenGo
<1>3. RunsInv'
  <2>1. {} \in SUBSET sender[s].batch /\ {} \cap {} = {}
    OBVIOUS
  <2> QED
    BY <1>1, <1>2, <2>1, RunGoesOn
<1>4. EpInv'
  BY <1>1, Parts DEF EpInv, ClockInv
<1>5. CountsInv'
  BY <1>1, Parts, BoundsAssumption DEF CountsInv
<1> QED
  BY <1>1, <1>2, <1>3, <1>4, <1>5 DEF GoodStep

(* A lost lock: from here on two runs may overlap. *)
LEMMA LoseLockGood ==
    ASSUME IndInv, NEW s \in Senders, LoseLock(s)
    PROVE  GoodStep
<1>1. /\ faults < MaxFaults /\ faults' = faults + 1 /\ lock' = Nobody /\ overlap' = TRUE
      /\ UNCHANGED <<ep, rows, fan, sender, good, replays>>
  BY DEF LoseLock
<1>2. RowsGo(rows', Numbers', {})
  BY <1>1, UnwrittenGo
<1>3. RunsInv'
  <2>1. RunsInv /\ ClaimInv'
    BY <1>1, RunsHold DEF ClaimInv
  <2> QED
    BY <1>1, <2>1 DEF RunsInv, RunInv
<1>4. EpInv'
  BY <1>1, Parts DEF EpInv, ClockInv
<1>5. CountsInv'
  BY <1>1, Parts, BoundsAssumption DEF CountsInv
<1> QED
  BY <1>1, <1>2, <1>3, <1>4, <1>5 DEF GoodStep

(* The administrator drops what is queued, or leaves the log alone. *)
LEMMA AdminGood ==
    ASSUME IndInv, Disable \/ Enable \/ DeleteEndpoint
    PROVE  GoodStep
<1>1. /\ rows' = rows \/ rows' = DropQueued(rows)
      /\ UNCHANGED <<fan, lock, sender, overlap, faults, replays>>
  BY DEF Disable, Enable, DeleteEndpoint
<1>2. Numbers' = Numbers /\ rows \in Seq(Row)
  BY <1>1, RowsFit DEF Numbers, Fits
<1>3. RowsGo(rows', Numbers', {})
  <2>1. CASE rows' = rows
    BY <1>1, <2>1, UnwrittenGo
  <2>2. CASE rows' = DropQueued(rows)
    BY <1>2, <2>2, QueuedDropped, FollowsGo
  <2> QED
    BY <1>1, <2>1, <2>2
<1>4. RunsInv'
  BY <1>1, <1>3, RunsStay
<1>5. EpInv'
  <2>1. Window \in Nat \ {0}
    BY TimesAssumption
  <2>2. 0 \in 0..Window /\ Window + 1 \in 0..(Window + 1)
    BY ONLY <2>1
  <2>3. CASE Disable \/ DeleteEndpoint
    BY <2>3, Parts DEF EpInv, ClockInv, Disable, DeleteEndpoint, Never
  <2>4. CASE Enable
    BY <2>2, <2>4, Parts DEF EpInv, ClockInv, Enable, Never
  <2> QED
    BY <2>3, <2>4
<1>6. CountsInv'
  BY <1>1, Parts DEF CountsInv
<1> QED
  BY <1>1, <1>3, <1>4, <1>5, <1>6 DEF GoodStep

(* Time passes for every row, run and clock; no state changes. *)
LEMMA TickGood ==
    ASSUME IndInv, Tick
    PROVE  GoodStep
<1>1. /\ rows' = [i \in DOMAIN rows |-> Older(rows[i])]
      /\ ep' = [ep EXCEPT !.failing = IF ep.failing = Never THEN ep.failing
                                      ELSE Least(ep.failing + 1, Window)]
      /\ sender' = [s \in Senders |->
           IF sender[s].pc = "idle" THEN sender[s]
           ELSE [sender[s] EXCEPT !.since = Least(sender[s].since + 1, Window)]]
      /\ good' = Least(good + 1, Window)
      /\ UNCHANGED <<fan, lock, overlap, faults, replays>>
  BY DEF Tick
<1>2. /\ Numbers' = Numbers /\ rows \in Seq(Row)
      /\ \A i \in DOMAIN rows : rows[i] \in Row
  BY <1>1, RowsFit DEF Numbers, Fits
<1>3. Window \in Nat \ {0} /\ Lease \in Nat
  BY TimesAssumption
<1>4. \A i \in DOMAIN rows :
        /\ Older(rows[i]) \in Row /\ Older(rows[i]).root = rows[i].root
        /\ Older(rows[i]).attempt = rows[i].attempt /\ Older(rows[i]).state = rows[i].state
        /\ rows[i].state \in Ended => Older(rows[i]) = rows[i]
  BY <1>2, <1>3, OlderRow
<1>5. rows' \in Seq(Row) /\ DOMAIN rows' = DOMAIN rows
  <2>1. rows' = [i \in DOMAIN rows |-> rows'[i]] /\ \A i \in DOMAIN rows : rows'[i] \in Row
    BY <1>1, <1>4
  <2> QED
    BY <1>2, <2>1, Rewritten
<1>6. Follows(rows, rows') /\ \A i \in DOMAIN rows : rows'[i].state = rows[i].state
  BY <1>1, <1>4, <1>5 DEF Follows
<1>7. RowsGo(rows', Numbers', {})
  BY <1>2, <1>6, FollowsGo
<1>8. RunsInv'
  <2>1. RunsInv /\ sender \in [Senders -> RunType]
    BY RunsHold DEF RunsInv, RunInv
  <2>2. \A s \in Senders :
          /\ sender'[s] \in RunType /\ sender'[s].pc = sender[s].pc
          /\ sender'[s].batch = sender[s].batch /\ sender'[s].row = sender[s].row
    <3> SUFFICES ASSUME NEW s \in Senders
                 PROVE  /\ sender'[s] \in RunType /\ sender'[s].pc = sender[s].pc
                        /\ sender'[s].batch = sender[s].batch
                        /\ sender'[s].row = sender[s].row
      OBVIOUS
    <3>1. sender[s] \in RunType
      BY <2>1
    <3>2. sender[s].since \in 0..Window
      BY <3>1 DEF RunType
    <3> DEFINE since == Least(sender[s].since + 1, Window)
    <3>3. since \in 0..Window
      BY <1>3, <3>2 DEF Least
    <3>4. \/ sender'[s] = sender[s]
          \/ sender'[s] = [sender[s] EXCEPT !.since = since]
      BY <1>1
    <3> HIDE DEF since
    <3> QED
      BY <3>1, <3>3, <3>4 DEF RunType
  <2>3. sender' = [s \in Senders |-> sender'[s]]
    BY <1>1
  <2>4. RunInv'
    BY <2>2, <2>3 DEF RunInv
  <2>5. ClaimInv'
    BY <1>1, <1>6, <2>1, <2>2 DEF RunsInv, ClaimInv
  <2> QED
    BY <1>1, <1>5, <2>1, <2>2, <2>4, <2>5 DEF RunsInv
<1>9. EpInv'
  <2>1. /\ ep \in [status : {"enabled", "disabled", "deleted"},
                   reason : {"none", "admin", "fault"}, failing : 0..Never]
        /\ good \in 0..Window /\ (ep.failing # Never => ep.failing <= good)
    BY Parts DEF EpInv, ClockInv
  <2> DEFINE failing == IF ep.failing = Never THEN ep.failing ELSE Least(ep.failing + 1, Window)
  <2>2. ep.failing \in 0..Never /\ Never = Window + 1
    BY <2>1 DEF Never
  <2>3. failing \in 0..Never /\ (failing # Never => failing <= Least(good + 1, Window))
        /\ Least(good + 1, Window) \in 0..Window
    BY <1>3, <2>1, <2>2 DEF Least
  <2>4. ep' = [ep EXCEPT !.failing = failing]
    BY <1>1
  <2> HIDE DEF failing
  <2>5. ep'.failing = failing /\ ep' \in [status : {"enabled", "disabled", "deleted"},
                                          reason : {"none", "admin", "fault"}, failing : 0..Never]
    BY <2>1, <2>3, <2>4
  <2> QED
    BY <1>1, <2>3, <2>5 DEF EpInv, ClockInv, Never
<1>10. CountsInv'
  BY <1>1, Parts DEF CountsInv
<1> QED
  BY <1>1, <1>7, <1>8, <1>9, <1>10 DEF GoodStep

(* Every step is a good one. *)
LEMMA NextGood == ASSUME IndInv, Next PROVE GoodStep
  BY FanoutReadsGood, FanoutCommitsGood, ReplayGood, ClaimGood, SendGood, RecordGood,
     RecordFailsGood, CrashGood, LoseLockGood, AdminGood, TickGood DEF Next, Sends

(* A step that changes nothing. *)
LEMMA StutterKeeps == ASSUME IndInv, UNCHANGED vars PROVE IndInv'
  BY DEF IndInv, TypeOK, RunInv, AttemptInv, ClaimInv, LadderInv, OneWaits, ClockInv, vars

-----------------------------------------------------------------------------
(* The log starts empty, every run idle and the endpoint healthy. *)
LEMMA InitIndInv == Init => IndInv
<1> SUFFICES ASSUME Init PROVE IndInv
  OBVIOUS
<1>1. Window \in Nat \ {0} /\ MaxFaults \in Nat /\ MaxReplays \in Nat
  BY TimesAssumption, BoundsAssumption
<1>2. /\ 0 \in 0..Window /\ 0 \in 0..MaxFaults /\ 0 \in 0..MaxReplays
      /\ Window + 1 \in 0..(Window + 1)
  BY ONLY <1>1
<1>3. rows = <<>> /\ rows \in Seq(Row) /\ DOMAIN rows = {}
  BY EmptySeq DEF Init
<1>4. Idle \in RunType
  BY <1>2 DEF Idle, RunType, Answers
<1>5. RunInv /\ \A s \in Senders : sender[s] = Idle
  BY <1>4 DEF Init, RunInv
<1>6. ep \in [status : {"enabled", "disabled", "deleted"},
              reason : {"none", "admin", "fault"}, failing : 0..Never] /\ ClockInv
  BY <1>2 DEF Init, Never, ClockInv
<1>7. \A s \in Senders :
        /\ sender[s].pc = "idle" /\ sender[s].batch \subseteq DOMAIN rows
        /\ sender[s].since \in 0..Window /\ sender[s].answer \in Answers
  BY <1>2, <1>5 DEF Idle, Answers
<1>8. TypeOK
  BY <1>2, <1>3, <1>6, <1>7 DEF Init, TypeOK
<1>9. ClaimInv
  BY <1>7, NobodyAssumption DEF ClaimInv, Init
<1>10. AttemptInv /\ LadderInv
  BY <1>3 DEF AttemptInv, LadderInv, OneWaits
<1> QED
  BY <1>5, <1>6, <1>8, <1>9, <1>10 DEF IndInv

(* The invariant the theorems below come from: what one run of the job      *)
(* claimed stays in flight and its own until it writes the outcome (claim,  *)
(* send and record of modules/webhook under the job's session lock).        *)
THEOREM Inductive == Spec => []IndInv
<1>1. IndInv /\ [Next]_vars => IndInv'
  BY NextGood, GoodKeeps, StutterKeeps
<1> QED
  BY InitIndInv, <1>1, PTL DEF Spec

(* Every row, run and clock stays in its type: no delay the ladder allows   *)
(* reaches past the window, no attempt is numbered past the count and the   *)
(* replays (nextAttempt, Replay).                                           *)
THEOREM TypeCorrect == Spec => []TypeOK
<1>1. IndInv => TypeOK
  BY DEF IndInv
<1> QED
  BY Inductive, <1>1, PTL

(* Unless a run lost its lock, a ladder never has two attempts waiting and  *)
(* has none once one was sent: record queues one successor per attempt,     *)
(* through crashes, leases and re-sends.                                    *)
THEOREM LaddersAreSingle == Spec => []OneLadder
<1>1. IndInv => OneLadder
  <2> SUFFICES ASSUME IndInv, ~overlap, NEW r \in DOMAIN rows
               PROVE  LET ladder == {i \in DOMAIN rows : rows[i].root = r}
                          waiting == {i \in ladder : rows[i].state \in Waiting} IN
                      /\ Cardinality(waiting) <= 1
                      /\ (\E i \in ladder : rows[i].state = "sent") => waiting = {}
    BY DEF OneLadder
  <2> DEFINE ladder == {i \in DOMAIN rows : rows[i].root = r}
             waiting == {i \in ladder : rows[i].state \in Waiting}
  <2>1. OneWaits(rows)
    BY DEF IndInv, LadderInv
  <2>2. \A i, j \in waiting : i = j
    BY <2>1 DEF OneWaits
  <2>3. (\E i \in ladder : rows[i].state = "sent") => waiting = {}
    BY <2>1 DEF OneWaits
  <2>4. Cardinality(waiting) <= 1
    <3> HIDE DEF waiting
    <3>1. CASE waiting = {}
      BY <3>1, FS_EmptySet
    <3>2. CASE waiting # {}
      <4>1. PICK i : waiting = {i}
        BY <2>2, <3>2
      <4>2. Cardinality({i}) = 1
        BY FS_Singleton
      <4> QED
        BY <4>1, <4>2
    <3> QED
      BY <3>1, <3>2
  <2> QED
    BY <2>3, <2>4
<1> QED
  BY Inductive, <1>1, PTL

(* Two senders that overlap, a lease that re-sends, a disablement or a      *)
(* delete never rewrite an ended attempt (dropRowColumns, dropQueued and    *)
(* the claim each say which state they write over).                         *)
THEOREM EndedForGood == Spec => EndedStays
<1>1. IndInv /\ [Next]_vars =>
        [\A i \in DOMAIN rows : rows[i].state \in Ended => rows'[i] = rows[i]]_vars
  BY NextGood, GoodKeeps
<1> QED
  BY Inductive, <1>1, PTL DEF Spec, EndedStays

(* The fault rule disables only after a whole window without a success and  *)
(* without an enablement (DisableIfFailed; the clock it reads never runs    *)
(* ahead of the last success, whoever reset it).                            *)
THEOREM FaultsTakeAWindow == Spec => FaultTakesAWindow
<1>1. IndInv /\ [Next]_vars =>
        [ep'.reason = "fault" /\ ep.reason # "fault" => good = Window]_vars
  <2> SUFFICES ASSUME IndInv, Next, ep'.reason = "fault", ep.reason # "fault"
               PROVE  good = Window
    OBVIOUS
  <2>0. ep \in [status : {"enabled", "disabled", "deleted"},
                reason : {"none", "admin", "fault"}, failing : 0..Never]
    BY DEF IndInv, TypeOK
  <2>1. PICK s \in Senders : Record(s)
    <3>1. ep' # ep
      OBVIOUS
    <3>2. ~(Disable \/ Enable \/ DeleteEndpoint \/ Tick)
      <4>1. Disable => ep'.reason = "admin"
        BY <2>0 DEF Disable
      <4>2. Enable => ep'.reason = "none"
        BY DEF Enable
      <4>3. DeleteEndpoint \/ Tick => ep'.reason = ep.reason
        BY <2>0 DEF DeleteEndpoint, Tick
      <4> QED
        BY <4>1, <4>2, <4>3
    <3>3. \E s \in Senders : Sends(s)
      BY <3>1, <3>2 DEF Next, FanoutReads, FanoutCommits, Replay, Claim, ClaimRows,
                        RecordFails, Crash, LoseLock
    <3> QED
      BY <3>1, <3>3 DEF Sends, Send
  <2>2. Faulty(sender[s].answer)
    BY <2>0, <2>1 DEF Record
  <2>3. Window \in Nat \ {0} /\ Never = Window + 1
    BY TimesAssumption DEF Never
  <2>4. ep.failing \in 0..Never /\ good \in 0..Window
        /\ (ep.failing # Never => ep.failing <= good)
    BY <2>0 DEF IndInv, TypeOK, ClockInv
  <2>5. ep.failing = Window
    <3>1. FailingSince(sender[s].answer) = Window
          /\ sender[s].answer # "sent" /\ sender[s].answer # "refused"
      BY <2>2 DEF Faulty
    <3>2. FailingSince(sender[s].answer) = IF ep.failing = Never THEN 0 ELSE ep.failing
      BY <3>1 DEF FailingSince
    <3> QED
      BY <2>3, <3>1, <3>2
  <2> QED
    BY <2>3, <2>4, <2>5
<1> QED
  BY Inductive, <1>1, PTL DEF Spec, FaultTakesAWindow

=============================================================================
