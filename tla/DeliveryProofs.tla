--------------------------- MODULE DeliveryProofs ---------------------------
(* Proofs about Delivery, for any replicas, any cap on the handler's runs   *)
(* and any number of copies, effects, replays and recreated consumers.      *)
(*                                                                         *)
(* What the claim promises depends on the deployment, as the comments of    *)
(* Delivery's properties and the README say: the two assumptions below name *)
(* the deployments in which no mark can meet another attempt's claim, and   *)
(* in which no terminal record can miss a claim that owes.                  *)
EXTENDS Delivery, TLAPS

(* One replica consumes the durable.                                        *)
Alone(d) == \A v, w \in d.workers : v = w

(* Marks and releases name the claim by its key, so they must not meet the  *)
(* claim of another attempt (deferred.go, markEffectRun, releaseClaim).     *)
NoReplayRace ==
    \A d \in Deployments : d.defers = 0 \/ Alone(d) \/ MaxReplays = 0

(* deadLetter's snapshot must not miss a claim that owes (events.go).       *)
NoLateClaim == \A d \in Deployments : d.defers = 0 \/ Alone(d)

EffectPhases == {"effects", "marking", "releasing"}

(* Who is at work, on what.                                                 *)
WorkerInv ==
    \A w \in Workers :
        /\ open = w <=> pc[w] = "running"
        /\ pc[w] # "idle" => w \in deploy.workers
        /\ pc[w] # "idle" => cur[w] \in Copies
        /\ current[w] => cur[w] \in Copies
        /\ cur[w] \in Copies => copies[cur[w]].state # "none"
        /\ pc[w] \in EffectPhases => deploy.defers > 0

(* An uncommitted claim is the only record of the event.                    *)
ClaimInv == open # None => ~handled.live /\ ~letter

(* Where nothing is deferred no claim owes, and a handled event keeps its   *)
(* claim and has no letter.                                                 *)
NoDeferInv ==
    deploy.defers = 0 =>
        /\ handled.live => handled.owed <= 0
        /\ \A w \in Workers : ~snap[w]
        /\ complete => handled.live /\ ~letter

BaseInv == TypeOK /\ WorkerInv /\ ClaimInv /\ NoDeferInv

(* A worker past its commit finds its own claim or, on a replica alone,     *)
(* none.                                                                    *)
RaceInv ==
    \A w \in Workers : pc[w] \in EffectPhases =>
        /\ handled.live => handled.by = w
        /\ ~Alone(deploy) => handled.live

(* The count never runs ahead of the effects that came back.                *)
CountInv ==
    handled.live =>
        /\ handled.due >= 0
        /\ handled.owed >= handled.due
        /\ handled.due = 0 => complete \/ letter

(* A worker's queue and the count of its own claim agree.                   *)
EffectInv ==
    \A w \in Workers : pc[w] \in {"effects", "marking"} /\ Own(w) =>
        /\ handled.due >= todo[w]
        /\ ~failed[w] => handled.due = todo[w]
        /\ pc[w] = "marking" => handled.owed >= handled.due + 1

(* A handler that committed has left its claim.                             *)
OnceInv == runs <= 1 /\ (runs = 1 => handled.live)

CountedInv == BaseInv /\ RaceInv /\ CountInv /\ EffectInv /\ OnceInv

(* A terminal record that saw no owing claim finds none.                    *)
BuryInv ==
    \A w \in Workers : pc[w] = "burying" /\ handled.live /\ ~snap[w] => handled.owed <= 0

(* Nobody buries an event whose effects are still under way.                *)
LetterInv ==
    \A w \in Workers : pc[w] \in EffectPhases /\ Own(w) => ~letter

(* A copy that no worker is about to settle without the event's fate.       *)
Unsettled(c) ==
    /\ copies[c].state = "pending"
    /\ \A w \in Workers : current[w] /\ cur[w] = c =>
          /\ pc[w] \notin {"ack", "term"}
          /\ pc[w] \in {"effects", "marking"} => Own(w)

(* From its publication until its fate is on record the event has a copy    *)
(* that will be delivered again, unless a terminal record came too early.   *)
StreamInv ==
    relay = "sent" \/ outbox = "published" =>
        complete \/ letter \/ late \/ \E c \in Copies : Unsettled(c)

LostInv == CountedInv /\ StreamInv

FateInv == LostInv /\ BuryInv /\ LetterInv /\ ~late

----------------------------------------------------------------------------
(* The base: types, who is at work on what, and the uncommitted claim.      *)

(* No claim, no letter and idle workers satisfy the base. *)
LEMMA BaseInit == Init => BaseInv
<1> SUFFICES ASSUME Init PROVE BaseInv
  OBVIOUS
<1> USE WorkerAssumption, BoundAssumption
<1>1. TypeOK
  <2>1. copies \in [Copies -> [state : {"none", "pending", "acked", "termed"},
                              n : 0..(MaxDeliveries + 1)]]
    BY DEF Init
  <2>2. /\ cur \in [Workers -> 0..MaxCopies] /\ num \in [Workers -> 0..(MaxDeliveries + 1)]
        /\ todo \in [Workers -> 0..MaxEffects]
    BY DEF Init
  <2>3. pc \in [Workers -> Phases] /\ handled \in [live : BOOLEAN, owed : Int,
                                                   by : Workers \cup {None}, due : Int]
    BY DEF Init, Phases, NoRow
  <2> QED
    BY <2>1, <2>2, <2>3 DEF Init, TypeOK
<1>2. WorkerInv
  <2>1. \A w \in Workers : pc[w] = "idle" /\ cur[w] = 0 /\ ~current[w] /\ open # w
    BY DEF Init
  <2>2. 0 \notin Copies
    BY DEF Copies
  <2>3. "idle" \notin EffectPhases
    BY DEF EffectPhases
  <2> QED
    BY <2>1, <2>2, <2>3, Zenon DEF WorkerInv
<1>3. ClaimInv /\ NoDeferInv
  BY DEF Init, ClaimInv, NoDeferInv, NoRow
<1> QED
  BY <1>1, <1>2, <1>3 DEF BaseInv

(* The relay, a recreated consumer and a replay.                            *)
LEMMA BaseAround ==
    ASSUME BaseInv, Publish \/ Stamp \/ RelayFails \/ Recreate \/ Replay
    PROVE  BaseInv'
<1> USE BoundAssumption DEF BaseInv
<1>1. CASE Publish
  <2>1. PICK c \in Copies :
           copies' = [copies EXCEPT ![c] = [state |-> "pending", n |-> 0]]
    BY <1>1 DEF Publish
  <2>2. UNCHANGED <<deploy, outbox, rows, pc, local, replays, resets, history>> /\ relay' = "sent"
    BY <1>1 DEF Publish
  <2>3. TypeOK'
    BY <2>1, <2>2 DEF TypeOK, rows, local, history
  <2>4. WorkerInv'
    BY <2>1, <2>2 DEF TypeOK, WorkerInv, rows, local
  <2>5. ClaimInv' /\ NoDeferInv'
    BY <2>2 DEF ClaimInv, NoDeferInv, rows, local, history
  <2> QED
    BY <2>3, <2>4, <2>5
<1>2. CASE Stamp \/ RelayFails
  BY <1>2 DEF Stamp, RelayFails, TypeOK, WorkerInv, ClaimInv, NoDeferInv, rows, local, history
<1>3. CASE Recreate
  <2>1. \A c \in Copies : copies[c].state # "none" => copies'[c].state # "none"
    BY <1>3 DEF Recreate, TypeOK
  <2>2. copies' \in [Copies -> [state : {"none", "pending", "acked", "termed"},
                              n : 0..(MaxDeliveries + 1)]]
    BY <1>3 DEF Recreate, TypeOK
  <2>3. TypeOK'
    BY <1>3, <2>2 DEF Recreate, TypeOK, rows, history
  <2>4. WorkerInv'
    BY <1>3, <2>1 DEF Recreate, WorkerInv, TypeOK, rows
  <2>5. ClaimInv' /\ NoDeferInv'
    BY <1>3 DEF Recreate, ClaimInv, NoDeferInv, rows, history
  <2> QED
    BY <2>3, <2>4, <2>5
<1>4. CASE Replay
  <2>1. /\ handled' = NoRow /\ letter' = FALSE /\ complete' = FALSE /\ runs' = 0
        /\ late' = FALSE /\ outbox' = "pending" /\ replays' = replays + 1
        /\ UNCHANGED <<deploy, relay, copies, open, pc, local, resets>>
    BY <1>4 DEF Replay
  <2>2. TypeOK'
    <3>1. handled' \in [live : BOOLEAN, owed : Int, by : Workers \cup {None}, due : Int]
      BY <2>1 DEF NoRow
    <3>2. letter' \in BOOLEAN /\ complete' \in BOOLEAN /\ late' \in BOOLEAN
      BY <2>1
    <3>3. replays' \in Nat /\ runs' \in Nat
      BY <2>1 DEF TypeOK
    <3>4. outbox' \in {"pending", "published"}
      BY <2>1
    <3> QED
      BY <2>1, <3>1, <3>2, <3>3, <3>4 DEF TypeOK, local
  <2>3. WorkerInv' /\ ClaimInv' /\ NoDeferInv'
    BY <2>1 DEF WorkerInv, ClaimInv, NoDeferInv, NoRow, local
  <2> QED
    BY <2>2, <2>3
<1> QED
  BY <1>1, <1>2, <1>3, <1>4

(* The callback returns: the worker is idle, and what it held open is gone. *)
LEMMA BaseDone ==
    ASSUME BaseInv, NEW w \in Workers, Done(w),
           open' = IF open = w THEN None ELSE open,
           copies' \in [Copies -> [state : {"none", "pending", "acked", "termed"},
                                  n : 0..(MaxDeliveries + 1)]],
           \A c \in Copies : copies[c].state # "none" => copies'[c].state # "none",
           UNCHANGED <<deploy, outbox, relay, handled, letter, replays, resets, history>>
    PROVE  BaseInv'
<1> USE DEF BaseInv
<1>1. /\ pc' \in [Workers -> Phases] /\ pc'[w] = "idle"
      /\ cur' \in [Workers -> 0..MaxCopies] /\ cur'[w] = 0
      /\ num' \in [Workers -> 0..(MaxDeliveries + 1)]
      /\ current' \in [Workers -> BOOLEAN] /\ ~current'[w]
      /\ todo' \in [Workers -> 0..MaxEffects]
      /\ failed' \in [Workers -> BOOLEAN]
      /\ snap' \in [Workers -> BOOLEAN] /\ ~snap'[w]
  BY BoundAssumption DEF Done, Goto, TypeOK, Phases
<1>2. \A v \in Workers \ {w} :
         /\ pc'[v] = pc[v] /\ cur'[v] = cur[v]
         /\ current'[v] = current[v] /\ snap'[v] = snap[v]
  BY DEF Done, Goto, TypeOK
<1>3. TypeOK'
  BY <1>1, WorkerAssumption DEF TypeOK, history
<1>4. WorkerInv'
  <2> SUFFICES ASSUME NEW v \in Workers
               PROVE  /\ open' = v <=> pc'[v] = "running"
                      /\ pc'[v] # "idle" => v \in deploy'.workers
                      /\ pc'[v] # "idle" => cur'[v] \in Copies
                      /\ current'[v] => cur'[v] \in Copies
                      /\ cur'[v] \in Copies => copies'[cur'[v]].state # "none"
                      /\ pc'[v] \in EffectPhases => deploy'.defers > 0
    BY DEF WorkerInv
  <2>1. CASE v = w
    <3>1. open' # w
      BY WorkerAssumption
    <3>2. cur'[w] \notin Copies
      BY <1>1 DEF Copies
    <3> QED
      BY <1>1, <2>1, <3>1, <3>2 DEF EffectPhases
  <2>2. CASE v # w
    <3>1. open' = v <=> open = v
      BY <2>2, WorkerAssumption
    <3> QED
      BY <1>2, <2>2, <3>1 DEF WorkerInv
  <2> QED
    BY <2>1, <2>2
<1>5. ClaimInv' /\ NoDeferInv'
  BY <1>1, <1>2 DEF ClaimInv, NoDeferInv, TypeOK, history
<1> QED
  BY <1>3, <1>4, <1>5

(* A worker's step.                                                         *)
LEMMA BaseStep ==
    ASSUME BaseInv, NEW w \in Workers, Step(w)
    PROVE  BaseInv'
<1> USE BoundAssumption, WorkerAssumption
    DEF BaseInv, TypeOK, WorkerInv, ClaimInv, NoDeferInv, Phases, InHandler, EffectPhases,
        Goto, Done, rows, stream, local, history
<1>1. ASSUME NEW c \in Copies, Receive(w, c)
      PROVE  BaseInv'
  <2>1. PICK n \in 1..(MaxDeliveries + 1) :
           /\ copies' = [copies EXCEPT ![c].n = n]
           /\ num' = [num EXCEPT ![w] = n]
           /\ pc' = [pc EXCEPT ![w] = IF n <= MaxDeliveries THEN "claiming" ELSE "dead"]
    <3>1. copies[c].n \in 0..(MaxDeliveries + 1)
      OBVIOUS
    <3>2. (IF copies[c].n > MaxDeliveries THEN copies[c].n ELSE copies[c].n + 1)
             \in 1..(MaxDeliveries + 1)
      BY <3>1
    <3> QED
      BY <1>1, <3>2 DEF Receive
  <2>2. /\ w \in deploy.workers /\ pc[w] = "idle" /\ copies[c].state = "pending"
        /\ cur' = [cur EXCEPT ![w] = c]
        /\ current' = [current EXCEPT ![w] = TRUE]
        /\ UNCHANGED <<deploy, outbox, relay, rows, todo, failed, snap, replays, resets, history>>
    BY <1>1 DEF Receive
  <2>3. \A b \in Copies : copies'[b].state = copies[b].state
    BY <2>1
  <2>4. TypeOK'
    <3>1. copies' \in [Copies -> [state : {"none", "pending", "acked", "termed"},
                                 n : 0..(MaxDeliveries + 1)]]
      BY <2>1
    <3>2. num' \in [Workers -> 0..(MaxDeliveries + 1)]
      BY <2>1
    <3>3. c \in 0..MaxCopies
      BY DEF Copies
    <3>4. cur' \in [Workers -> 0..MaxCopies]
      BY <2>2, <3>3
    <3>5. current' \in [Workers -> BOOLEAN]
      BY <2>2
    <3>6. pc' \in [Workers -> Phases]
      BY <2>1
    <3> QED
      BY <2>2, <3>1, <3>2, <3>4, <3>5, <3>6
  <2>5. WorkerInv'
    BY <2>1, <2>2, <2>3
  <2>6. ClaimInv' /\ NoDeferInv'
    BY <2>2
  <2> QED
    BY <2>4, <2>5, <2>6
<1>2. ASSUME NEW arrives \in BOOLEAN, Ack(w, arrives)
      PROVE  BaseInv'
  <2>1. Done(w) /\ copies' \in {copies, Settled(w, "acked")} /\ open # w
    BY <1>2 DEF Ack
  <2>2. copies' \in [Copies -> [state : {"none", "pending", "acked", "termed"},
                               n : 0..(MaxDeliveries + 1)]]
    BY <2>1 DEF Settled
  <2>3. \A c \in Copies : copies[c].state # "none" => copies'[c].state # "none"
    BY <2>1 DEF Settled
  <2> QED
    BY <1>2, <2>1, <2>2, <2>3, BaseDone DEF Ack
<1>3. ASSUME NEW arrives \in BOOLEAN, Term(w, arrives)
      PROVE  BaseInv'
  <2>1. Done(w) /\ copies' \in {copies, Settled(w, "termed")} /\ open # w
    BY <1>3 DEF Term
  <2>2. copies' \in [Copies -> [state : {"none", "pending", "acked", "termed"},
                               n : 0..(MaxDeliveries + 1)]]
    BY <2>1 DEF Settled
  <2>3. \A c \in Copies : copies[c].state # "none" => copies'[c].state # "none"
    BY <2>1 DEF Settled
  <2> QED
    BY <1>3, <2>1, <2>2, <2>3, BaseDone DEF Term
<1>4. ASSUME NEW effects \in 0..deploy.defers, NEW heard \in BOOLEAN, CommitHandler(w, effects, heard)
      PROVE  BaseInv'
  <2>1. /\ pc[w] = "running" /\ open = w /\ ~handled.live /\ ~letter
        /\ handled' = [live |-> TRUE, owed |-> effects, by |-> w, due |-> effects]
        /\ open' = None
        /\ runs' = runs + 1
        /\ complete' = (complete \/ effects = 0)
        /\ todo' = [todo EXCEPT ![w] = effects]
        /\ failed' = [failed EXCEPT ![w] = FALSE]
        /\ pc' = [pc EXCEPT ![w] = IF ~heard THEN "unfinished"
                                   ELSE IF effects = 0 THEN "ack" ELSE "effects"]
        /\ UNCHANGED <<deploy, stream, letter, cur, num, current, snap, replays, resets, late>>
    BY <1>4 DEF CommitHandler, Row
  <2>2. effects \in 0..MaxEffects /\ deploy.defers \in 0..MaxEffects
    BY DeploymentAssumption
  <2>3. TypeOK'
    BY <2>1, <2>2
  <2>4. WorkerInv'
    BY <2>1, <2>2
  <2>5. ClaimInv' /\ NoDeferInv'
    BY <2>1, <2>2
  <2> QED
    BY <2>3, <2>4, <2>5
<1>5. ASSUME NEW ok \in BOOLEAN, RunEffect(w, ok)
      PROVE  BaseInv'
  <2>1. /\ pc[w] = "effects" /\ todo[w] > 0
        /\ todo' = [todo EXCEPT ![w] = todo[w] - 1]
        /\ failed' = [failed EXCEPT ![w] = failed[w] \/ ~ok]
        /\ handled' = IF ok /\ Own(w) THEN [handled EXCEPT !.due = handled.due - 1] ELSE handled
        /\ complete' = (complete \/ (ok /\ Own(w) /\ handled.due = 1))
        /\ pc' = [pc EXCEPT ![w] = IF ok THEN "marking" ELSE "effects"]
        /\ UNCHANGED <<deploy, outbox, relay, stream, open, letter, cur, num, current, snap,
                       runs, replays, resets, late>>
    BY <1>5 DEF RunEffect
  <2>2. TypeOK'
    BY <2>1
  <2>3. WorkerInv'
    BY <2>1
  <2>4. ClaimInv' /\ NoDeferInv'
    BY <2>1 DEF Own
  <2> QED
    BY <2>2, <2>3, <2>4
<1>6. ASSUME NEW ok \in BOOLEAN, MarkEffectRun(w, ok)
      PROVE  BaseInv'
  BY <1>6 DEF MarkEffectRun
<1>7. ASSUME NEW ok \in BOOLEAN, ReleaseClaim(w, ok)
      PROVE  BaseInv'
  BY <1>7 DEF ReleaseClaim, Own, NoRow
<1>8. CASE Unfinished(w)
  <2>1. CASE num[w] >= MaxDeliveries /\ Goto(w, "dead") /\ UNCHANGED local
    BY <1>8, <2>1 DEF Unfinished
  <2>2. CASE Done(w)
    <3>1. open # w
      BY <1>8 DEF Unfinished
    <3> QED
      BY <1>8, <2>2, <3>1, BaseDone DEF Unfinished
  <2> QED
    BY <1>8, <2>1, <2>2 DEF Unfinished
<1>9. CASE InsertClaim(w)
  BY <1>9 DEF InsertClaim, Free
<1>10. CASE ReadConflict(w)
  BY <1>10 DEF ReadConflict
<1>11. CASE Retake(w)
  BY <1>11 DEF Retake, Free
<1>12. CASE RollBack(w)
  BY <1>12 DEF RollBack
<1>13. CASE EffectsOver(w)
  BY <1>13 DEF EffectsOver
<1>14. CASE DeadSnapshot(w)
  BY <1>14 DEF DeadSnapshot
<1>15. CASE DeadLetter(w)
  BY <1>15 DEF DeadLetter, Row
<1>16. CASE DeadFails(w)
  <2>1. Done(w) /\ open # w
    BY <1>16 DEF DeadFails
  <2> QED
    BY <1>16, <2>1, BaseDone DEF DeadFails
<1>17. CASE Crash(w)
  BY <1>17, BaseDone DEF Crash
<1> QED
  BY <1>1, <1>2, <1>3, <1>4, <1>5, <1>6, <1>7, <1>8, <1>9, <1>10, <1>11, <1>12, <1>13, <1>14, <1>15, <1>16, <1>17 DEF Step


(* Every step, stuttering included, keeps the base.                         *)
LEMMA BaseNext ==
    ASSUME BaseInv, [Next]_vars
    PROVE  BaseInv'
<1>1. CASE Publish \/ Stamp \/ RelayFails \/ Recreate \/ Replay
  BY <1>1, BaseAround
<1>2. CASE \E w \in Workers : Step(w)
  BY <1>2, BaseStep
<1>3. CASE UNCHANGED vars
  BY <1>3 DEF BaseInv, TypeOK, WorkerInv, ClaimInv, NoDeferInv, vars
<1> QED
  BY <1>1, <1>2, <1>3 DEF Next

(* An uncommitted claim is the only record of its event, a worker holds it  *)
(* exactly while its handler runs, and what defers nothing owes nothing:    *)
(* insertClaim and deadLetter share one unique key (kit/events/events.go).  *)
THEOREM BaseInvariant == Spec => []BaseInv
<1>1. Init => BaseInv
  BY BaseInit
<1>2. BaseInv /\ [Next]_vars => BaseInv'
  BY BaseNext
<1> QED
  BY <1>1, <1>2, PTL DEF Spec

(* The rows, the stream and the workers keep their shapes, whatever is      *)
(* delivered, lost, replayed or recreated.                                  *)
THEOREM TypeCorrect == Spec => []TypeOK
<1>1. BaseInv => TypeOK
  BY DEF BaseInv
<1> QED
  BY <1>1, BaseInvariant, PTL

(* An event whose handler defers nothing is never both handled and in the   *)
(* dead letters, on any number of replicas: deadLetter inserts under the    *)
(* claim's own key and waits for one that is not committed.                 *)
THEOREM LetterUnhandled == Spec => []LetterMeansUnhandled
<1>1. BaseInv => LetterMeansUnhandled
  BY DEF BaseInv, NoDeferInv, LetterMeansUnhandled
<1> QED
  BY <1>1, BaseInvariant, PTL

----------------------------------------------------------------------------
(* The count of deferred effects, where no mark meets another's claim.      *)

(* Before the first claim there is nothing to count. *)
LEMMA CountedInit == Init => CountedInv
<1> SUFFICES ASSUME Init PROVE CountedInv
  OBVIOUS
<1>1. \A w \in Workers : pc[w] \notin EffectPhases
  BY DEF Init, EffectPhases
<1>2. RaceInv /\ EffectInv
  BY <1>1 DEF RaceInv, EffectInv, EffectPhases
<1>3. CountInv /\ OnceInv
  BY DEF Init, CountInv, OnceInv, NoRow
<1> QED
  BY <1>2, <1>3, BaseInit DEF CountedInv

(* A step that leaves the rows alone and runs no effect.                    *)
LEMMA CountedQuiet ==
    ASSUME RaceInv, CountInv, EffectInv, OnceInv,
           UNCHANGED <<deploy, handled, letter, complete, runs>>,
           \A v \in Workers :
              /\ pc'[v] \in EffectPhases => pc[v] \in EffectPhases
              /\ pc'[v] \in {"effects", "marking"} =>
                    pc'[v] = pc[v] /\ todo'[v] = todo[v] /\ failed'[v] = failed[v]
    PROVE  RaceInv' /\ CountInv' /\ EffectInv' /\ OnceInv'
<1>1. RaceInv'
  BY DEF RaceInv, Alone
<1>2. CountInv' /\ OnceInv'
  BY DEF CountInv, OnceInv
<1>3. EffectInv'
  BY DEF EffectInv, Own
<1> QED
  BY <1>1, <1>2, <1>3

(* The relay, a recreated consumer and a replay.                            *)
LEMMA CountedAround ==
    ASSUME NoReplayRace, CountedInv,
           Publish \/ Stamp \/ RelayFails \/ Recreate \/ Replay
    PROVE  RaceInv' /\ CountInv' /\ EffectInv' /\ OnceInv'
<1> USE DEF CountedInv
<1>1. CASE Publish \/ Stamp \/ RelayFails \/ Recreate
  <2>1. UNCHANGED <<deploy, handled, letter, complete, runs, pc, todo, failed>>
    BY <1>1 DEF Publish, Stamp, RelayFails, Recreate, rows, local, history
  <2> QED
    BY <2>1, CountedQuiet
<1>2. CASE Replay
  <2>1. /\ ~handled'.live /\ runs' = 0 /\ UNCHANGED <<deploy, pc>>
        /\ MaxReplays # 0
    BY <1>2, BoundAssumption DEF Replay, NoRow, BaseInv, TypeOK
  <2>2. ASSUME NEW v \in Workers, pc[v] \in EffectPhases
        PROVE  Alone(deploy)
    <3>1. deploy \in Deployments /\ deploy.defers > 0
      BY <2>2 DEF BaseInv, TypeOK, WorkerInv
    <3>2. deploy.defers # 0
      BY <3>1
    <3> QED
      BY <2>1, <3>1, <3>2 DEF NoReplayRace
  <2>3. RaceInv'
    BY <2>1, <2>2 DEF RaceInv, Alone
  <2>4. CountInv' /\ EffectInv' /\ OnceInv'
    BY <2>1 DEF CountInv, EffectInv, OnceInv, Own
  <2> QED
    BY <2>3, <2>4
<1> QED
  BY <1>1, <1>2

(* Steps of a worker that touch the claim or the queue of its effects.      *)
LEMMA CountedCommit ==
    ASSUME CountedInv, NEW w \in Workers,
           NEW effects \in 0..deploy.defers, NEW heard \in BOOLEAN,
           CommitHandler(w, effects, heard)
    PROVE  RaceInv' /\ CountInv' /\ EffectInv' /\ OnceInv'
<1> USE DEF CountedInv, BaseInv
<1>0. effects \in Nat
  BY DeploymentAssumption DEF TypeOK
<1>1. /\ pc[w] = "running" /\ open = w
      /\ handled' = [live |-> TRUE, owed |-> effects, by |-> w, due |-> effects]
      /\ runs' = runs + 1 /\ complete' = (complete \/ effects = 0)
      /\ todo' = [todo EXCEPT ![w] = effects]
      /\ failed' = [failed EXCEPT ![w] = FALSE]
      /\ pc' = [pc EXCEPT ![w] = IF ~heard THEN "unfinished"
                                 ELSE IF effects = 0 THEN "ack" ELSE "effects"]
      /\ UNCHANGED <<deploy, letter>>
  BY DEF CommitHandler, Row, Goto, WorkerInv
<1>2. ~handled.live
  BY <1>1, WorkerAssumption DEF ClaimInv
<1>3. ASSUME NEW v \in Workers, v # w
      PROVE  pc'[v] \notin EffectPhases
  <2>1. pc'[v] = pc[v]
    BY <1>1, <1>3 DEF TypeOK
  <2>2. SUFFICES ASSUME pc[v] \in EffectPhases
                 PROVE  FALSE
    BY <2>1
  <2>3. Alone(deploy)
    BY <1>2, <2>2 DEF RaceInv
  <2>4. pc[v] # "idle"
    BY <2>2 DEF EffectPhases
  <2>5. v \in deploy.workers /\ w \in deploy.workers
    BY <1>1, <2>4 DEF WorkerInv
  <2> QED
    BY <1>3, <2>3, <2>5 DEF Alone
<1>4. RaceInv'
  BY <1>1, <1>3 DEF RaceInv
<1>5. CountInv'
  <2>1. handled'.due = effects /\ handled'.owed = effects
    BY <1>1
  <2>2. effects = 0 => complete'
    BY <1>1
  <2> QED
    BY <1>0, <2>1, <2>2 DEF CountInv
<1>6. EffectInv'
  <2> SUFFICES ASSUME NEW v \in Workers, pc'[v] \in {"effects", "marking"}
               PROVE  /\ handled'.due >= todo'[v]
                      /\ handled'.due = todo'[v]
                      /\ pc'[v] # "marking"
    BY <1>0, <1>1 DEF EffectInv
  <2>1. v = w
    BY <1>3 DEF EffectPhases
  <2> QED
    BY <1>0, <1>1, <2>1 DEF TypeOK
<1>7. OnceInv'
  BY <1>1, <1>2 DEF OnceInv, TypeOK
<1> QED
  BY <1>4, <1>5, <1>6, <1>7

(* An effect that ran or failed is not yet marked. *)
LEMMA CountedRun ==
    ASSUME CountedInv, NEW w \in Workers, NEW ok \in BOOLEAN, RunEffect(w, ok)
    PROVE  RaceInv' /\ CountInv' /\ EffectInv' /\ OnceInv'
<1> USE DEF CountedInv, BaseInv
<1>1. /\ pc[w] = "effects" /\ todo[w] > 0
      /\ todo' = [todo EXCEPT ![w] = @ - 1]
      /\ failed' = [failed EXCEPT ![w] = @ \/ ~ok]
      /\ handled' = IF ok /\ Own(w) THEN [handled EXCEPT !.due = @ - 1] ELSE handled
      /\ complete' = (complete \/ (ok /\ Own(w) /\ handled.due = 1))
      /\ pc' = [pc EXCEPT ![w] = IF ok THEN "marking" ELSE "effects"]
      /\ UNCHANGED <<deploy, letter, runs>>
  BY DEF RunEffect, Goto
<1>2. handled.live => Own(w)
  BY <1>1 DEF RaceInv, Own, EffectPhases
<1>3. handled'.live = handled.live /\ handled'.by = handled.by /\ handled'.owed = handled.owed
  BY <1>1 DEF TypeOK
<1>4. todo[w] \in Nat /\ handled.due \in Int /\ handled.owed \in Int
  BY BoundAssumption DEF TypeOK
<1>5. \A v \in Workers : v # w => pc'[v] = pc[v]
  BY <1>1 DEF TypeOK
<1>6. RaceInv'
  <2>1. \A v \in Workers : pc'[v] \in EffectPhases => pc[v] \in EffectPhases
    BY <1>1, <1>5 DEF EffectPhases
  <2> QED
    BY <1>1, <1>3, <2>1 DEF RaceInv, Alone
<1>7. CASE ~handled.live
  BY <1>1, <1>3, <1>6, <1>7 DEF CountInv, EffectInv, OnceInv, Own
<1>8. CASE handled.live
  <2>1. handled.due >= todo[w] /\ (~failed[w] => handled.due = todo[w])
    BY <1>1, <1>2, <1>8 DEF EffectInv
  <2>2. handled.owed >= handled.due
    BY <1>8 DEF CountInv
  <2>3. OnceInv'
    BY <1>1, <1>3 DEF OnceInv
  <2>4. \A v \in Workers : v # w => ~Own(v)
    BY <1>2, <1>8 DEF Own
  <2>5. \A v \in Workers : v # w => ~(Own(v)')
    BY <1>3, <2>4 DEF Own
  <2>6. CASE ok
    <3>1. handled'.due = handled.due - 1
      BY <1>1, <1>2, <1>8, <2>6 DEF TypeOK
    <3>2. handled.due = 1 => complete'
      BY <1>1, <1>2, <1>8, <2>6
    <3>3. CountInv'
      BY <1>1, <1>3, <1>4, <2>1, <2>2, <3>1, <3>2 DEF CountInv
    <3>4. todo'[w] = todo[w] - 1 /\ (~failed'[w] => ~failed[w])
      BY <1>1 DEF TypeOK
    <3>5. /\ handled'.due >= todo'[w]
          /\ ~failed'[w] => handled'.due = todo'[w]
          /\ handled'.owed >= handled'.due + 1
      BY <1>3, <1>4, <2>1, <2>2, <3>1, <3>4
    <3>6. EffectInv'
      BY <2>5, <3>5, Zenon DEF EffectInv
    <3> QED
      BY <1>6, <2>3, <3>3, <3>6
  <2>7. CASE ~ok
    <3>1. handled' = handled
      BY <1>1, <2>7
    <3>2. CountInv'
      BY <1>1, <1>4, <2>1, <2>2, <3>1 DEF CountInv
    <3>3. todo'[w] = todo[w] - 1 /\ failed'[w] /\ pc'[w] # "marking"
      BY <1>1, <2>7 DEF TypeOK
    <3>4. handled'.due >= todo'[w]
      BY <1>4, <2>1, <3>1, <3>3
    <3>5. EffectInv'
      BY <2>5, <3>3, <3>4, Zenon DEF EffectInv
    <3> QED
      BY <1>6, <2>3, <3>2, <3>5
  <2> QED
    BY <2>6, <2>7
<1> QED
  BY <1>7, <1>8

(* A mark lowers the count by the effect that ran. *)
LEMMA CountedMark ==
    ASSUME CountedInv, NEW w \in Workers, NEW ok \in BOOLEAN, MarkEffectRun(w, ok)
    PROVE  RaceInv' /\ CountInv' /\ EffectInv' /\ OnceInv'
<1> USE DEF CountedInv, BaseInv
<1>1. /\ pc[w] = "marking"
      /\ handled' = IF ok /\ handled.live THEN [handled EXCEPT !.owed = @ - 1] ELSE handled
      /\ failed' = [failed EXCEPT ![w] = @ \/ ~ok]
      /\ pc' = [pc EXCEPT ![w] = "effects"]
      /\ UNCHANGED <<deploy, letter, todo, complete, runs>>
  BY DEF MarkEffectRun, Goto, history
<1>2. handled.live => Own(w)
  BY <1>1 DEF RaceInv, Own, EffectPhases
<1>3. handled'.live = handled.live /\ handled'.by = handled.by /\ handled'.due = handled.due
  BY <1>1 DEF TypeOK
<1>4. handled.due \in Int /\ handled.owed \in Int
  BY DEF TypeOK
<1>5. pc'[w] = "effects" /\ \A v \in Workers : v # w => pc'[v] = pc[v]
  BY <1>1 DEF TypeOK
<1>6. RaceInv'
  <2>1. \A v \in Workers : pc'[v] \in EffectPhases => pc[v] \in EffectPhases
    BY <1>1, <1>5 DEF EffectPhases
  <2> QED
    BY <1>1, <1>3, <2>1 DEF RaceInv, Alone
<1>7. CASE ~handled.live
  BY <1>1, <1>3, <1>6, <1>7 DEF CountInv, EffectInv, OnceInv, Own
<1>8. CASE handled.live
  <2>1. /\ handled.due >= todo[w] /\ (~failed[w] => handled.due = todo[w])
        /\ handled.owed >= handled.due + 1
    BY <1>1, <1>2, <1>8 DEF EffectInv
  <2>2. handled'.owed >= handled'.due
    <3>1. handled'.owed \in {handled.owed, handled.owed - 1}
      BY <1>1 DEF TypeOK
    <3> QED
      BY <1>3, <1>4, <2>1, <3>1
  <2>3. CountInv'
    BY <1>1, <1>3, <2>2 DEF CountInv
  <2>4. OnceInv'
    BY <1>1, <1>3 DEF OnceInv
  <2>5. \A v \in Workers : v # w => ~(Own(v)')
    BY <1>2, <1>3, <1>8 DEF Own
  <2>6. ~failed'[w] => ~failed[w]
    BY <1>1 DEF TypeOK
  <2>7. EffectInv'
    <3>1. /\ handled'.due >= todo'[w]
          /\ ~failed'[w] => handled'.due = todo'[w]
          /\ pc'[w] # "marking"
      BY <1>1, <1>3, <1>5, <2>1, <2>6
    <3> QED
      BY <2>5, <3>1, Zenon DEF EffectInv
  <2> QED
    BY <1>6, <2>3, <2>4, <2>7
<1> QED
  BY <1>7, <1>8

(* A release that goes through takes the whole claim, and the run with it. *)
LEMMA CountedRelease ==
    ASSUME CountedInv, NEW w \in Workers, NEW ok \in BOOLEAN, ReleaseClaim(w, ok)
    PROVE  RaceInv' /\ CountInv' /\ EffectInv' /\ OnceInv'
<1> USE DEF CountedInv, BaseInv
<1>1. /\ pc[w] = "releasing"
      /\ handled' = IF ok THEN NoRow ELSE handled
      /\ runs' = IF ok /\ Own(w) THEN 0 ELSE runs
      /\ pc' = [pc EXCEPT ![w] = "unfinished"]
      /\ UNCHANGED <<deploy, letter, todo, failed, complete>>
  BY DEF ReleaseClaim, Goto, local
<1>2. pc'[w] = "unfinished" /\ \A v \in Workers : v # w => pc'[v] = pc[v]
  BY <1>1 DEF TypeOK
<1>3. handled.live => Own(w)
  BY <1>1 DEF RaceInv, Own, EffectPhases
<1>4. CASE ~ok
  <2>1. UNCHANGED <<handled, runs>>
    BY <1>1, <1>4
  <2> QED
    BY <1>1, <1>2, <2>1, CountedQuiet DEF EffectPhases
<1>5. CASE ok
  <2>1. ~handled'.live
    BY <1>1, <1>5 DEF NoRow
  <2>2. CountInv' /\ EffectInv'
    BY <2>1 DEF CountInv, EffectInv, Own
  <2>3. OnceInv'
    <3>1. runs' = 0 \/ ~handled.live
      BY <1>1, <1>3, <1>5
    <3>2. ~handled.live => runs = 0
      BY DEF OnceInv, TypeOK
    <3>3. runs' = 0
      BY <1>1, <3>1, <3>2
    <3> QED
      BY <3>3 DEF OnceInv
  <2>4. RaceInv'
    <3> SUFFICES ASSUME NEW v \in Workers, pc'[v] \in EffectPhases
                 PROVE  Alone(deploy)
      BY <1>1, <2>1 DEF RaceInv, Alone
    <3>1. v # w /\ pc[v] \in EffectPhases
      BY <1>2 DEF EffectPhases
    <3>2. pc[w] \in EffectPhases
      BY <1>1 DEF EffectPhases
    <3>3. ~handled.live
      BY <3>1, <3>2 DEF RaceInv
    <3> QED
      BY <3>1, <3>3 DEF RaceInv
  <2> QED
    BY <2>2, <2>3, <2>4
<1> QED
  BY <1>4, <1>5

(* A terminal record meets a claim or takes its key. *)
LEMMA CountedBury ==
    ASSUME CountedInv, NEW w \in Workers, DeadLetter(w)
    PROVE  RaceInv' /\ CountInv' /\ EffectInv' /\ OnceInv'
<1> USE DEF CountedInv, BaseInv
<1>1. /\ pc[w] = "burying" /\ pc' = [pc EXCEPT ![w] = "term"]
      /\ handled' = IF handled.live THEN handled ELSE Row(0, None)
      /\ letter' = (letter \/ ~handled.live \/ snap[w])
      /\ UNCHANGED <<deploy, todo, failed, complete, runs>>
  BY DEF DeadLetter, Goto, local, history
<1>2. pc'[w] = "term" /\ \A v \in Workers : v # w => pc'[v] = pc[v]
  BY <1>1 DEF TypeOK
<1>3. \A v \in Workers : pc'[v] \in EffectPhases => v # w /\ pc[v] \in EffectPhases
  BY <1>2 DEF EffectPhases
<1>4. CASE handled.live
  <2>1. handled' = handled
    BY <1>1, <1>4
  <2>2. RaceInv'
    BY <1>1, <1>3, <2>1 DEF RaceInv, Alone
  <2>3. CountInv' /\ OnceInv'
    BY <1>1, <2>1 DEF CountInv, OnceInv
  <2>4. EffectInv'
    BY <1>1, <1>2, <2>1 DEF EffectInv, Own
  <2> QED
    BY <2>2, <2>3, <2>4
<1>5. CASE ~handled.live
  <2>1. handled' = [live |-> TRUE, owed |-> 0, by |-> None, due |-> 0] /\ letter'
    BY <1>1, <1>5 DEF Row
  <2>2. ASSUME NEW v \in Workers, pc'[v] \in EffectPhases
        PROVE  FALSE
    <3>1. v # w /\ pc[v] \in EffectPhases
      BY <1>3, <2>2
    <3>2. Alone(deploy)
      BY <1>5, <3>1 DEF RaceInv
    <3>3. pc[v] # "idle" /\ pc[w] # "idle"
      BY <1>1, <3>1 DEF EffectPhases
    <3>4. v \in deploy.workers /\ w \in deploy.workers
      BY <3>3 DEF WorkerInv
    <3> QED
      BY <3>1, <3>2, <3>4 DEF Alone
  <2>3. RaceInv' /\ EffectInv'
    BY <2>2 DEF RaceInv, EffectInv, EffectPhases
  <2>4. CountInv' /\ OnceInv'
    BY <1>1, <2>1 DEF CountInv, OnceInv
  <2> QED
    BY <2>3, <2>4
<1> QED
  BY <1>4, <1>5

(* A worker's step.                                                         *)
LEMMA CountedStep ==
    ASSUME CountedInv, NEW w \in Workers, Step(w)
    PROVE  RaceInv' /\ CountInv' /\ EffectInv' /\ OnceInv'
<1> USE DEF CountedInv, BaseInv
<1>1. ASSUME NEW c \in Copies, Receive(w, c)
      PROVE  RaceInv' /\ CountInv' /\ EffectInv' /\ OnceInv'
  <2>1. /\ UNCHANGED <<deploy, handled, letter, complete, runs, todo, failed>>
        /\ pc'[w] \in {"claiming", "dead"} /\ \A v \in Workers : v # w => pc'[v] = pc[v]
    BY <1>1 DEF Receive, Goto, rows, history, TypeOK
  <2> QED
    BY <2>1, CountedQuiet DEF EffectPhases
<1>2. CASE \/ \E arrives \in BOOLEAN : Ack(w, arrives) \/ Term(w, arrives)
           \/ DeadFails(w) \/ Crash(w)
  <2>1. Done(w) /\ UNCHANGED <<deploy, handled, letter, complete, runs>>
    BY <1>2 DEF Ack, Term, DeadFails, Crash, rows, history
  <2>2. /\ pc'[w] = "idle"
        /\ \A v \in Workers : v # w => pc'[v] = pc[v] /\ todo'[v] = todo[v] /\ failed'[v] = failed[v]
    BY <2>1 DEF Done, Goto, TypeOK
  <2> QED
    BY <2>1, <2>2, CountedQuiet DEF EffectPhases
<1>3. CASE Unfinished(w)
  <2>1. /\ UNCHANGED <<deploy, handled, letter, complete, runs>>
        /\ pc'[w] \in {"idle", "dead"}
        /\ \A v \in Workers : v # w => pc'[v] = pc[v] /\ todo'[v] = todo[v] /\ failed'[v] = failed[v]
    BY <1>3 DEF Unfinished, Done, Goto, local, rows, history, TypeOK
  <2> QED
    BY <2>1, CountedQuiet DEF EffectPhases
<1>4. CASE InsertClaim(w) \/ ReadConflict(w) \/ Retake(w) \/ RollBack(w) \/ DeadSnapshot(w)
  <2>1. /\ UNCHANGED <<deploy, handled, letter, complete, runs, todo, failed>>
        /\ pc'[w] \in {"running", "conflict", "unfinished", "ack", "retaking", "burying"}
        /\ \A v \in Workers : v # w => pc'[v] = pc[v]
    BY <1>4 DEF InsertClaim, ReadConflict, Retake, RollBack, DeadSnapshot, Goto, local, rows,
                history, TypeOK
  <2> QED
    BY <2>1, CountedQuiet DEF EffectPhases
<1>5. CASE EffectsOver(w)
  <2>1. /\ UNCHANGED <<deploy, handled, letter, complete, runs, todo, failed>>
        /\ pc[w] = "effects" /\ pc'[w] \in {"releasing", "ack"}
        /\ \A v \in Workers : v # w => pc'[v] = pc[v]
    BY <1>5 DEF EffectsOver, Goto, local, rows, history, TypeOK
  <2> QED
    BY <2>1, CountedQuiet DEF EffectPhases
<1>6. CASE \E effects \in 0..deploy.defers, heard \in BOOLEAN : CommitHandler(w, effects, heard)
  BY <1>6, CountedCommit
<1>7. CASE \E ok \in BOOLEAN : RunEffect(w, ok) \/ MarkEffectRun(w, ok) \/ ReleaseClaim(w, ok)
  BY <1>7, CountedRun, CountedMark, CountedRelease
<1>8. CASE DeadLetter(w)
  BY <1>8, CountedBury
<1> QED
  BY <1>1, <1>2, <1>3, <1>4, <1>5, <1>6, <1>7, <1>8 DEF Step

(* Every step keeps the count. *)
LEMMA CountedNext ==
    ASSUME NoReplayRace, CountedInv, [Next]_vars
    PROVE  CountedInv'
<1>1. BaseInv'
  BY BaseNext DEF CountedInv
<1>2. RaceInv' /\ CountInv' /\ EffectInv' /\ OnceInv'
  <2>1. CASE Publish \/ Stamp \/ RelayFails \/ Recreate \/ Replay
    BY <2>1, CountedAround
  <2>2. CASE \E w \in Workers : Step(w)
    BY <2>2, CountedStep
  <2>3. CASE UNCHANGED vars
    <3>1. UNCHANGED <<deploy, handled, letter, complete, runs, pc, todo, failed>>
      BY <2>3 DEF vars
    <3> QED
      BY <3>1, CountedQuiet DEF CountedInv
  <2> QED
    BY <2>1, <2>2, <2>3 DEF Next
<1> QED
  BY <1>1, <1>2 DEF CountedInv

(* Where no mark can meet another attempt's claim (NoReplayRace), the       *)
(* claim's count and what its worker has still to run agree, and a handler  *)
(* that committed has left its claim (deferred.go, commitDeferred,          *)
(* markEffectRun, releaseClaim).                                            *)
THEOREM CountedInvariant ==
    ASSUME NoReplayRace
    PROVE  Spec => []CountedInv
<1>1. Init => CountedInv
  BY CountedInit
<1>2. CountedInv /\ [Next]_vars => CountedInv'
  BY CountedNext
<1> QED
  BY <1>1, <1>2, PTL DEF Spec

(* Between two clearings of the claim at most one handler transaction       *)
(* commits, whatever copies and replicas overlap it (docs/adr/0004).        *)
THEOREM OneCommit ==
    ASSUME NoReplayRace
    PROVE  Spec => []HandledOnce
<1>1. CountedInv => HandledOnce
  BY DEF CountedInv, OnceInv, HandledOnce
<1> QED
  BY <1>1, CountedInvariant, PTL

(* A claim a redelivery would acknowledge has no effect outstanding: the    *)
(* count reaches zero only once all of them came back (deferred.go, Defer). *)
THEOREM HonestCount ==
    ASSUME NoReplayRace
    PROVE  Spec => []CountHonest
<1>1. CountedInv => CountHonest
  <2> SUFFICES ASSUME CountedInv, handled.live, handled.owed <= 0
               PROVE  handled.due = 0
    BY DEF CountHonest
  <2>1. handled.due \in Int /\ handled.owed \in Int
    BY DEF CountedInv, BaseInv, TypeOK
  <2>2. handled.due >= 0 /\ handled.owed >= handled.due
    BY DEF CountedInv, CountInv
  <2> QED
    BY <2>1, <2>2
<1> QED
  BY <1>1, CountedInvariant, PTL

----------------------------------------------------------------------------
(* The fate of the event, where no terminal record can miss a claim.        *)

(* Where no claim is late, no mark is either. *)
LEMMA LateIsRace == NoLateClaim => NoReplayRace
  BY DEF NoLateClaim, NoReplayRace

(* Under NoLateClaim a worker at its effects has the durable to itself.     *)
LEMMA AtEffectsAlone ==
    ASSUME NoLateClaim, BaseInv, deploy.defers # 0,
           NEW v \in Workers, NEW w \in Workers, pc[v] # "idle", pc[w] # "idle"
    PROVE  v = w
<1>1. Alone(deploy)
  BY DEF NoLateClaim, BaseInv, TypeOK
<1>2. v \in deploy.workers /\ w \in deploy.workers
  BY DEF BaseInv, WorkerInv
<1> QED
  BY <1>1, <1>2 DEF Alone

(* The event starts due. *)
LEMMA FateStart == Init => FateInv
<1> SUFFICES ASSUME Init PROVE FateInv
  OBVIOUS
<1>1. \A w \in Workers : pc[w] = "idle"
  BY DEF Init
<1>2. BuryInv /\ LetterInv
  BY <1>1 DEF BuryInv, LetterInv, EffectPhases
<1>3. StreamInv /\ ~late
  BY DEF Init, StreamInv
<1> QED
  BY <1>2, <1>3, CountedInit DEF FateInv, LostInv

(* A terminal record's snapshot stays true.                                 *)
LEMMA BuryNext ==
    ASSUME NoLateClaim, BaseInv, BuryInv, Next
    PROVE  BuryInv'
<1> USE DEF BaseInv
<1>1. ASSUME UNCHANGED handled,
             \A v \in Workers : pc'[v] = "burying" => pc[v] = "burying" /\ snap'[v] = snap[v]
      PROVE  BuryInv'
  BY <1>1 DEF BuryInv
<1>2. CASE Publish \/ Stamp \/ RelayFails \/ Recreate
  <2>1. UNCHANGED <<handled, pc, snap>>
    BY <1>2 DEF Publish, Stamp, RelayFails, Recreate, rows, local
  <2> QED
    BY <1>1, <2>1
<1>3. CASE Replay
  BY <1>3 DEF Replay, NoRow, BuryInv
<1>4. ASSUME NEW w \in Workers, Step(w)
      PROVE  BuryInv'
  <2>1. ASSUME NEW c \in Copies, Receive(w, c)
        PROVE  BuryInv'
    <3>1. /\ UNCHANGED <<handled, snap>> /\ pc'[w] \in {"claiming", "dead"}
          /\ \A v \in Workers : v # w => pc'[v] = pc[v]
      BY <2>1 DEF Receive, Goto, rows, TypeOK
    <3> QED
      BY <1>1, <3>1
  <2>2. CASE \/ \E arrives \in BOOLEAN : Ack(w, arrives) \/ Term(w, arrives)
             \/ DeadFails(w) \/ Crash(w)
    <3>1. Done(w) /\ UNCHANGED handled
      BY <2>2 DEF Ack, Term, DeadFails, Crash, rows
    <3>2. pc'[w] = "idle" /\ \A v \in Workers : v # w => pc'[v] = pc[v] /\ snap'[v] = snap[v]
      BY <3>1 DEF Done, Goto, TypeOK
    <3> QED
      BY <1>1, <3>1, <3>2
  <2>3. CASE Unfinished(w)
    <3>1. /\ UNCHANGED handled /\ pc'[w] \in {"idle", "dead"}
          /\ \A v \in Workers : v # w => pc'[v] = pc[v] /\ snap'[v] = snap[v]
      BY <2>3 DEF Unfinished, Done, Goto, local, rows, TypeOK
    <3> QED
      BY <1>1, <3>1
  <2>4. CASE InsertClaim(w) \/ ReadConflict(w) \/ Retake(w) \/ RollBack(w) \/ EffectsOver(w)
    <3>1. /\ UNCHANGED <<handled, snap>>
          /\ pc'[w] \in {"running", "conflict", "unfinished", "ack", "retaking", "releasing"}
          /\ \A v \in Workers : v # w => pc'[v] = pc[v]
      BY <2>4 DEF InsertClaim, ReadConflict, Retake, RollBack, EffectsOver, Goto, local, rows, TypeOK
    <3> QED
      BY <1>1, <3>1
  <2>5. ASSUME NEW effects \in 0..deploy.defers, NEW heard \in BOOLEAN,
               CommitHandler(w, effects, heard)
        PROVE  BuryInv'
    <3>1. /\ pc[w] = "running" /\ handled'.owed = effects /\ UNCHANGED snap
          /\ pc'[w] \in {"unfinished", "ack", "effects"}
          /\ \A v \in Workers : v # w => pc'[v] = pc[v]
      BY <2>5 DEF CommitHandler, Row, Goto, TypeOK
    <3> SUFFICES ASSUME NEW v \in Workers, pc'[v] = "burying"
                 PROVE  effects <= 0
      BY <3>1 DEF BuryInv
    <3>2. v # w /\ pc[v] = "burying"
      BY <3>1
    <3>3. deploy.defers = 0
      BY <3>1, <3>2, AtEffectsAlone
    <3> QED
      BY <3>3
  <2>6. ASSUME NEW ok \in BOOLEAN, RunEffect(w, ok) \/ MarkEffectRun(w, ok) \/ ReleaseClaim(w, ok)
        PROVE  BuryInv'
    <3>1. handled.owed \in Int /\ handled \in [live : BOOLEAN, owed : Int, by : Workers \cup {None},
                     due : Int]
      BY DEF TypeOK
    <3>2. /\ handled'.live => handled.live
          /\ handled'.live => handled'.owed \in {handled.owed, handled.owed - 1}
      BY <2>6, <3>1 DEF RunEffect, MarkEffectRun, ReleaseClaim, NoRow
    <3>3. UNCHANGED snap /\ pc'[w] \in {"marking", "effects", "unfinished"}
          /\ \A v \in Workers : v # w => pc'[v] = pc[v]
      BY <2>6 DEF RunEffect, MarkEffectRun, ReleaseClaim, Goto, local, TypeOK
    <3>4. handled'.live /\ handled.owed <= 0 => handled'.owed <= 0
      BY <3>1, <3>2
    <3> SUFFICES ASSUME NEW v \in Workers, pc'[v] = "burying", handled'.live, ~snap'[v]
                 PROVE  handled'.owed <= 0
      BY DEF BuryInv
    <3>5. pc[v] = "burying" /\ ~snap[v] /\ handled.live
      BY <3>2, <3>3
    <3> QED
      BY <3>4, <3>5 DEF BuryInv
  <2>7. CASE DeadSnapshot(w)
    <3>1. /\ UNCHANGED handled /\ snap' = [snap EXCEPT ![w] = handled.live /\ handled.owed > 0]
          /\ \A v \in Workers : v # w => pc'[v] = pc[v]
      BY <2>7 DEF DeadSnapshot, Goto, rows, TypeOK
    <3>2. snap'[w] = (handled.live /\ handled.owed > 0)
          /\ \A v \in Workers : v # w => snap'[v] = snap[v]
      BY <3>1 DEF TypeOK
    <3>3. handled.live /\ ~snap'[w] => handled.owed <= 0
      BY <3>2 DEF TypeOK
    <3> SUFFICES ASSUME NEW v \in Workers, pc'[v] = "burying", handled.live, ~snap'[v]
                 PROVE  handled.owed <= 0
      BY <3>1 DEF BuryInv
    <3>4. CASE v = w
      BY <3>3, <3>4
    <3>5. CASE v # w
      BY <3>1, <3>2, <3>5 DEF BuryInv
    <3> QED
      BY <3>4, <3>5
  <2>8. CASE DeadLetter(w)
    <3>1. /\ handled' = IF handled.live THEN handled ELSE Row(0, None)
          /\ UNCHANGED snap /\ pc'[w] = "term"
          /\ \A v \in Workers : v # w => pc'[v] = pc[v]
      BY <2>8 DEF DeadLetter, Goto, local, TypeOK
    <3> SUFFICES ASSUME NEW v \in Workers, pc'[v] = "burying", ~snap'[v]
                 PROVE  handled'.owed <= 0
      BY DEF BuryInv
    <3>2. pc[v] = "burying" /\ ~snap[v]
      BY <3>1
    <3> QED
      BY <3>1, <3>2 DEF BuryInv, Row
  <2> QED
    BY <1>4, <2>1, <2>2, <2>3, <2>4, <2>5, <2>6, <2>7, <2>8 DEF Step
<1> QED
  BY <1>2, <1>3, <1>4 DEF Next

(* No letter is written over a claim whose worker is at its effects.        *)
LEMMA LetterNext ==
    ASSUME NoLateClaim, BaseInv, LetterInv, Next
    PROVE  LetterInv'
<1> USE DEF BaseInv
<1>1. ASSUME letter' => letter,
             \A v \in Workers : pc'[v] \in EffectPhases /\ Own(v)' =>
                pc[v] \in EffectPhases /\ Own(v)
      PROVE  LetterInv'
  BY <1>1 DEF LetterInv
<1>2. CASE Publish \/ Stamp \/ RelayFails \/ Recreate
  <2>1. UNCHANGED <<handled, pc, letter>>
    BY <1>2 DEF Publish, Stamp, RelayFails, Recreate, rows, local
  <2> QED
    BY <1>1, <2>1 DEF Own
<1>3. CASE Replay
  BY <1>3 DEF Replay, LetterInv
<1>4. ASSUME NEW w \in Workers, Step(w)
      PROVE  LetterInv'
  <2>1. ASSUME NEW c \in Copies, Receive(w, c)
        PROVE  LetterInv'
    <3>1. /\ UNCHANGED <<handled, letter>> /\ pc'[w] \in {"claiming", "dead"}
          /\ \A v \in Workers : v # w => pc'[v] = pc[v]
      BY <2>1 DEF Receive, Goto, rows, TypeOK
    <3> QED
      BY <1>1, <3>1 DEF Own, EffectPhases
  <2>2. CASE \/ \E arrives \in BOOLEAN : Ack(w, arrives) \/ Term(w, arrives)
             \/ DeadFails(w) \/ Crash(w) \/ Unfinished(w) \/ DeadSnapshot(w)
             \/ InsertClaim(w) \/ ReadConflict(w) \/ Retake(w) \/ RollBack(w)
    <3>1. /\ UNCHANGED <<handled, letter>> /\ pc'[w] \notin EffectPhases
          /\ \A v \in Workers : v # w => pc'[v] = pc[v]
      BY <2>2 DEF Ack, Term, DeadFails, Crash, Unfinished, DeadSnapshot, InsertClaim, ReadConflict,
                  Retake, RollBack, Done, Goto, rows, TypeOK, EffectPhases
    <3> QED
      BY <1>1, <3>1 DEF Own
  <2>3. CASE EffectsOver(w)
    <3>1. /\ UNCHANGED <<handled, letter>> /\ pc[w] = "effects"
          /\ \A v \in Workers : v # w => pc'[v] = pc[v]
      BY <2>3 DEF EffectsOver, Goto, rows, TypeOK
    <3> QED
      BY <1>1, <3>1 DEF Own, EffectPhases
  <2>4. ASSUME NEW effects \in 0..deploy.defers, NEW heard \in BOOLEAN,
               CommitHandler(w, effects, heard)
        PROVE  LetterInv'
    <3>1. pc[w] = "running" /\ UNCHANGED letter
      BY <2>4 DEF CommitHandler
    <3>2. open = w
      BY <3>1 DEF WorkerInv
    <3>3. ~letter
      BY <3>2, WorkerAssumption DEF ClaimInv
    <3> QED
      BY <3>1, <3>3 DEF LetterInv
  <2>5. ASSUME NEW ok \in BOOLEAN, RunEffect(w, ok) \/ MarkEffectRun(w, ok) \/ ReleaseClaim(w, ok)
        PROVE  LetterInv'
    <3>1. /\ pc[w] \in EffectPhases /\ UNCHANGED letter
          /\ \A v \in Workers : v # w => pc'[v] = pc[v]
      BY <2>5 DEF RunEffect, MarkEffectRun, ReleaseClaim, Goto, TypeOK, EffectPhases
    <3>2. handled'.live => handled.live /\ handled'.by = handled.by
      BY <2>5 DEF RunEffect, MarkEffectRun, ReleaseClaim, NoRow, TypeOK
    <3> QED
      BY <1>1, <3>1, <3>2 DEF Own
  <2>6. CASE DeadLetter(w)
    <3>1. /\ pc[w] = "burying" /\ pc'[w] = "term"
          /\ handled' = IF handled.live THEN handled ELSE Row(0, None)
          /\ letter' = (letter \/ ~handled.live \/ snap[w])
          /\ \A v \in Workers : v # w => pc'[v] = pc[v]
      BY <2>6 DEF DeadLetter, Goto, TypeOK
    <3> SUFFICES ASSUME NEW v \in Workers, pc'[v] \in EffectPhases, Own(v)'
                 PROVE  FALSE
      BY DEF LetterInv
    <3>2. v # w /\ pc[v] \in EffectPhases
      BY <3>1 DEF EffectPhases
    <3>3. deploy.defers > 0
      BY <3>2 DEF WorkerInv
    <3>4. deploy.defers # 0 /\ pc[v] # "idle" /\ pc[w] # "idle"
      BY <3>1, <3>2, <3>3 DEF EffectPhases
    <3> QED
      BY <3>2, <3>4, AtEffectsAlone
  <2> QED
    BY <1>4, <2>1, <2>2, <2>3, <2>4, <2>5, <2>6 DEF Step
<1> QED
  BY <1>2, <1>3, <1>4 DEF Next

(* A step of one worker that leaves another attempt's copy where it was.    *)
LEMMA StillUnsettled ==
    ASSUME NEW c \in Copies, Unsettled(c), NEW w \in Workers,
           copies'[c].state = "pending",
           handled'.live = handled.live, handled'.by = handled.by,
           \A v \in Workers : v # w =>
              pc'[v] = pc[v] /\ cur'[v] = cur[v] /\ current'[v] = current[v],
           current'[w] /\ cur'[w] = c =>
              /\ pc'[w] \notin {"ack", "term"}
              /\ pc'[w] \in {"effects", "marking"} => Own(w)'
    PROVE  Unsettled(c)'
<1> SUFFICES ASSUME NEW v \in Workers, current'[v], cur'[v] = c
             PROVE  /\ pc'[v] \notin {"ack", "term"}
                    /\ pc'[v] \in {"effects", "marking"} => Own(v)'
  BY DEF Unsettled
<1>1. CASE v = w
  BY <1>1
<1>2. CASE v # w
  <2>1. current[v] /\ cur[v] = c /\ pc'[v] = pc[v]
    BY <1>2
  <2>2. Own(v) => Own(v)'
    BY DEF Own
  <2> QED
    BY <2>1, <2>2 DEF Unsettled
<1> QED
  BY <1>1, <1>2

(* The relay, a recreated consumer and a replay leave a copy to deliver.    *)
LEMMA StreamAround ==
    ASSUME BaseInv, StreamInv, Publish \/ Stamp \/ RelayFails \/ Recreate \/ Replay
    PROVE  StreamInv'
<1> USE DEF BaseInv
<1>1. CASE Publish
  <2>1. PICK c \in Copies :
           /\ copies[c].state = "none"
           /\ copies' = [copies EXCEPT ![c] = [state |-> "pending", n |-> 0]]
    BY <1>1 DEF Publish
  <2>2. UNCHANGED <<pc, cur, current>>
    BY <1>1 DEF Publish, local
  <2>3. copies'[c].state = "pending"
    BY <2>1 DEF TypeOK
  <2>4. \A w \in Workers : cur[w] # c
    BY <2>1 DEF WorkerInv
  <2>5. Unsettled(c)'
    BY <2>2, <2>3, <2>4 DEF Unsettled
  <2> QED
    BY <2>5 DEF StreamInv
<1>2. CASE Stamp \/ RelayFails
  <2>1. relay = "sent" /\ UNCHANGED <<copies, rows, pc, local, history>>
    BY <1>2 DEF Stamp, RelayFails
  <2>2. complete \/ letter \/ late \/ \E c \in Copies : Unsettled(c)
    BY <2>1 DEF StreamInv
  <2>3. ASSUME NEW c \in Copies, Unsettled(c)
        PROVE  Unsettled(c)'
    BY <2>1, <2>3 DEF Unsettled, Own, rows, local
  <2>4. complete' = complete /\ letter' = letter /\ late' = late
    BY <2>1 DEF rows, history
  <2> QED
    BY <2>2, <2>3, <2>4 DEF StreamInv
<1>3. CASE Recreate
  <2>1. /\ UNCHANGED <<outbox, relay, letter, complete, late, pc, cur, handled>>
        /\ copies' = [c \in Copies |->
                         IF copies[c].state = "none" THEN copies[c]
                         ELSE [state |-> "pending", n |-> 0]]
        /\ current' = [w \in Workers |-> FALSE]
    BY <1>3 DEF Recreate, rows, history
  <2>2. ASSUME NEW c \in Copies, Unsettled(c)
        PROVE  Unsettled(c)'
    <3>1. copies'[c].state = "pending"
      BY <2>1, <2>2 DEF Unsettled
    <3>2. \A w \in Workers : ~current'[w]
      BY <2>1
    <3> QED
      BY <3>1, <3>2 DEF Unsettled
  <2> QED
    BY <2>1, <2>2 DEF StreamInv
<1>4. CASE Replay
  BY <1>4 DEF Replay, StreamInv
<1> QED
  BY <1>1, <1>2, <1>3, <1>4

(* A worker settles a copy only where the event's fate is on record.        *)
LEMMA StreamStep ==
    ASSUME CountedInv, StreamInv, NEW w \in Workers, Step(w)
    PROVE  StreamInv'
<1> USE DEF CountedInv, BaseInv
<1>1. /\ UNCHANGED <<outbox, relay>>
      /\ complete => complete'
      /\ letter => letter'
      /\ late => late'
  <2>1. UNCHANGED <<outbox, relay>>
    BY DEF Step, Receive, Ack, Term, Unfinished, InsertClaim, ReadConflict, Retake, RollBack,
           CommitHandler, RunEffect, MarkEffectRun, EffectsOver, ReleaseClaim, DeadSnapshot,
           DeadLetter, DeadFails, Crash, stream
  <2>2. complete => complete'
    BY DEF Step, Receive, Ack, Term, Unfinished, InsertClaim, ReadConflict, Retake, RollBack,
           CommitHandler, RunEffect, MarkEffectRun, EffectsOver, ReleaseClaim, DeadSnapshot,
           DeadLetter, DeadFails, Crash, history
  <2>3. letter => letter'
    BY DEF Step, Receive, Ack, Term, Unfinished, InsertClaim, ReadConflict, Retake, RollBack,
           CommitHandler, RunEffect, MarkEffectRun, EffectsOver, ReleaseClaim, DeadSnapshot,
           DeadLetter, DeadFails, Crash, rows
  <2>4. late => late'
    BY DEF Step, Receive, Ack, Term, Unfinished, InsertClaim, ReadConflict, Retake, RollBack,
           CommitHandler, RunEffect, MarkEffectRun, EffectsOver, ReleaseClaim, DeadSnapshot,
           DeadLetter, DeadFails, Crash, history
  <2> QED
    BY <2>1, <2>2, <2>3, <2>4
<1>2. SUFFICES ASSUME NEW c \in Copies, Unsettled(c), ~complete, ~letter, ~complete', ~letter', ~late'
               PROVE  Unsettled(c)'
  BY <1>1 DEF StreamInv
<1>3. copies[c].state = "pending"
  BY <1>2 DEF Unsettled
<1>4. handled.live => handled.owed > 0
  <2> SUFFICES ASSUME handled.live
               PROVE  handled.owed > 0
    OBVIOUS
  <2>1. handled.due # 0 /\ handled.due >= 0 /\ handled.owed >= handled.due
    BY <1>2 DEF CountInv
  <2>2. handled.due \in Int /\ handled.owed \in Int
    BY DEF TypeOK
  <2> QED
    BY <2>1, <2>2
<1>5. ASSUME NEW b \in Copies, Receive(w, b)
      PROVE  Unsettled(c)'
  <2>1. /\ copies'[c].state = copies[c].state /\ UNCHANGED handled
        /\ pc'[w] \in {"claiming", "dead"}
        /\ \A v \in Workers : v # w =>
              pc'[v] = pc[v] /\ cur'[v] = cur[v] /\ current'[v] = current[v]
    BY <1>5 DEF Receive, Goto, rows, TypeOK
  <2> QED
    BY <1>2, <1>3, <2>1, StillUnsettled
<1>6. CASE \/ \E arrives \in BOOLEAN : Ack(w, arrives) \/ Term(w, arrives)
           \/ DeadFails(w) \/ Crash(w)
  <2>1. /\ UNCHANGED handled /\ Done(w)
        /\ \/ UNCHANGED copies
           \/ pc[w] \in {"ack", "term"} /\ \E state \in {"acked", "termed"} : copies' = Settled(w, state)
    BY <1>6 DEF Ack, Term, DeadFails, Crash, rows, stream
  <2>2. /\ ~current'[w]
        /\ \A v \in Workers : v # w =>
              pc'[v] = pc[v] /\ cur'[v] = cur[v] /\ current'[v] = current[v]
    BY <2>1 DEF Done, Goto, TypeOK
  <2>3. copies'[c].state = "pending"
    <3>1. pc[w] \in {"ack", "term"} /\ current[w] => cur[w] # c
      BY <1>2 DEF Unsettled
    <3> QED
      BY <1>3, <2>1, <3>1 DEF Settled, TypeOK
  <2> QED
    BY <1>2, <2>1, <2>2, <2>3, StillUnsettled
<1>7. CASE Unfinished(w)
  <2>1. /\ UNCHANGED <<copies, handled>> /\ pc'[w] \in {"idle", "dead"}
        /\ \A v \in Workers : v # w =>
              pc'[v] = pc[v] /\ cur'[v] = cur[v] /\ current'[v] = current[v]
    BY <1>7 DEF Unfinished, Done, Goto, local, rows, stream, TypeOK
  <2> QED
    BY <1>2, <1>3, <2>1, StillUnsettled
<1>8. CASE InsertClaim(w) \/ ReadConflict(w) \/ Retake(w) \/ RollBack(w) \/ DeadSnapshot(w)
  <2>1. /\ UNCHANGED <<copies, handled, cur, current>>
        /\ \A v \in Workers : v # w => pc'[v] = pc[v]
    BY <1>8 DEF InsertClaim, ReadConflict, Retake, RollBack, DeadSnapshot, Goto, local, rows,
                stream, TypeOK
  <2>2. pc'[w] \in {"running", "conflict", "unfinished", "retaking", "burying"}
    BY <1>2, <1>4, <1>8 DEF InsertClaim, ReadConflict, Retake, RollBack, DeadSnapshot, Goto, TypeOK
  <2> QED
    BY <1>2, <1>3, <2>1, <2>2, StillUnsettled
<1>9. ASSUME NEW effects \in 0..deploy.defers, NEW heard \in BOOLEAN, CommitHandler(w, effects, heard)
      PROVE  Unsettled(c)'
  <2>1. /\ pc[w] = "running" /\ handled'.live /\ handled'.by = w
        /\ UNCHANGED <<copies, cur, current>>
        /\ \A v \in Workers : v # w => pc'[v] = pc[v]
    BY <1>9 DEF CommitHandler, Row, Goto, stream, TypeOK
  <2>2. pc'[w] \in {"unfinished", "effects"}
    <3>1. effects # 0
      BY <1>2, <1>9 DEF CommitHandler
    <3> QED
      BY <1>9, <3>1 DEF CommitHandler, Goto, TypeOK
  <2>3. ~handled.live
    <3>1. open = w
      BY <2>1 DEF WorkerInv
    <3> QED
      BY <3>1, WorkerAssumption DEF ClaimInv
  <2> SUFFICES ASSUME NEW v \in Workers, current[v], cur[v] = c
               PROVE  /\ pc'[v] \notin {"ack", "term"}
                      /\ pc'[v] \in {"effects", "marking"} => Own(v)'
    BY <1>3, <2>1 DEF Unsettled
  <2>4. CASE v = w
    BY <2>1, <2>2, <2>4 DEF Own
  <2>5. CASE v # w
    BY <1>2, <2>1, <2>3, <2>5 DEF Unsettled, Own
  <2> QED
    BY <2>4, <2>5
<1>10. ASSUME NEW ok \in BOOLEAN, RunEffect(w, ok) \/ MarkEffectRun(w, ok)
       PROVE  Unsettled(c)'
  <2>1. /\ UNCHANGED <<copies, cur, current>> /\ pc[w] \in {"effects", "marking"}
        /\ pc'[w] \in {"effects", "marking"}
        /\ \A v \in Workers : v # w => pc'[v] = pc[v]
    BY <1>10 DEF RunEffect, MarkEffectRun, Goto, stream, TypeOK
  <2>2. handled'.live = handled.live /\ handled'.by = handled.by
    BY <1>10 DEF RunEffect, MarkEffectRun, TypeOK
  <2>3. current'[w] /\ cur'[w] = c => Own(w)'
    <3>1. current[w] /\ cur[w] = c => Own(w)
      BY <1>2, <2>1 DEF Unsettled
    <3> QED
      BY <2>1, <2>2, <3>1 DEF Own
  <2> QED
    BY <1>2, <1>3, <2>1, <2>2, <2>3, StillUnsettled
<1>11. CASE EffectsOver(w)
  <2>1. /\ UNCHANGED <<copies, handled, cur, current>> /\ pc[w] = "effects" /\ todo[w] = 0
        /\ pc'[w] = IF failed[w] THEN "releasing" ELSE "ack"
        /\ \A v \in Workers : v # w => pc'[v] = pc[v]
    BY <1>11 DEF EffectsOver, Goto, local, rows, stream, TypeOK
  <2>2. current[w] /\ cur[w] = c => failed[w]
    <3>1. SUFFICES ASSUME current[w], cur[w] = c, ~failed[w]
                   PROVE  FALSE
      OBVIOUS
    <3>2. Own(w)
      BY <1>2, <2>1, <3>1 DEF Unsettled
    <3>3. handled.due = 0
      BY <2>1, <3>1, <3>2 DEF EffectInv
    <3> QED
      BY <1>2, <3>2, <3>3 DEF CountInv, Own
  <2> QED
    BY <1>2, <1>3, <2>1, <2>2, StillUnsettled
<1>12. ASSUME NEW ok \in BOOLEAN, ReleaseClaim(w, ok)
       PROVE  Unsettled(c)'
  <2>1. /\ UNCHANGED <<copies, cur, current>> /\ pc[w] = "releasing" /\ pc'[w] = "unfinished"
        /\ \A v \in Workers : v # w => pc'[v] = pc[v]
    BY <1>12 DEF ReleaseClaim, Goto, local, stream, TypeOK
  <2>2. \A v \in Workers : v # w => ~Own(v)
    BY <2>1 DEF RaceInv, Own, EffectPhases
  <2> SUFFICES ASSUME NEW v \in Workers, current[v], cur[v] = c
               PROVE  /\ pc'[v] \notin {"ack", "term"}
                      /\ pc'[v] \in {"effects", "marking"} => Own(v)'
    BY <1>3, <2>1 DEF Unsettled
  <2>3. CASE v = w
    BY <2>1, <2>3
  <2>4. CASE v # w
    BY <1>2, <2>1, <2>2, <2>4 DEF Unsettled
  <2> QED
    BY <2>3, <2>4
<1>13. CASE DeadLetter(w)
  <2>1. pc[w] = "burying" /\ handled.live /\ ~snap[w]
    BY <1>2, <1>13 DEF DeadLetter
  <2>2. Missed(w)
    BY <1>4, <2>1 DEF Missed
  <2> QED
    BY <1>2, <1>13, <2>2 DEF DeadLetter
<1> QED
  BY <1>5, <1>6, <1>7, <1>8, <1>9, <1>10, <1>11, <1>12, <1>13 DEF Step

(* Every step of the event leaves it a copy, its fate, or a record too early. *)
LEMMA LostStep ==
    ASSUME NoReplayRace, LostInv, [Next]_vars
    PROVE  LostInv'
<1> USE DEF LostInv
<1>1. CountedInv'
  BY CountedNext
<1>2. CASE Next
  BY <1>1, <1>2, StreamAround, StreamStep DEF Next, CountedInv
<1>3. CASE UNCHANGED vars
  <2>1. \A c \in Copies : Unsettled(c)' <=> Unsettled(c)
    BY <1>3 DEF vars, Unsettled, Own
  <2>2. StreamInv'
    BY <1>3, <2>1 DEF vars, StreamInv
  <2> QED
    BY <1>1, <2>2
<1> QED
  BY <1>2, <1>3

(* Where no mark can meet another attempt's claim (NoReplayRace) the event  *)
(* is not lost, unless a terminal record came before the claim it should    *)
(* have seen: that window of deadLetter's is the only one, whatever crashes *)
(* and overlaps (events.go, Handle, Dead; deferred.go).                     *)
THEOREM OneWindow ==
    ASSUME NoReplayRace
    PROVE  Spec => []LostOnlyLate
<1>1. Init => LostInv
  BY CountedInit DEF Init, LostInv, StreamInv
<1>2. LostInv /\ [Next]_vars => LostInv'
  BY LostStep
<1>3. LostInv => LostOnlyLate
  BY DEF LostInv, StreamInv, Unsettled, LostOnlyLate, Quiet
<1> QED
  BY <1>1, <1>2, <1>3, PTL DEF Spec

(* A terminal record whose snapshot stays true misses nothing.              *)
LEMMA NeverLate ==
    ASSUME BaseInv, BuryInv, ~late, [Next]_vars
    PROVE  ~late'
<1>1. CASE UNCHANGED vars
  BY <1>1 DEF vars
<1>2. CASE Publish \/ Stamp \/ RelayFails \/ Recreate \/ Replay
  BY <1>2 DEF Publish, Stamp, RelayFails, Recreate, Replay, history
<1>3. ASSUME NEW w \in Workers, Step(w)
      PROVE  ~late'
  <2>1. CASE DeadLetter(w)
    <3>1. ~(handled.live /\ ~snap[w] /\ handled.owed > 0)
      <4>1. handled.owed \in Int
        BY DEF BaseInv, TypeOK
      <4>2. pc[w] = "burying"
        BY <2>1 DEF DeadLetter
      <4> QED
        BY <4>1, <4>2 DEF BuryInv
    <3> QED
      BY <2>1, <3>1 DEF DeadLetter, Missed
  <2>2. CASE ~DeadLetter(w)
    BY <1>3, <2>2
       DEF Step, Receive, Ack, Term, Unfinished, InsertClaim, ReadConflict, Retake, RollBack,
           CommitHandler, RunEffect, MarkEffectRun, EffectsOver, ReleaseClaim, DeadSnapshot,
           DeadFails, Crash, history
  <2> QED
    BY <2>1, <2>2
<1> QED
  BY <1>1, <1>2, <1>3 DEF Next

(* Every step keeps the fate's invariant. *)
LEMMA FateStep ==
    ASSUME NoLateClaim, FateInv, [Next]_vars
    PROVE  FateInv'
<1> USE DEF FateInv
<1>1. LostInv'
  BY LostStep, LateIsRace
<1>2. BaseInv /\ BuryInv /\ LetterInv
  BY DEF LostInv, CountedInv
<1>3. BuryInv' /\ LetterInv'
  <2>1. CASE Next
    BY <1>2, <2>1, BuryNext, LetterNext
  <2>2. CASE UNCHANGED vars
    BY <1>2, <2>2 DEF vars, BuryInv, LetterInv, Own
  <2> QED
    BY <2>1, <2>2
<1>4. ~late'
  BY <1>2, NeverLate
<1> QED
  BY <1>1, <1>3, <1>4

(* Where no terminal record can miss a claim that owes (NoLateClaim), the   *)
(* published event keeps a copy nobody is about to settle until it is       *)
(* handled in full or in the dead letters (events.go, Handle, Dead).        *)
THEOREM FateInvariant ==
    ASSUME NoLateClaim
    PROVE  Spec => []FateInv
<1>1. Init => FateInv
  BY FateStart
<1>2. FateInv /\ [Next]_vars => FateInv'
  BY FateStep
<1> QED
  BY <1>1, <1>2, PTL DEF Spec

(* Once the transport is through with the event it was handled with all it  *)
(* deferred, or it is in the dead letters: crashes, lost acks, duplicates,  *)
(* recreated consumers and replays included (events.go, deadLetter).        *)
THEOREM NothingLost ==
    ASSUME NoLateClaim
    PROVE  Spec => []NoLoss
<1>1. FateInv => NoLoss
  BY DEF FateInv, LostInv, StreamInv, Unsettled, NoLoss, Quiet
<1> QED
  BY <1>1, FateInvariant, PTL

(* Every step of the outbox, the claim ledger and the dead letters is a     *)
(* step of EventFate or none of its business: handled once or buried, each  *)
(* only when due, and for good until an operator orders another run.        *)
THEOREM FateRefined ==
    ASSUME NoLateClaim
    PROVE  Spec => Fate!FateInit /\ [][Fate!FateNext]_(Fate!fvars)
<1>1. Init => Fate!FateInit
  BY DEF Init, Fate!FateInit
<1>2. FateInv /\ [Next]_vars => [Fate!FateNext]_(Fate!fvars)
  <2> SUFFICES ASSUME FateInv, [Next]_vars
               PROVE  [Fate!FateNext]_(Fate!fvars)
    OBVIOUS
  <2> USE DEF FateInv, LostInv, CountedInv, BaseInv, Fate!FateNext, Fate!fvars, Fate!Handle, Fate!Bury,
              Fate!Reorder
  <2>1. ASSUME UNCHANGED <<letter, complete, replays>>
        PROVE  [Fate!FateNext]_(Fate!fvars)
    BY <2>1
  <2>2. CASE Publish \/ Stamp \/ RelayFails \/ Recreate
    BY <2>1, <2>2 DEF Publish, Stamp, RelayFails, Recreate, rows, history
  <2>3. CASE Replay
    BY <2>3 DEF Replay
  <2>4. ASSUME NEW w \in Workers, Step(w)
        PROVE  [Fate!FateNext]_(Fate!fvars)
    <3>1. CASE \/ \E c \in Copies : Receive(w, c)
               \/ \E arrives \in BOOLEAN : Ack(w, arrives) \/ Term(w, arrives)
               \/ Unfinished(w) \/ InsertClaim(w) \/ ReadConflict(w) \/ Retake(w) \/ RollBack(w)
               \/ EffectsOver(w) \/ DeadSnapshot(w) \/ DeadFails(w) \/ Crash(w)
               \/ \E ok \in BOOLEAN : MarkEffectRun(w, ok) \/ ReleaseClaim(w, ok)
      <4>1. UNCHANGED <<letter, complete, replays>>
        BY <3>1 DEF Receive, Ack, Term, Unfinished, InsertClaim, ReadConflict, Retake, RollBack,
                    EffectsOver, DeadSnapshot, DeadFails, Crash, MarkEffectRun, ReleaseClaim, rows,
                    history
      <4> QED
        BY <2>1, <4>1
    <3>2. ASSUME NEW effects \in 0..deploy.defers, NEW heard \in BOOLEAN,
                 CommitHandler(w, effects, heard)
          PROVE  [Fate!FateNext]_(Fate!fvars)
      <4>1. open = w /\ UNCHANGED <<letter, replays>> /\ (complete => complete')
        BY <3>2 DEF CommitHandler, WorkerInv
      <4>2. ~letter
        BY <4>1, WorkerAssumption DEF ClaimInv
      <4> QED
        BY <4>1, <4>2
    <3>3. ASSUME NEW ok \in BOOLEAN, RunEffect(w, ok)
          PROVE  [Fate!FateNext]_(Fate!fvars)
      <4>1. pc[w] \in EffectPhases /\ UNCHANGED <<letter, replays>> /\ (complete => complete')
        BY <3>3 DEF RunEffect, EffectPhases
      <4>2. complete' # complete => Own(w)
        BY <3>3 DEF RunEffect, TypeOK
      <4>3. complete' # complete => ~letter
        BY <4>1, <4>2 DEF LetterInv
      <4>4. complete' \in BOOLEAN
        BY <3>3 DEF RunEffect
      <4> QED
        BY <4>1, <4>3, <4>4 DEF TypeOK
    <3>4. CASE DeadLetter(w)
      BY <3>4 DEF DeadLetter, history
    <3> QED
      BY <2>4, <3>1, <3>2, <3>3, <3>4 DEF Step
  <2>5. CASE UNCHANGED vars
    BY <2>1, <2>5 DEF vars
  <2> QED
    BY <2>2, <2>3, <2>4, <2>5 DEF Next
<1> QED
  BY <1>1, <1>2, FateInvariant, PTL DEF Spec

=============================================================================
