------------------------------ MODULE Delivery ------------------------------
(***************************************************************************)
(* One outbox event on its way to one subscription (kit/events).            *)
(*                                                                         *)
(* The relay publishes the event's outbox row to a JetStream stream; every  *)
(* copy is delivered, again and again until it is acknowledged, to one of   *)
(* the workers that share the subscription's durable consumer; a delivery   *)
(* claims the event in platformkit_handled inside the handler's own         *)
(* transaction, effects deferred past the commit are counted on the claim,  *)
(* and exhausted deliveries are recorded in platformkit_dead_letters.       *)
(* Every statement of claim, letter and count is keyed by (event, durable), *)
(* so one such pair is modelled.                                            *)
(*                                                                         *)
(* A worker is one replica's consumer callback.  Each action is one         *)
(* transaction, one statement of an open transaction, or one call to the    *)
(* broker; between two of them any other worker may move and this one may   *)
(* die.  Not here: placement and ledger moves, the age limit of stream and  *)
(* ledger (nothing expires), subscriptions with a Terminal hook.            *)
(***************************************************************************)
EXTENDS Integers

CONSTANTS
    Workers,         \* replicas that may consume the durable
    None,            \* no worker
    MaxDeliveries,   \* delivery.MaxDeliveries: attempts that run the handler
    MaxCopies,       \* bound: copies of the event the relay may publish
    MaxEffects,      \* bound: effects a handler may defer (events.Defer)
    MaxReplays,      \* bound: operator replays
    MaxResets,       \* bound: times the consumer is deleted and recreated
    Deployments      \* which replicas run, and how much a handler defers

ASSUME WorkerAssumption == None \notin Workers
ASSUME BoundAssumption ==
    /\ MaxDeliveries \in Nat \ {0}
    /\ MaxCopies \in Nat
    /\ MaxEffects \in Nat
    /\ MaxReplays \in Nat
    /\ MaxResets \in Nat
ASSUME DeploymentAssumption ==
    Deployments \subseteq [workers : SUBSET Workers, defers : 0..MaxEffects]

VARIABLES
    deploy,    \* the deployment: its replicas, and the effects a handler defers
    outbox,    \* the outbox row: "pending" or "published"
    relay,     \* "sent": a relay transaction has published and holds the row
    copies,    \* the stream: [state, n] per copy, n the deliveries so far
    handled,   \* the committed claim row
    open,      \* the worker whose transaction has inserted the claim
    letter,    \* TRUE: the dead letter is recorded
    pc,        \* where each worker is
    cur,       \* the copy a worker was handed
    num,       \* its NumDelivered
    current,   \* FALSE: the consumer it came from was deleted meanwhile
    todo,      \* deferred effects a worker has still to run
    failed,    \* TRUE: one of them, or its mark, failed
    snap,      \* deadLetter's statement snapshot saw an owing claim
    replays,   \* operator replays so far
    resets,    \* consumer recreations so far
    complete,  \* history: handled, and all it deferred came back
    runs,      \* history: handler commits since the claim was last cleared
    late       \* history: a terminal record missed a claim that owed

vars == <<deploy, outbox, relay, copies, handled, open, letter, pc, cur, num,
          current, todo, failed, snap, replays, resets, complete, runs, late>>
rows == <<handled, open, letter>>
stream == <<outbox, relay, copies>>
local == <<cur, num, current, todo, failed, snap>>
history == <<complete, runs, late>>

Copies == 1..MaxCopies

(* by and due are history: whose claim the row is, and how many of its      *)
(* effects have not come back.                                              *)
NoRow == [live |-> FALSE, owed |-> 0, by |-> None, due |-> 0]
Row(owed, by) == [live |-> TRUE, owed |-> owed, by |-> by, due |-> owed]

InHandler == {"claiming", "conflict", "retaking", "running"}
Phases == InHandler \cup
          {"idle", "effects", "marking", "releasing", "ack", "unfinished",
           "dead", "burying", "term"}

Init ==
    /\ deploy \in Deployments
    /\ outbox = "pending"
    /\ relay = "idle"
    /\ copies = [c \in Copies |-> [state |-> "none", n |-> 0]]
    /\ handled = NoRow
    /\ open = None
    /\ letter = FALSE
    /\ pc = [w \in Workers |-> "idle"]
    /\ cur = [w \in Workers |-> 0]
    /\ num = [w \in Workers |-> 0]
    /\ current = [w \in Workers |-> FALSE]
    /\ todo = [w \in Workers |-> 0]
    /\ failed = [w \in Workers |-> FALSE]
    /\ snap = [w \in Workers |-> FALSE]
    /\ replays = 0
    /\ resets = 0
    /\ complete = FALSE
    /\ runs = 0
    /\ late = FALSE

Goto(w, phase) == pc' = [pc EXCEPT ![w] = phase]

(* The callback returns and forgets the delivery.                           *)
Done(w) ==
    /\ Goto(w, "idle")
    /\ cur' = [cur EXCEPT ![w] = 0]
    /\ num' = [num EXCEPT ![w] = 0]
    /\ current' = [current EXCEPT ![w] = FALSE]
    /\ todo' = [todo EXCEPT ![w] = 0]
    /\ failed' = [failed EXCEPT ![w] = FALSE]
    /\ snap' = [snap EXCEPT ![w] = FALSE]

----------------------------------------------------------------------------
(* The relay: publish first, stamp after.                                   *)

(* relayBatch reads the pending row FOR UPDATE and publishes it.            *)
Publish ==
    /\ outbox = "pending"
    /\ relay = "idle"
    /\ \E c \in Copies :
          /\ copies[c].state = "none"
          /\ \A b \in Copies : b < c => copies[b].state # "none"
          /\ copies' = [copies EXCEPT ![c] = [state |-> "pending", n |-> 0]]
    /\ relay' = "sent"
    /\ UNCHANGED <<deploy, outbox, rows, pc, local, replays, resets, history>>

(* ... and stamps what it published.                                        *)
Stamp ==
    /\ relay = "sent"
    /\ outbox' = "published"
    /\ relay' = "idle"
    /\ UNCHANGED <<deploy, copies, rows, pc, local, replays, resets, history>>

(* A publish that reports an error, a refused stamp or a crash: the batch's *)
(* transaction is gone and the copy is not.                                 *)
RelayFails ==
    /\ relay = "sent"
    /\ \E c \in Copies : copies[c].state = "none"
    /\ relay' = "idle"
    /\ UNCHANGED <<deploy, outbox, copies, rows, pc, local, replays, resets,
                   history>>

----------------------------------------------------------------------------
(* The consumer.                                                            *)

(* The broker hands a pending copy to a worker; it does so again whenever   *)
(* the ack wait runs out, whoever else is still at work on it.  n counts    *)
(* deliveries and saturates above MaxDeliveries, past which only the        *)
(* terminal record is retried.                                              *)
Receive(w, c) ==
    /\ w \in deploy.workers
    /\ pc[w] = "idle"
    /\ copies[c].state = "pending"
    /\ LET n == IF copies[c].n > MaxDeliveries THEN copies[c].n
                ELSE copies[c].n + 1
       IN  /\ copies' = [copies EXCEPT ![c].n = n]
           /\ num' = [num EXCEPT ![w] = n]
           /\ Goto(w, IF n <= MaxDeliveries THEN "claiming" ELSE "dead")
    /\ cur' = [cur EXCEPT ![w] = c]
    /\ current' = [current EXCEPT ![w] = TRUE]
    /\ UNCHANGED <<deploy, outbox, relay, rows, todo, failed, snap, replays,
                   resets, history>>

(* reconcile: a consumer whose stored settings cannot be updated is deleted *)
(* and made again with DeliverAll, so the whole stream is delivered anew.   *)
Recreate ==
    /\ resets < MaxResets
    /\ resets' = resets + 1
    /\ copies' = [c \in Copies |->
                     IF copies[c].state = "none" THEN copies[c]
                     ELSE [state |-> "pending", n |-> 0]]
    /\ current' = [w \in Workers |-> FALSE]
    /\ UNCHANGED <<deploy, outbox, relay, rows, pc, cur, num, todo, failed,
                   snap, replays, history>>

(* What an Ack or a Term does at the broker.                                *)
Settled(w, state) ==
    IF current[w] /\ copies[cur[w]].state = "pending"
    THEN [copies EXCEPT ![cur[w]].state = state]
    ELSE copies

(* The callback's Ack of a delivery Handle answered nil for, which the      *)
(* connection may lose.                                                     *)
Ack(w, arrives) ==
    /\ pc[w] = "ack"
    /\ copies' = IF arrives THEN Settled(w, "acked") ELSE copies
    /\ Done(w)
    /\ UNCHANGED <<deploy, outbox, relay, rows, replays, resets, history>>

(* The callback's Term of a delivery Dead answered nil for.                 *)
Term(w, arrives) ==
    /\ pc[w] = "term"
    /\ copies' = IF arrives THEN Settled(w, "termed") ELSE copies
    /\ Done(w)
    /\ UNCHANGED <<deploy, outbox, relay, rows, replays, resets, history>>

(* Handle answered an error: left pending for the ladder below the cap,     *)
(* terminal from the cap on.                                                *)
Unfinished(w) ==
    /\ pc[w] = "unfinished"
    /\ \/ num[w] >= MaxDeliveries /\ Goto(w, "dead") /\ UNCHANGED local
       \/ num[w] < MaxDeliveries /\ Done(w)
    /\ UNCHANGED <<deploy, stream, rows, replays, resets, history>>

----------------------------------------------------------------------------
(* Handle: the claim and the handler's transaction.                         *)

(* Mutant: only the dead letters are consulted.                             *)
FreeOfLetter == ~letter

Free == ~handled.live /\ ~letter

(* insertClaim: writes the mark unless a claim or a letter is there, and    *)
(* waits for a transaction that has inserted it and not ended.              *)
InsertClaim(w) ==
    /\ pc[w] = "claiming"
    /\ open = None
    /\ open' = IF Free THEN w ELSE None
    /\ Goto(w, IF Free THEN "running" ELSE "conflict")
    /\ UNCHANGED <<deploy, stream, handled, letter, local, replays, resets,
                   history>>

(* Mutant: a claim that still owes counts as handled.                       *)
ReadConflictOwing(w) ==
    /\ pc[w] = "conflict"
    /\ Goto(w, IF handled.live \/ letter THEN "ack" ELSE "retaking")
    /\ UNCHANGED <<deploy, stream, rows, local, replays, resets, history>>

(* owedOrHandled: what the claim it conflicted with proves.                 *)
ReadConflict(w) ==
    /\ pc[w] = "conflict"
    /\ Goto(w, IF handled.live
               THEN IF handled.owed > 0 THEN "unfinished" ELSE "ack"
               ELSE IF letter THEN "ack" ELSE "retaking")
    /\ UNCHANGED <<deploy, stream, rows, local, replays, resets, history>>

(* claimAfterTheRowWentAway: one more INSERT, and a second conflict is      *)
(* refused.                                                                 *)
Retake(w) ==
    /\ pc[w] = "retaking"
    /\ open = None
    /\ open' = IF Free THEN w ELSE None
    /\ Goto(w, IF Free THEN "running" ELSE "unfinished")
    /\ UNCHANGED <<deploy, stream, handled, letter, local, replays, resets,
                   history>>

(* The handler, its claim or the wait for it failed or timed out: the       *)
(* transaction rolls back and the claim with it.                            *)
RollBack(w) ==
    /\ pc[w] \in InHandler
    /\ open' = IF open = w THEN None ELSE open
    /\ Goto(w, "unfinished")
    /\ UNCHANGED <<deploy, stream, handled, letter, local, replays, resets,
                   history>>

(* COMMIT of the handler's rows, its claim and the effects it now owes.     *)
(* Unheard, the deferred effects are dropped and Handle answers an error.   *)
CommitHandler(w, effects, heard) ==
    /\ pc[w] = "running"
    /\ handled' = Row(effects, w)
    /\ open' = None
    /\ runs' = runs + 1
    /\ complete' = (complete \/ effects = 0)
    /\ todo' = [todo EXCEPT ![w] = effects]
    /\ failed' = [failed EXCEPT ![w] = FALSE]
    /\ Goto(w, IF ~heard THEN "unfinished"
               ELSE IF effects = 0 THEN "ack" ELSE "effects")
    /\ UNCHANGED <<deploy, stream, letter, cur, num, current, snap, replays,
                   resets, late>>

----------------------------------------------------------------------------
(* The effects deferred past the commit, in registration order.             *)

(* The row is still the one this worker's transaction wrote.                *)
Own(w) == handled.live /\ handled.by = w

(* Mutant: a failed effect is marked all the same.                          *)
RunEffectMarked(w, ok) ==
    /\ pc[w] = "effects"
    /\ todo[w] > 0
    /\ todo' = [todo EXCEPT ![w] = @ - 1]
    /\ failed' = [failed EXCEPT ![w] = @ \/ ~ok]
    /\ handled' = IF ok /\ Own(w) THEN [handled EXCEPT !.due = @ - 1]
                  ELSE handled
    /\ complete' = (complete \/ (ok /\ Own(w) /\ handled.due = 1))
    /\ Goto(w, "marking")
    /\ UNCHANGED <<deploy, stream, open, letter, cur, num, current, snap,
                   replays, resets, runs, late>>

(* An effect is carried out, or is not and leaves the count standing.       *)
RunEffect(w, ok) ==
    /\ pc[w] = "effects"
    /\ todo[w] > 0
    /\ todo' = [todo EXCEPT ![w] = @ - 1]
    /\ failed' = [failed EXCEPT ![w] = @ \/ ~ok]
    /\ handled' = IF ok /\ Own(w) THEN [handled EXCEPT !.due = @ - 1]
                  ELSE handled
    /\ complete' = (complete \/ (ok /\ Own(w) /\ handled.due = 1))
    /\ Goto(w, IF ok THEN "marking" ELSE "effects")
    /\ UNCHANGED <<deploy, stream, open, letter, cur, num, current, snap,
                   replays, resets, runs, late>>

(* markEffectRun: one off the count of whatever row is there, in a          *)
(* transaction of its own, which may fail.                                  *)
MarkEffectRun(w, ok) ==
    /\ pc[w] = "marking"
    /\ handled' = IF ok /\ handled.live THEN [handled EXCEPT !.owed = @ - 1]
                  ELSE handled
    /\ failed' = [failed EXCEPT ![w] = @ \/ ~ok]
    /\ Goto(w, "effects")
    /\ UNCHANGED <<deploy, stream, open, letter, cur, num, current, todo, snap,
                   replays, resets, history>>

(* Handle answers nil only when every effect came back.                     *)
EffectsOver(w) ==
    /\ pc[w] = "effects"
    /\ todo[w] = 0
    /\ Goto(w, IF failed[w] THEN "releasing" ELSE "ack")
    /\ UNCHANGED <<deploy, stream, rows, local, replays, resets, history>>

(* releaseClaim deletes the row by its key; when it cannot, the claim       *)
(* stands.  Handle answers the effect's error either way.                   *)
ReleaseClaim(w, ok) ==
    /\ pc[w] = "releasing"
    /\ handled' = IF ok THEN NoRow ELSE handled
    /\ runs' = IF ok /\ Own(w) THEN 0 ELSE runs
    /\ Goto(w, "unfinished")
    /\ UNCHANGED <<deploy, stream, open, letter, local, replays, resets,
                   complete, late>>

----------------------------------------------------------------------------
(* Dead: deadLetter, one statement over one snapshot.                       *)

(* The statement starts: `owed` reads the claims committed by now.          *)
DeadSnapshot(w) ==
    /\ pc[w] = "dead"
    /\ snap' = [snap EXCEPT ![w] = handled.live /\ handled.owed > 0]
    /\ Goto(w, "burying")
    /\ UNCHANGED <<deploy, stream, rows, cur, num, current, todo, failed,
                   replays, resets, history>>

(* A claim that owes was committed since the statement's snapshot.          *)
Missed(w) == handled.live /\ handled.owed > 0 /\ ~snap[w]

(* Mutant: only a claim found owing gets a letter.                         *)
DeadLetterOwedOnly(w) ==
    /\ pc[w] = "burying"
    /\ open = None
    /\ handled' = IF handled.live THEN handled ELSE Row(0, None)
    /\ letter' = (letter \/ snap[w])
    /\ late' = (late \/ Missed(w))
    /\ Goto(w, "term")
    /\ UNCHANGED <<deploy, stream, open, local, replays, resets, complete, runs>>

(* Mutant: the letter is written whatever the claim says.                  *)
DeadLetterAlways(w) ==
    /\ pc[w] = "burying"
    /\ open = None
    /\ handled' = IF handled.live THEN handled ELSE Row(0, None)
    /\ letter' = TRUE
    /\ late' = (late \/ Missed(w))
    /\ Goto(w, "term")
    /\ UNCHANGED <<deploy, stream, open, local, replays, resets, complete, runs>>

(* Mutant: the letter does not wait for an uncommitted claim.              *)
DeadLetterUnwaited(w) ==
    /\ pc[w] = "burying"
    /\ handled' = IF handled.live THEN handled ELSE Row(0, None)
    /\ letter' = (letter \/ ~handled.live \/ snap[w])
    /\ late' = (late \/ Missed(w))
    /\ Goto(w, "term")
    /\ UNCHANGED <<deploy, stream, open, local, replays, resets, complete, runs>>

(* ... its INSERT waits for an uncommitted claim, and the letter is written *)
(* when it inserted the claim or the snapshot showed an owing one.          *)
DeadLetter(w) ==
    /\ pc[w] = "burying"
    /\ open = None
    /\ handled' = IF handled.live THEN handled ELSE Row(0, None)
    /\ letter' = (letter \/ ~handled.live \/ snap[w])
    /\ late' = (late \/ Missed(w))
    /\ Goto(w, "term")
    /\ UNCHANGED <<deploy, stream, open, local, replays, resets, complete, runs>>

(* The record could not be written: the delivery stays pending.             *)
DeadFails(w) ==
    /\ pc[w] = "burying"
    /\ Done(w)
    /\ UNCHANGED <<deploy, stream, rows, replays, resets, history>>

----------------------------------------------------------------------------
(* Around the deliveries.                                                   *)

(* The process dies: its open transaction rolls back, its deferred effects  *)
(* are forgotten, and its copy is delivered again.                          *)
Crash(w) ==
    /\ pc[w] # "idle"
    /\ open' = IF open = w THEN None ELSE open
    /\ Done(w)
    /\ UNCHANGED <<deploy, stream, handled, letter, replays, resets, history>>

(* Replay: under the outbox row's lock, which a relay transaction excludes, *)
(* the committed claim and the letter go and the row is pending again.      *)
Replay ==
    /\ replays < MaxReplays
    /\ relay = "idle"
    /\ \E c \in Copies : copies[c].state = "none"
    /\ replays' = replays + 1
    /\ handled' = NoRow
    /\ letter' = FALSE
    /\ outbox' = "pending"
    /\ complete' = FALSE
    /\ runs' = 0
    /\ late' = FALSE
    /\ UNCHANGED <<deploy, relay, copies, open, pc, local, resets>>

Step(w) ==
    \/ \E c \in Copies : Receive(w, c)
    \/ \E arrives \in BOOLEAN : Ack(w, arrives) \/ Term(w, arrives)
    \/ Unfinished(w)
    \/ InsertClaim(w)
    \/ ReadConflict(w)
    \/ Retake(w)
    \/ RollBack(w)
    \/ \E effects \in 0..deploy.defers, heard \in BOOLEAN :
          CommitHandler(w, effects, heard)
    \/ \E ok \in BOOLEAN :
          RunEffect(w, ok) \/ MarkEffectRun(w, ok) \/ ReleaseClaim(w, ok)
    \/ EffectsOver(w)
    \/ DeadSnapshot(w)
    \/ DeadLetter(w)
    \/ DeadFails(w)
    \/ Crash(w)

Next ==
    \/ Publish
    \/ Stamp
    \/ RelayFails
    \/ Recreate
    \/ Replay
    \/ \E w \in Workers : Step(w)

Spec == Init /\ [][Next]_vars

(* The relay ticks every second; a worker whose step is possible takes one  *)
(* in the end, if only to time out, to fail or to die, and an idle one is   *)
(* handed what is pending.  Nothing says that a handler, an effect, an ack  *)
(* or a process ever succeeds.  The record of a terminal failure alone is   *)
(* tried until it is written: the one thing the transport retries for ever. *)
WorkerFairness(w) ==
    /\ WF_vars(Step(w))
    /\ SF_vars(DeadSnapshot(w))
    /\ SF_vars(DeadLetter(w))

Fairness ==
    /\ WF_vars(Publish)
    /\ WF_vars(Stamp)
    /\ \A w \in Workers : WorkerFairness(w)

FairSpec == Spec /\ Fairness

----------------------------------------------------------------------------
(* Properties.                                                              *)

(* The shape of the rows, of the stream and of every worker's own state.    *)
TypeOK ==
    /\ deploy \in Deployments
    /\ outbox \in {"pending", "published"}
    /\ relay \in {"idle", "sent"}
    /\ copies \in [Copies -> [state : {"none", "pending", "acked", "termed"},
                              n : 0..(MaxDeliveries + 1)]]
    /\ handled \in [live : BOOLEAN, owed : Int, by : Workers \cup {None},
                     due : Int]
    /\ open \in Workers \cup {None}
    /\ letter \in BOOLEAN
    /\ pc \in [Workers -> Phases]
    /\ cur \in [Workers -> 0..MaxCopies]
    /\ num \in [Workers -> 0..(MaxDeliveries + 1)]
    /\ current \in [Workers -> BOOLEAN]
    /\ todo \in [Workers -> 0..MaxEffects]
    /\ failed \in [Workers -> BOOLEAN]
    /\ snap \in [Workers -> BOOLEAN]
    /\ replays \in Nat
    /\ resets \in Nat
    /\ complete \in BOOLEAN
    /\ runs \in Nat
    /\ late \in BOOLEAN

(* Nothing more will be delivered: the row is stamped, no copy is pending   *)
(* at the broker and no worker is at work.                                  *)
Quiet ==
    /\ outbox = "published"
    /\ \A c \in Copies : copies[c].state # "pending"
    /\ \A w \in Workers : pc[w] = "idle"

(* "Exhausted work remains findable, and a claim that still owes a deferred *)
(* effect is terminalised beside its letter rather than left unrecorded"    *)
(* (events.go, deadLetter): once the transport is through with the event,   *)
(* it was handled with everything it deferred, or it is in the dead         *)
(* letters.  Crashes, lost acks, duplicates and replays included.           *)
NoLoss == Quiet => complete \/ letter

(* With replicas that overlap and handlers that defer NoLoss does not hold;  *)
(* but the one way an event goes, as long as no operator replays it, is a   *)
(* terminal record whose statement began before a claim that owes had been  *)
(* committed.                                                               *)
LostOnlyLate == Quiet => complete \/ letter \/ late

(* The claim makes a redelivery safe (docs/adr/0004): between two clearings *)
(* of the claim, by its own release or by a replay, at most one handler     *)
(* transaction commits, whatever copies overlap it.                         *)
HandledOnce == runs <= 1

(* deadLetter uses "the same unique claim as handling": an event whose      *)
(* handler defers nothing is never both handled and in the dead letters.    *)
LetterMeansUnhandled == deploy.defers = 0 => ~(letter /\ complete)

(* "It reaches zero only once every effect this delivery deferred has come  *)
(* back" (deferred.go, Defer): a claim a redelivery would acknowledge has   *)
(* no effect outstanding.                                                   *)
CountHonest == (handled.live /\ handled.owed <= 0) => handled.due = 0

(* What a subscription is promised, without workers, copies and claims.     *)
Fate == INSTANCE EventFate WITH
            fate <- IF complete THEN "done" ELSE IF letter THEN "dead" ELSE "due",
            orders <- replays,
            MaxOrders <- MaxReplays

(* The delivery of an event implements EventFate, among replicas whose      *)
(* handler defers nothing and on one replica whose handler does: handled    *)
(* once or buried, each only when due, for good until an operator orders    *)
(* another run, and one of the two in the end.                              *)
ImplementsFate == Fate!FateSpec

=============================================================================
