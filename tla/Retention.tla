----------------------------- MODULE Retention -----------------------------
(***************************************************************************)
(* How long the three records of one event live (kit/events): its outbox   *)
(* row, its copies on the stream and the marks in platformkit_handled that *)
(* make a second delivery of a copy harmless.                              *)
(*                                                                         *)
(* The stream forgets a copy by the age of the copy (MaxAge), Purge        *)
(* forgets a published row by the age of its stamp and a mark by its own   *)
(* age; the three clocks start at different moments.  Any copy that is     *)
(* still on the stream may be delivered again, to any durable, at any time *)
(* (a lost acknowledgement, a consumer recreated with DeliverAll).         *)
(*                                                                         *)
(* Ages stop counting one tick past Keep, where nothing asks further.  A   *)
(* delivery is one transaction within a tick: handlerTimeout is seconds,   *)
(* Keep a week.  What happens between the statements of a delivery, and    *)
(* effects past the commit, are module Delivery's.                         *)
(***************************************************************************)
EXTENDS Naturals

CONSTANTS
    Durables,      \* subscriptions of the event
    Hooked,        \* those with a Terminal hook
    Keep,          \* delivery.Keep, in ticks
    MaxReplays     \* bound: operator replays

ASSUME RetentionAssumption == Hooked \subseteq Durables /\ Keep \in Nat /\ MaxReplays \in Nat

VARIABLES
    row,       \* the outbox row and the age of its stamp
    relay,     \* the relay's transaction: what it has done, and its age
    copies,    \* the ages of the copies on the stream
    mark,      \* the handled mark of each durable
    letter,    \* the durables with a dead letter
    replays,   \* bound: operator replays so far
    ran,       \* history: how often a durable's handler or hook committed
    granted    \* history: how often it was entitled to

vars == <<row, relay, copies, mark, letter, replays, ran, granted>>

Ages == 0..(Keep + 1)
Older(age) == IF age = Keep + 1 THEN age ELSE age + 1
Past(age) == age > Keep

NoMark == [set |-> FALSE, age |-> 0]
Fresh == [set |-> TRUE, age |-> 0]
NoRelay == [at |-> "idle", age |-> 0]

TypeOK ==
    /\ row \in [state : {"pending", "published", "gone"}, age : Ages]
    /\ relay \in [at : {"idle", "reading", "sent"}, age : Ages]
    /\ copies \subseteq 0..Keep
    /\ mark \in [Durables -> [set : BOOLEAN, age : Ages]]
    /\ letter \subseteq Durables
    /\ replays \in 0..MaxReplays
    /\ ran \in [Durables -> 0..(MaxReplays + 1)]
    /\ granted \in [Durables -> 1..(MaxReplays + 1)]

Init ==
    /\ row = [state |-> "pending", age |-> 0]
    /\ relay = NoRelay
    /\ copies = {}
    /\ mark = [d \in Durables |-> NoMark]
    /\ letter = {}
    /\ replays = 0
    /\ ran = [d \in Durables |-> 0]
    /\ granted = [d \in Durables |-> 1]

-----------------------------------------------------------------------------
(* The relay: one transaction reads the row FOR UPDATE, publishes it and   *)
(* stamps it with the moment of the stamp.                                 *)

RelayReads ==
    /\ row.state = "pending" /\ relay.at = "idle"
    /\ relay' = [at |-> "reading", age |-> 0]
    /\ UNCHANGED <<row, copies, mark, letter, replays, ran, granted>>

Publish ==
    /\ relay.at = "reading"
    /\ copies' = copies \cup {0}
    /\ relay' = [relay EXCEPT !.at = "sent"]
    /\ UNCHANGED <<row, mark, letter, replays, ran, granted>>

(* Mutant: the stamp is now(), the moment the transaction began.           *)
StampAtStart ==
    /\ relay.at = "sent"
    /\ row' = [state |-> "published", age |-> relay.age]
    /\ relay' = NoRelay
    /\ UNCHANGED <<copies, mark, letter, replays, ran, granted>>

Stamp ==
    /\ relay.at = "sent"
    /\ row' = [state |-> "published", age |-> 0]
    /\ relay' = NoRelay
    /\ UNCHANGED <<copies, mark, letter, replays, ran, granted>>

(* A refused publish or stamp, or a crash: a copy that went out stays out. *)
RelayFails ==
    /\ relay.at # "idle"
    /\ relay' = NoRelay
    /\ UNCHANGED <<row, copies, mark, letter, replays, ran, granted>>

-----------------------------------------------------------------------------
(* Deliveries.  A durable with a mark, or a letter, skips the copy.        *)

Claims(d) == copies # {} /\ ~mark[d].set /\ d \notin letter

Handle(d) ==
    /\ Claims(d)
    /\ mark' = [mark EXCEPT ![d] = Fresh]
    /\ ran' = [ran EXCEPT ![d] = @ + 1]
    /\ UNCHANGED <<row, relay, copies, letter, replays, granted>>

(* The attempts are exhausted: the claim and the letter, in one statement. *)
DeadLetter(d) ==
    /\ d \notin Hooked /\ Claims(d)
    /\ mark' = [mark EXCEPT ![d] = Fresh]
    /\ letter' = letter \cup {d}
    /\ UNCHANGED <<row, relay, copies, replays, ran, granted>>

(* The same for a durable with a Terminal hook: claim, hook and letter     *)
(* commit together or not at all.                                          *)
TerminalLetter(d) ==
    /\ d \in Hooked /\ Claims(d)
    /\ mark' = [mark EXCEPT ![d] = Fresh]
    /\ letter' = letter \cup {d}
    /\ ran' = [ran EXCEPT ![d] = @ + 1]
    /\ UNCHANGED <<row, relay, copies, replays, granted>>

-----------------------------------------------------------------------------
(* Purge, one transaction: the published row past Keep unless a letter     *)
(* needs it; then the marks past Keep whose row is gone and whose durable  *)
(* has no letter.                                                          *)

RowPurged == row.state = "published" /\ Past(row.age) /\ letter = {}

(* Mutant: a mark goes by its own age alone.                               *)
MarkPurgedByAge(d) == mark[d].set /\ Past(mark[d].age) /\ d \notin letter

(* Mutant: marks go only with their row, in the same pass.                 *)
MarkPurgedWithRow(d) == mark[d].set /\ Past(mark[d].age) /\ RowPurged /\ d \notin letter

MarkPurged(d) ==
    /\ mark[d].set /\ Past(mark[d].age)
    /\ RowPurged \/ row.state = "gone"
    /\ d \notin letter

Purge ==
    /\ RowPurged \/ \E d \in Durables : MarkPurged(d)
    /\ row' = IF RowPurged THEN [state |-> "gone", age |-> 0] ELSE row
    /\ mark' = [d \in Durables |-> IF MarkPurged(d) THEN NoMark ELSE mark[d]]
    /\ UNCHANGED <<relay, copies, letter, replays, ran, granted>>

(* Replay: the operator clears one durable's mark and letter, or all of    *)
(* them, and the row is pending again.  It waits for a relay that holds    *)
(* the row, and refuses when there is none.                                *)
Replay ==
    /\ row.state # "gone" /\ relay.at = "idle" /\ replays < MaxReplays
    /\ \E cleared \in {{d} : d \in Durables} \cup {Durables} :
         /\ mark' = [d \in Durables |-> IF d \in cleared THEN NoMark ELSE mark[d]]
         /\ letter' = letter \ cleared
         /\ granted' = [d \in Durables |-> IF d \in cleared THEN granted[d] + 1 ELSE granted[d]]
    /\ row' = [state |-> "pending", age |-> 0]
    /\ replays' = replays + 1
    /\ UNCHANGED <<relay, copies, ran>>

(* Time passes; the stream drops what is past its MaxAge.                  *)
Tick ==
    /\ row' = [row EXCEPT !.age = IF row.state = "published" THEN Older(@) ELSE @]
    /\ relay' = [relay EXCEPT !.age = IF relay.at = "idle" THEN @ ELSE Older(@)]
    /\ copies' = {age \in Ages : ~Past(age) /\ \E old \in copies : age = Older(old)}
    /\ mark' = [d \in Durables |-> IF mark[d].set THEN [mark[d] EXCEPT !.age = Older(@)] ELSE mark[d]]
    /\ UNCHANGED <<letter, replays, ran, granted>>

-----------------------------------------------------------------------------
Next ==
    \/ RelayReads \/ Publish \/ Stamp \/ RelayFails
    \/ \E d \in Durables : Handle(d) \/ DeadLetter(d) \/ TerminalLetter(d)
    \/ Purge \/ Replay \/ Tick

Spec == Init /\ [][Next]_vars

(* Relay and purge are jobs that run again and again, and the broker and   *)
(* the database answer again and again: the relay's transaction gets       *)
(* through now and then.  Time goes on.                                    *)
Fairness ==
    /\ WF_vars(RelayReads) /\ SF_vars(Publish) /\ SF_vars(Stamp)
    /\ WF_vars(Purge) /\ WF_vars(Tick)
FairSpec == Spec /\ Fairness

-----------------------------------------------------------------------------
(* Properties.                                                             *)

(* However late a copy comes back, a durable's handler or Terminal hook    *)
(* commits once, and once more for each replay that names it: a mark       *)
(* outlives every copy it answers for (the purge's exemption of marks      *)
(* whose outbox row is still there, and published_at taken after the       *)
(* publish).                                                               *)
RanOnce == \A d \in Durables : ran[d] <= granted[d]

(* A dead letter can be replayed: the row with the payload is there as     *)
(* long as the letter is (Purge's exemption, ErrNothingToReplay).          *)
LetterKeepsRow == letter # {} => row.state # "gone"

(* The records of an event do not stay: unless a letter holds them, the    *)
(* row and every mark are gone in the end.                                 *)
Drains == <>[](letter = {}) => <>[](row.state = "gone" /\ \A d \in Durables : ~mark[d].set)

=============================================================================
