------------------------------ MODULE Webhook ------------------------------
(***************************************************************************)
(* Outgoing webhooks of one endpoint: modules/webhook.                     *)
(*                                                                         *)
(* Fanout queues one row per event.  The delivery job, which one replica   *)
(* at a time runs under a session lock (jobs.Scheduler.run, db.TryLockErr),*)
(* claims the due rows in one transaction, asks the endpoint again before  *)
(* each request, sends without a transaction, and writes the outcome in a  *)
(* transaction of its own: the row's end, the retry row of the ladder, the *)
(* endpoint's fault clock and its disablement.  A row left in flight by a  *)
(* sender that died is claimed again when its lease is over.               *)
(*                                                                         *)
(* Every duration is kept as an age or a countdown that stops at the       *)
(* threshold the code compares it with, so time itself has no bound.       *)
(* Address, signing secret, payload and wording are left out.              *)
(***************************************************************************)
EXTENDS Naturals, Sequences, FiniteSets, FiniteSetsExt

CONSTANTS
    Events,       \* events that fan out to the endpoint
    Senders,      \* replicas that run the delivery job
    Nobody,       \* no sender holds the job's lock
    MaxAttempts,  \* contracts.MaxAttempts
    Window,       \* contracts.FaultWindow
    Ladder,       \* retry.go: the delay before each next attempt
    Lease,        \* how long a claimed row belongs to its claimer
    Batch,        \* rows per claim
    MaxReplays,   \* bound: Replay commands
    MaxFaults     \* bound: crashes, lost locks and outcomes not written

ASSUME TimesAssumption ==
    /\ MaxAttempts \in Nat \ {0} /\ Window \in Nat \ {0} /\ Lease \in Nat /\ Batch \in Nat \ {0}
    /\ Ladder \in Seq(Nat) /\ Len(Ladder) > 0
ASSUME NobodyAssumption == Nobody \notin Senders
ASSUME BoundsAssumption == MaxReplays \in Nat /\ MaxFaults \in Nat

VARIABLES
    ep,        \* the endpoint's row
    rows,      \* webhook_deliveries, in order of seq
    fan,       \* the fan-out handler of each event
    lock,      \* who holds the job's session lock
    sender,    \* the run of the job in each replica
    good,      \* history: age of the last success or enablement
    overlap,   \* history: a sender went on after its lock was lost
    faults, replays

vars == <<ep, rows, fan, lock, sender, good, overlap, faults, replays>>

Never == Window + 1             \* failing_since is NULL
Waiting == {"queued", "in_flight"}
Ended == {"sent", "failed", "dropped"}
Answers == {"sent", "failed", "dropped", "refused"}   \* refused: our own address policy

Least(m, n) == IF m < n THEN m ELSE n
MaxNumber == MaxAttempts + MaxReplays

Row == [ev : Events, root : Nat, attempt : 1..MaxNumber,
        cause : {"initial", "retry", "replay"}, state : Waiting \cup Ended,
        wait : 0..(Window - 1), age : 0..(Lease + 1)]

Idle == [pc |-> "idle", batch |-> {}, since |-> 0, row |-> 0, answer |-> "sent"]

TypeOK ==
    /\ ep \in [status : {"enabled", "disabled", "deleted"},
               reason : {"none", "admin", "fault"}, failing : 0..Never]
    /\ rows \in Seq(Row)
    /\ \A i \in DOMAIN rows : rows[i].root \in 1..i
    /\ fan \in [Events -> {"new", "read", "done"}]
    /\ lock \in Senders \cup {Nobody}
    /\ \A s \in Senders :
         /\ sender[s].pc \in {"idle", "running", "answered"}
         /\ sender[s].batch \subseteq DOMAIN rows
         /\ sender[s].since \in 0..Window
         /\ sender[s].answer \in Answers
         /\ sender[s].pc = "answered" => sender[s].row \in DOMAIN rows
    /\ good \in 0..Window /\ overlap \in BOOLEAN
    /\ faults \in 0..MaxFaults /\ replays \in 0..MaxReplays

Init ==
    /\ ep = [status |-> "enabled", reason |-> "none", failing |-> Never]
    /\ rows = <<>>
    /\ fan = [e \in Events |-> "new"]
    /\ lock = Nobody
    /\ sender = [s \in Senders |-> Idle]
    /\ good = 0 /\ overlap = FALSE /\ faults = 0 /\ replays = 0

Enabled == ep.status = "enabled"

(* Mutant: the outcome is written whatever state the row is in by now. *)
EndAlways(rs, i, state) == [rs EXCEPT ![i].state = state, ![i].wait = 0, ![i].age = 0]
(* dropRowColumns: only a row still in flight takes an outcome. *)
End(rs, i, state) ==
    IF rs[i].state = "in_flight"
      THEN [rs EXCEPT ![i].state = state, ![i].wait = 0, ![i].age = 0] ELSE rs

(* dropQueued: what a disablement and a delete do to the rows not claimed. *)
DropQueued(rs) ==
    [i \in DOMAIN rs |-> IF rs[i].state = "queued"
                           THEN [rs[i] EXCEPT !.state = "dropped", !.wait = 0] ELSE rs[i]]

NewRow(e, root, n, cause, wait) ==
    [ev |-> e, root |-> root, attempt |-> n, cause |-> cause, state |-> "queued",
     wait |-> wait, age |-> 0]

-----------------------------------------------------------------------------
(* Fanout reads the enabled endpoints without a lock and then inserts; a   *)
(* disablement may commit in between.                                      *)
FanoutReads(e) ==
    /\ fan[e] = "new"
    /\ fan' = [fan EXCEPT ![e] = IF Enabled THEN "read" ELSE "done"]
    /\ UNCHANGED <<ep, rows, lock, sender, good, overlap, faults, replays>>

FanoutCommits(e) ==
    /\ fan[e] = "read"
    /\ fan' = [fan EXCEPT ![e] = "done"]
    /\ rows' = Append(rows, NewRow(e, Len(rows) + 1, 1, "initial", 0))
    /\ UNCHANGED <<ep, lock, sender, good, overlap, faults, replays>>

-----------------------------------------------------------------------------
(* The job.  A run takes the lock, claims once, and sends what it claimed. *)

Due(i) ==
    \/ rows[i].state = "queued" /\ rows[i].wait = 0
    \/ rows[i].state = "in_flight" /\ rows[i].age > Lease

(* The run goes on to the next row of its batch, or ends and unlocks; a    *)
(* session that is gone has nothing to unlock.                             *)
Unlocked(s) == IF lock = s THEN Nobody ELSE lock
GoOn(s, batch) ==
    IF batch = {}
      THEN sender' = [sender EXCEPT ![s] = Idle] /\ lock' = Unlocked(s)
      ELSE /\ sender' = [sender EXCEPT ![s].pc = "running", ![s].batch = batch,
                                       ![s].row = 0, ![s].answer = "sent"]
           /\ UNCHANGED lock

(* FOR UPDATE SKIP LOCKED of at most Batch of the due rows.  A claimed row *)
(* whose endpoint is gone or disabled is ended there.                      *)
ClaimRows(s, all) ==
    /\ sender[s].pc = "idle" /\ all # {}
    /\ \E due \in kSubset(Least(Batch, Cardinality(all)), all) :
         /\ rows' = [i \in DOMAIN rows |->
              IF i \notin due THEN rows[i]
              ELSE [rows[i] EXCEPT !.state = IF Enabled THEN "in_flight" ELSE "dropped",
                                   !.age = 0]]
         /\ \/ /\ Enabled
               /\ sender' = [sender EXCEPT ![s] = [Idle EXCEPT !.pc = "running", !.batch = due]]
               /\ lock' = s
            \/ ~Enabled /\ UNCHANGED <<sender, lock>>
    /\ UNCHANGED <<ep, fan, good, overlap, faults, replays>>

(* Mutant: the job runs without its lock. *)
ClaimUnlocked(s) == ClaimRows(s, {i \in DOMAIN rows : Due(i)})
(* Mutant: a row whose lease is over is not claimed again. *)
ClaimQueued(s) ==
    lock = Nobody /\ ClaimRows(s, {i \in DOMAIN rows : Due(i) /\ rows[i].state = "queued"})
(* One run of the job: TryLockErr, then the claim. *)
Claim(s) == lock = Nobody /\ ClaimRows(s, {i \in DOMAIN rows : Due(i)})

(* recheck, post and classify.  What is on the wire when the endpoint is   *)
(* disabled is answered as it was going.                                   *)
Send(s, i) ==
    /\ sender[s].pc = "running" /\ i \in sender[s].batch
    /\ \/ /\ ~Enabled
          /\ rows' = End(rows, i, "dropped")
          /\ GoOn(s, sender[s].batch \ {i})
       \/ /\ Enabled
          /\ \E a \in Answers :
               sender' = [sender EXCEPT ![s].batch = sender[s].batch \ {i},
                                        ![s].pc = "answered", ![s].row = i, ![s].answer = a]
          /\ UNCHANGED <<rows, lock>>
    /\ UNCHANGED <<ep, fan, good, overlap, faults, replays>>

delayBefore(n) == Ladder[Least(n, Len(Ladder))]

(* Mutant: the count is off by one. *)
NextAttemptLate(since, n) ==
    n <= MaxAttempts /\ since < Window /\ since + delayBefore(n) < Window

(* nextAttempt: both the count and the window stop the ladder.  The window *)
(* is counted from the claim of the attempt that failed.                   *)
NextAttempt(since, n) ==
    n < MaxAttempts /\ since < Window /\ since + delayBefore(n) < Window

(* record up to DisableIfFailed: the row's end, then the retry row.  The   *)
(* retry is queued whether or not this row took the outcome.               *)
Recorded(s) ==
    LET i == sender[s].row
        a == sender[s].answer
        done == End(rows, i, IF a = "refused" THEN "dropped" ELSE a)
        n == rows[i].attempt IN
    IF a = "failed" /\ Enabled /\ NextAttempt(sender[s].since, n)
      THEN Append(done, NewRow(rows[i].ev, rows[i].root, n + 1, "retry", delayBefore(n)))
      ELSE done

(* The first failure after a success starts it: COALESCE. *)
FailingSince(a) ==
    CASE a = "sent" -> Never
      [] a = "refused" -> ep.failing
      [] OTHER -> IF ep.failing = Never THEN 0 ELSE ep.failing

(* DisableIfFailed *)
Faulty(a) == Enabled /\ a \in {"failed", "dropped"} /\ FailingSince(a) = Window

(* record, after outcomeLock and the endpoint's row lock. *)
Record(s) ==
    LET a == sender[s].answer IN
    /\ sender[s].pc = "answered"
    /\ \/ /\ ep.status = "deleted"                          \* recordAfterDelete
          /\ rows' = End(rows, sender[s].row, IF a = "refused" THEN "dropped" ELSE a)
          /\ UNCHANGED <<ep, good>>
       \/ /\ ep.status # "deleted"
          /\ IF Faulty(a)
               THEN /\ rows' = DropQueued(Recorded(s))
                    /\ ep' = [status |-> "disabled", reason |-> "fault",
                              failing |-> FailingSince(a)]
               ELSE /\ rows' = Recorded(s)
                    /\ ep' = [ep EXCEPT !.failing = FailingSince(a)]
          /\ good' = IF a = "sent" THEN 0 ELSE good
    /\ GoOn(s, sender[s].batch)
    /\ UNCHANGED <<fan, overlap, faults, replays>>

(* The outcome's transaction fails: the row stays in flight for the lease. *)
RecordFails(s) ==
    /\ sender[s].pc = "answered" /\ faults < MaxFaults
    /\ faults' = faults + 1
    /\ GoOn(s, sender[s].batch)
    /\ UNCHANGED <<ep, rows, fan, good, overlap, replays>>

(* The replica dies, or its context ends, with claimed rows unsent or an   *)
(* answer unrecorded.                                                      *)
Crash(s) ==
    /\ sender[s].pc # "idle" /\ faults < MaxFaults
    /\ faults' = faults + 1
    /\ sender' = [sender EXCEPT ![s] = Idle]
    /\ lock' = Unlocked(s)
    /\ UNCHANGED <<ep, rows, fan, good, overlap, replays>>

(* The session that holds the lock dies; the run under it does not notice. *)
LoseLock(s) ==
    /\ lock = s /\ faults < MaxFaults
    /\ faults' = faults + 1
    /\ lock' = Nobody /\ overlap' = TRUE
    /\ UNCHANGED <<ep, rows, fan, sender, good, replays>>

-----------------------------------------------------------------------------
(* The administrator's commands, each under the endpoint's row lock. *)

Disable ==
    /\ Enabled
    /\ ep' = [ep EXCEPT !.status = "disabled", !.reason = "admin"]
    /\ rows' = DropQueued(rows)
    /\ UNCHANGED <<fan, lock, sender, good, overlap, faults, replays>>

(* Mutant: the fault clock of before the disablement is kept. *)
EnableKeepsClock ==
    /\ ep.status = "disabled"
    /\ ep' = [ep EXCEPT !.status = "enabled", !.reason = "none"]
    /\ good' = 0
    /\ UNCHANGED <<rows, fan, lock, sender, overlap, faults, replays>>

Enable ==
    /\ ep.status = "disabled"
    /\ ep' = [status |-> "enabled", reason |-> "none", failing |-> Never]
    /\ good' = 0
    /\ UNCHANGED <<rows, fan, lock, sender, overlap, faults, replays>>

(* The CRUD delete with the endpoint Spec's AfterDelete. *)
DeleteEndpoint ==
    /\ ep.status # "deleted"
    /\ ep' = [ep EXCEPT !.status = "deleted"]
    /\ rows' = DropQueued(rows)
    /\ UNCHANGED <<fan, lock, sender, good, overlap, faults, replays>>

WaitingReplay(e) ==
    \E i \in DOMAIN rows : /\ rows[i].ev = e /\ rows[i].cause = "replay"
                           /\ rows[i].state \in Waiting

Replay(e) ==
    LET numbers == {rows[i].attempt : i \in {j \in DOMAIN rows : rows[j].ev = e}} IN
    /\ replays < MaxReplays
    /\ Enabled /\ ~WaitingReplay(e)
    /\ \E last \in numbers :
         /\ \A n \in numbers : n <= last
         /\ rows' = Append(rows, NewRow(e, Len(rows) + 1, last + 1, "replay", 0))
    /\ replays' = replays + 1
    /\ UNCHANGED <<ep, fan, lock, sender, good, overlap, faults>>

-----------------------------------------------------------------------------
Older(row) ==
    CASE row.state = "queued" /\ row.wait > 0 -> [row EXCEPT !.wait = @ - 1]
      [] row.state = "in_flight" -> [row EXCEPT !.age = Least(@ + 1, Lease + 1)]
      [] OTHER -> row

Tick ==
    /\ rows' = [i \in DOMAIN rows |-> Older(rows[i])]
    /\ ep' = [ep EXCEPT !.failing = IF @ = Never THEN @ ELSE Least(@ + 1, Window)]
    /\ sender' = [s \in Senders |->
         IF sender[s].pc = "idle" THEN sender[s]
         ELSE [sender[s] EXCEPT !.since = Least(@ + 1, Window)]]
    /\ good' = Least(good + 1, Window)
    /\ UNCHANGED <<fan, lock, overlap, faults, replays>>

Sends(s) == (\E i \in sender[s].batch : Send(s, i)) \/ Record(s)

Next ==
    \/ \E e \in Events : FanoutReads(e) \/ FanoutCommits(e) \/ Replay(e)
    \/ \E s \in Senders : Claim(s) \/ Sends(s)
    \/ \E s \in Senders : RecordFails(s) \/ Crash(s) \/ LoseLock(s)
    \/ Disable \/ Enable \/ DeleteEndpoint
    \/ Tick

Spec == Init /\ [][Next]_vars

(* Time passes, some replica's scheduler comes round, and a run that has   *)
(* begun goes on: the HTTP client and each transaction are bounded.        *)
FairSpec ==
    /\ Spec
    /\ WF_vars(Tick)
    /\ WF_vars(\E s \in Senders : Claim(s))
    /\ \A s \in Senders : WF_vars(Sends(s))

-----------------------------------------------------------------------------
(* As long as no run lost its lock, one event's ladder - the initial row   *)
(* or a replay, and the retries it led to - never has two attempts waiting *)
(* and has none once one of them was sent: crashes, leases and re-sends    *)
(* included, record queues a single successor per attempt.                 *)
OneLadder ==
    ~overlap => \A r \in DOMAIN rows :
        LET ladder == {i \in DOMAIN rows : rows[i].root = r}
            waiting == {i \in ladder : rows[i].state \in Waiting} IN
        /\ Cardinality(waiting) <= 1
        /\ (\E i \in ladder : rows[i].state = "sent") => waiting = {}

(* Two senders that overlap, a lease that re-sends, a disablement or a     *)
(* delete never rewrite an attempt the log already ended.                  *)
EndedStays ==
    [][\A i \in DOMAIN rows : rows[i].state \in Ended => rows'[i] = rows[i]]_vars

(* The fault rule disables an endpoint only after a whole window without a *)
(* success and without an enablement.                                      *)
FaultTakesAWindow ==
    [][ep'.reason = "fault" /\ ep.reason # "fault" => good = Window]_vars

(* Every attempt the log promises is ended - sent, failed or dropped: once *)
(* events and replays stop coming, nothing is left waiting.                *)
EveryAttemptEnds == <>[](\A i \in DOMAIN rows : rows[i].state \in Ended)
=============================================================================
