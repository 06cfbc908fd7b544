# A verification project for platformkit

platformkit is a Go kernel for multi-tenant business applications: typed tenant
transactions over Postgres (`kit/db`), an HTTP layer with idempotent writes
(`kit/httpx`, `kit/idempotency`), a transactional outbox with at-least-once
consumers over NATS JetStream (`kit/events`), jobs, cache, limits and live
streams, a set of modules built on them (`modules/`), and a composition resolver
(`pkit`). Several replicas of an application share one database and one broker,
and several applications ("apps") may share one installation.

The modules here model the parts whose correctness depends on the order in which
several actors move: a keyed write and its retries, the delivery of an event, the
renaming of the delivery ledger while deliveries go on, the ages at which an
event's records are forgotten, the shared cache, outgoing webhooks, reviewed
changes, and stored files. TLC checks them on small instances; TLAPS proves every
safety property that holds of these modules for every instance.

## Inventory

| Part | State it keeps | Operations | Who it meets | What makes it correct |
|---|---|---|---|---|
| `kit/idempotency` store | retry record, effect fence, operation receipt; an advisory lock per key | Claim, Begin, Mark, Complete, Reserve, Transition, PurgeAt | other attempts on any replica, the purge, asynchronous owners | one write per admission of a key; answers replayed and receipts written tell the truth; a write that did not happen can be retried |
| `kit/httpx` keyed requests | the claim note, the request transaction | admission, prepareCommit, Close, failedOperation, complete | the store, client hang-ups, death of the process | the mark commits with the write; an unheard COMMIT lands no answer |
| `kit/events` outbox and relay | outbox row (`published_at`) | Publish, RelayFor, Purge | the broker, replays | published before stamped: duplicates, never losses |
| `kit/events` delivery | claim (`platformkit_handled`, `effects_owed`), dead letter | claim, handler, Defer, markEffectRun, releaseClaim, deadLetter | other deliveries of the same event, replays, ledger moves | handled once per claim, an acknowledgement only when nothing is owed, handled or findable in the end |
| JetStream provider | stream copies, durable consumer, delivery counts | Subscribe, Ack, Term, reconcile | replicas, deploys | the handler cap; the terminal record retried for ever |
| `kit/events` replay | none of its own | clear claim and letter, make the row pending | relay, deliveries in flight | one more run, no lost one |
| `kit/events` ledger, `kit/app` placement and boot | `tenants.app`, tenant and durable advisory keys | place, MoveLedger, open the consumers | bare deliveries, terminal records, other boots | no event handled under both names, no mark lost, the boot opens in the end |
| `kit/db` transactions | after-commit and after-rollback queues | Run, Lazy, Commit, Close | all of the above | effects run once, only after a confirmed ending |
| `kit/cache`, `httpx` host resolution | generations, stamped entries, in-process copies, shared flights | Get, Set, Move, Forget, ForgetAll, InvalidateHost | other replicas, writers that invalidate after their commit | nothing read before an invalidation is believed after it; staleness ends with a lifetime |
| `kit/jobs` | one session advisory lock per job, next run times | Run, PerTenant | other replicas | one instance at a time; no job starves |
| `modules/webhook` | endpoint with its fault clock, log of attempts | Fanout, Deliver (claim, send, record), Disable, Enable, Replay | the endpoint, other replicas, operators | one ladder per event, ended attempts stay, every attempt ends |
| `modules/change` with `modules/site` | proposals, the subject's row and revision, receipts | Propose, Review, Apply, Withdraw | other commands, direct edits, the receipts' purge | what is applied is what was reviewed, on its base; no circle of waits |
| `modules/file` | file, use, hold, width and erasure rows; objects in a store | Upload, setUses, Retain, Delete, three sweeps, encode, EraseBlobs, Reconcile | the object store, which shares no transaction with the rows | rows name bytes; holds and uses refuse a removal; orphans go |
| `kit/limit`, `kit/stream` | counters and windows; watches and ceilings | Take; Admit, Observe | other replicas; slow readers | limits hold across replicas; a dropped notice is followed by a resync |
| `pkit`, `kit/module` | manifests | resolve, build | none (before anything runs) | an accepted composition is closed and unambiguous |
| `modules/subject`, `notification`, `billing`, `auth` | requests, mail ledger, renewals, sessions | commands, jobs and subscribers | the outbox, outside services | each finishes or is findable |
| other modules, UI | rows | single-transaction CRUD, rendering | kit/crud | tenant scope, which is the database's row-level security |

Hard behaviours: COMMITs whose acknowledgement is lost, attempts that outlive
their lease, overlapping redeliveries (the ack wait is one second and a handler
may take twenty-five), effects that run after the commit, statement snapshots
older than the row they wait for, shared locks that do not exclude each other,
boots that wait for a debt to be paid, three clocks that start at different
moments, session locks lost in the middle of a run, locks on rows that do not exist
yet, and bytes that share no transaction with the rows that name them.
`PROJECT.json` lists them line by line under `hazards`.

## Modules

| Module | Models | Notes |
|---|---|---|
| `Idempotency` | one key and all attempts under it | store and HTTP driver together, with or without operation receipts (`track`) |
| `KeyedWrite` | what a key promises the caller of a keyed write | abstract specification, implemented by `Idempotency` |
| `EventFate` | what the outbox promises a subscription about one event | abstract specification |
| `Delivery` | one event on its way to one subscription | relay, stream copies, workers, claim, effects, dead letter, replay; implements `EventFate` |
| `Ledger` | one event of one tenant while its deployment takes an app name | placement, bare and scoped deliveries, MoveLedger, boot gate |
| `Retention` | how long row, stream copies, marks and letters of one event live | relay stamp, MaxAge, Purge, replay, Terminal-hook subscriptions |
| `Cache` | one entry of the shared cache and its two kinds of reader | store, singleflight, in-process copies, invalidating writers |
| `Webhook` | one endpoint's attempts | fan-out, the delivery job on several replicas, retry ladder, fault clock |
| `ChangeControl` | proposals against one subject | commands lock by lock, receipt sets, purge, direct edits |
| `FileStore` | one image: rows and bytes | upload, encode, uses, hold, removals, erasure, orphan sweep |
| `IdempotencyProofs`, `DeliveryProofs`, `LedgerProofs`, `RetentionProofs`, `CacheProofs`, `WebhookProofs`, `ChangeControlProofs`, `FileStoreProofs` | theorems about the module of that name | inductive invariant, one lemma per action, theorems |
| `MC*` | model values and symmetry for TLC | |

### Idempotency

`rec`, `effect` and `receipts` are the three rows; `marking` is the effect lock
with the uncommitted mark; `pc`, `opref`, `at` and `staged` are an attempt's
position, operation reference, claim instant and uncommitted receipt outcome.
`work`, `epoch` and `gen` are history. An attempt stands for the claim id it is
handed and, if it was admitted afresh, for the operation reference minted with
it. One action is one transaction of the store (`Claim`, `Reserve`, `Begin`,
`FailMark`/`FailCommit`, `Complete`, `Purge`) or one step of the request
transaction (`Finish`, `Mark`, `Commit`); a row lock is held from the step that
takes it to the step that ends the transaction. `Commit(a, FALSE)` is a COMMIT
the database carried out and the process never heard of; `Abandon` is a death,
a hang-up or a refused COMMIT at any point. Times are clock units: `Lease`,
`Retention`, and `MaxRun`, the longest a request may run. The code's comment on
the lease says that no request outlives it; the model does not rely on that and
lets `MaxRun` exceed `Lease`. It relies on `MaxRun < Retention` (minutes against
a day), named as an assumption.

`KeyedWrite` knows only the attempt that holds the key, since when, whether its write
is committed, and the last answer. An attempt takes the key, writes, is answered; the key
passes on only after a lease, over nothing written and nothing answered; an answer
of success or failure is about the write; and the whole is forgotten only when a
retention has passed since the key was last taken. The mapping (`Promise`) reads it off
the retry record, the receipt and the work of the attempt they name.

Left out: COMMAND scopes, which have no fence and refuse instead; `SucceedSystem` and
`events.SucceedFor`, with which a control-plane command stages success on the receipt of
the tenant that began it, under that row's lock; records of a build from before
operations; replicas whose clocks disagree; the Memory store, which shares
`decide` and `decideOutcome`.

### Delivery

`copies` is the stream, each copy with its state at the broker and its delivery
count; `handled`, `open` and `letter` are the committed claim, the uncommitted one
and the dead letter of one (event, durable); a worker is one replica's consumer
callback. `InsertClaim` waits while another transaction holds an uncommitted claim,
as the unique index does. Effects run in order after the commit, each with its own
marking transaction. The terminal record is two actions, `DeadSnapshot` and
`DeadLetter`, because its one statement reads the owing claims in the snapshot it
starts with and then waits for the claim's unique key. A copy may be handed to any
idle worker at any time while it is pending: the ack wait bounds nothing. Counts
saturate one above `MaxDeliveries`, where the code's behaviour no longer depends on
them. `handled.by`, `handled.due`, `complete`, `runs` and `late` are history; `late` is
set when a terminal record meets a claim that owes and that its snapshot did not hold.

`EventFate` has three states, due, done and dead, and an operator's order. The
refinement mapping reads `complete` as done, else `letter` as dead, else due.

`deploy` is chosen from `Deployments` at the start and never changes: which
replicas consume and how many effects a handler defers. It lets one run cover two
replicas without effects and one replica with them, where the refinement holds;
two replicas with effects have the late claim described below.

Left out: stream age and `Purge` (module Retention), batches of several rows, the
lag series, documents that do not parse or are misaddressed (they are terminated),
the memory transport.

### Ledger

The rows exist under two names, `"bare"` and `"scoped"`. The tenant's advisory key
is read off the program counters: `Shared` while a placement is uncommitted or a
bare delivery or terminal record has declared its tenant, `Exclusive` while a move
is running. A move is one transaction in six statements; what it has deleted and
copied, uncommitted, is in `src` and `twin`, and statements of others that meet
those rows wait. Its conflict read in a delivery is split like the terminal record
above: `ReadConflict` takes the snapshot, `LockConflict` gets the lock on what is
left of it. The transport is reduced to "any worker may be handed the event at any
time, for an attempt or as exhausted"; Delivery has the rest. `window` records the
one overlap the package's README leaves open (a bare claim uncommitted when its
tenant is placed under an app whose consumers run): both lock the tenant's key
shared. The comment on `holdsUnscoped` says the lock "prevents placement from
overtaking the ownership decision", which is stronger than what the code does;
the properties here follow the README.

Other tenants and durables enter only through `MoveRefused`. Replays are Delivery's.

### Retention

`row`, `copies`, `mark` and `letter` are the outbox row with the age of its stamp,
the ages of the copies on the stream, the handled mark of each durable and the dead
letters. `relay` is the relay's transaction and its age: `Publish` happens inside it,
`Stamp` commits it. A copy on the stream may be delivered again at any time, to any
durable; a delivery is one step, because a handler takes seconds and `Keep` is a
week. `TerminalLetter` is the exhausted delivery of a subscription with a hook:
mark, hook and letter in one transaction, refused where the mark stands. `Purge` is
one transaction of two deletes; the second spares marks whose row is still there.
`ran` and `granted` are history: how often a durable's handler or hook committed, and
how often it was entitled to. Ages stop counting one past `Keep`, so time is unbounded.

### Cache

`gen` and `entry` are the scope's generation and the entry with the generation its
writer had read open; `local` is a process's composed value, `flight` its
singleflight, `writer` what a process that committed a new version still has to
invalidate. `kind` selects the reader: `"host"` (API.resolve, the value is in the
store) or `"group"` (Group and Pool, the store holds a marker). Every read, write and
invalidation of the store may fail, a failed write may have landed, and a process may
never come to invalidate. A flight runs at most `Timeout`.

Left out: several keys in one call, Redis itself, eviction by size.

### Webhook

`rows` is the log of attempts in order, `ep` the endpoint, `lock` the job's session lock,
`sender` a replica's run of the job: the rows it claimed and where it is.
`FanoutReads`/`FanoutCommits` split the handler's read of the enabled endpoints from its
commit. `Send` is the request together with the recheck before it, since nothing of ours
is open between them; `Record` is the whole outcome transaction with the retry row, the
fault clock and DisableIfFailed. `LoseLock` ends the session and not the run: `overlap`
remembers a sender that went on. Durations are countdowns and ages that stop at the
threshold they are compared with.

Left out: creating and retargeting endpoints, secrets, signing, the address policy
(an answer, `refused`), the retention trim.

### ChangeControl

A command is one transaction; `cmd` is its program, `rowLock`, `subjectLock`,
`setLock` and `receiptLock` say who holds what, and what it has written is seen at
its commit. `Insert` waits for an uncommitted proposal of the same diff, as the unique
index does. A document is the set of diffs in it. `subject.exists` may be false at
first (`Rowless`): the locked read then locks nothing and answers revision 0. The
purge takes the set lock and then each expired receipt. `Crash` ends any transaction
at any point and releases its locks.

Left out: comments, lists, several subjects, the choice of who may review (an input).

### FileStore

`objects` is the store per key (what arrived, the re-encoded frame, one derived width);
`file`, `width`, `uses`, `hold`, `stamp`, `expired`, `order` and `proof` are the rows. The
files row's lock is read off `pc`: removals, the hold and a record that stops showing the
image take it FOR UPDATE, a record that begins to takes it FOR KEY SHARE. The encode's
finish locks the width's row, which a removal deletes. The encode job, the erasure's
delivery and the orphan sweep move between their statements; each may fail between any
two. `Ticks` are runs of the encode job that may be at the width together: `claim` holds
its lock for its own transaction only, and says so, and the job's session lock can be lost
in the middle of a run (as in Webhook). A tick asks for the row at `look` and at `finish`
and for nothing in between, and `Put` refuses a key that has bytes. `lost` remembers a
COMMIT of the encode that was carried out unheard, `overlap` a tick that took the width up
while another was at it, `overtaken` a width stored after its file went. `crew` says who
takes part in a behaviour, besides the upload, the deliveries, the sweep and the clock.

Left out: audiences, quota sums (an outcome), grants, other tenants' and other apps'
bytes, object stores without a Reconciler.

## Runs

| Run | Checks | Instance | States |
|---|---|---|---|
| `Idempotency` | OneEffect, ReplayTruth, ReceiptTruth, RetryAdmitted, TerminalIsFinal, ImplementsKeyedWrite | 3 attempts, 2 bodies, with and without receipts, lease 1, request 2, retention 3, clock to 5 | 0.22 M |
| `DeliverySound` | NoLoss, HandledOnce, LetterMeansUnhandled, ImplementsFate | 2 workers without effects or 1 with up to 2, cap 2, 2 copies, 1 replay, 1 recreated consumer; fair | 0.50 M |
| `DeliveryEffects` | LostOnlyLate, CountHonest | 2 workers, up to 2 effects, no replay, 1 recreated consumer | 3.1 M |
| `DeliveryLateClaim` | NoLoss is violated | 2 workers, 1 effect, 1 copy | |
| `LedgerMove` | TypeOK, HandledOnceUnderBothNames, DebtNotMoved, MarkKept, NothingLeftBare, BootOpensUnlessOwed | 2 bare workers, 1 scoped, effects; fair | 0.41 M |
| `Retention` | RanOnce, LetterKeepsRow, Drains | 2 durables, one with a hook, keep 2 ticks, 2 replays; fair | 0.17 M |
| `Cache` | TypeOK, ClosedNotBelieved, HostFresh, StaleForOneLifetime | 2 processes, 2 requests, both readers, faults, 2 versions, 1 Move, clock to 2 | 1.5 M |
| `Webhook` | TypeOK, OneLadder, EndedStays, FaultTakesAWindow, EveryAttemptEnds | 1 event, 2 replicas, 2 attempts, 1 replay, 1 fault; fair | 1.1 M |
| `ChangeControl` | OriginFollows, OneOpinionOpen, AppliedAsReviewed, VerdictStands, SomeoneGoesOn | 2 persons, 2 transactions, 2 diffs, 2 proposals, 4 commands, 3 of them with a receipt, 1 edit | 3.1 M |
| `ChangeFirstSave` | FirstSaveAsReviewed is violated | the same with 3 commands, 2 with a receipt | |
| `FileStore` | RowsNameBytes, ErasedUnlessOvertaken, RemovalAllowed, OrphansGo | 2 removers, 1 record, 1 keeper; or 1 of each and 1 tick; or 1 remover, 2 ticks; fair | 1.2 M |
| `FileErased` | ErasedWhole is violated | 1 remover, 1 record, 1 keeper, 1 tick | |

Why the bounds are enough. Three attempts give an owner, a taker-over and a late third;
the clock reaches past one lease, one request and one retention, so a key is taken over,
expires and is admitted afresh in one behaviour. Two workers and two copies give every
overlap of two attempts, and a cap of two has a first, a last and an exhausted delivery;
two effects tell a count from a flag. In Ledger two bare workers hold the key at once and
meet one claim of the app. In Retention two ticks put a copy, a stamp and a mark at three
different ages, and two replays revive an event whose first copies are still there. In
Cache a second request meets the first one's flight, the second process has a copy of its
own, and the clock passes a whole lifetime. In Webhook a replay gives an event a second
ladder, and two attempts give a ladder a middle and an end. In ChangeControl two
transactions and the purge form the circles of two that a wrong order of locks would
close, and four commands are enough to propose, review, apply and have one more in the
way; circles of three and more are what `NobodyWaitsForEver` is proved against (and one
was met, see Observations). Three receipts let a command with two of them to lock meet a
purge that has the set and wants one. FileStore has three crews: two removals beside a
record and the keeper; a removal, a record, the keeper and an encode; and a removal beside
two ticks, each free to begin and to end anywhere in the other. Uses and holds meet an
encode only through a removal, so the crew of two ticks does without them; the proofs are
for any crew.

Idempotency, DeliverySound, DeliveryEffects, Retention, ChangeControl and FileStore
check no type invariant: `TypeCorrect` is proved for every instance in the theorems' modules.

Deadlock checking is off where the system stops by itself: an event settles, a clock
or a number of commands is bounded. It is on in LedgerMove, where
the event can always be handed over again, and in FileStore, whose sweep never stops.

### What the violation runs show

- `DeliveryLateClaim`: a terminal record that starts while another attempt's claim is
  uncommitted waits for it, finds a conflict, and does not see that the claim owes an
  effect. It writes no letter, and the copy is terminated. When the effect then fails,
  its claim is released and the event is neither handled nor in the dead letters.
  `LostOnlyLate` says that an event is lost in no other way.
- `ChangeFirstSave`: for a tenant without a settings row Apply's lock locks nothing. A
  first save by somebody else that commits between Apply's read and its save is
  overwritten whole, and the proposal is recorded as applied at revision 0.
- `FileErased`: the encode job has read its frame, the file is deleted and its erasure
  certified, and then the job stores the width. The sweep removes it a day later where
  there is one (`OrphansGo`); the certificate was not true meanwhile. By
  `ErasedUnlessOvertaken` this is the only way to it.

### Observations without a run

Met while modelling; each follows from the models by a change of constants or of a
premise that a comment in the module names.

- Marks and releases of deferred effects name a claim by its key and not by its
  attempt (`deferred.go:131`). A replay between an effect and its mark lets the mark
  pay the next attempt's debt: `CountHonest` fails with `MaxReplays = 1` and two
  workers, and holds without a replay.
- A claim whose delivery died before its effect owes for ever, and every move then
  refuses (`ledger.go:136`, which expects the debt to drain). `BootOpensUnlessOwed`
  has that as its premise.
- The terminal record of a tenant placed meanwhile goes under the app's name and does
  not ask for the mark under the bare one (`events.go:414`).
- In the window the package leaves open, a claim of the bare name that is finished is
  renamed onto the app's own claim, which may still owe an effect (`ledger.go:351`; only
  the bare claims are asked what they owe). If that effect then fails, both marks are
  gone and the event runs once more under the app. `MarkKept` exempts the window;
  `HandledOnceUnderBothNames` says that it never comes to a third run.
- Apply on a subject without a row asks for the subject's row again when it saves, after
  it has locked the receipts, where `LockReceipts` "orders receipt locks after the
  owner's domain locks" (`kit/idempotency/operations.go:251`). With three transactions
  that closes a circle: a first save has created the row since; a proposer of the same
  diff holds it and waits on the index for a withdrawal or refusal of the first
  proposal; and that one waits for the set of receipts, which the apply holds. Postgres
  would find the circle and abort one of the three. `SomeoneGoesOn` exempts it by `Overtaken`.
- A composition begun before a ForgetAll may still be remembered by its process
  afterwards (`group.go:184`), for one lifetime: `StaleForOneLifetime` is what holds
  of a group, `ClosedNotBelieved` only of the store.
- Withdraw accepts an approved proposal, where its route's text says "only before it
  is decided" (`modules/change/internal/handler.go:109`).
- Ticks of the encode job that overlap are not kept apart by `look` and `finish`, to which
  the comment on `claim` leaves them (`variants.go:119`): one stores the width and makes
  its row ready, and another, which looked before that, then clears the derived key
  (`variants.go:202`). If it ends there, or its Put fails, or its finish does and the bytes
  are taken back (`variants.go:212`), the row says ready over nothing, and no later tick
  claims a ready row. `RowsNameBytes` exempts a width at which two ticks met by `overlap`.
- An unheard COMMIT of the encode's finish leaves a ready width whose bytes the job
  then takes back (`variants.go:209`), against "a ready row is a fact about bytes that
  exist"; `RowsNameBytes` exempts it by `lost`. By `ServedBytesExist` a ready
  width is without bytes in these two ways only.

## Fairness

`Delivery.FairSpec`: weak fairness on the relay's two steps (the job runs every
second) and on each worker's step as a whole: a worker that can move does, if only to
time out, fail or die, and an idle worker is handed what is pending. No success is
assumed of a handler, an effect, a mark or an acknowledgement. Strong fairness is
assumed of the terminal record alone, the one thing the transport retries without
bound (`MaxDeliver(-1)`; the comment on `delivery.MaxDeliveries`).

`Ledger.FairSpec`: deliveries, placements and moves end (every transaction has a
timeout), the rollout stops the deployment that names no app, and the statements of
a move, which the worker tries again every few seconds until it succeeds, succeed
some day if they can again and again. Without the rollout ending, a stream of bare
deliveries can refuse every move; the package documents that cost.

`Retention.FairSpec`: the relay and the purge are jobs that come round, time passes,
and a publish and its stamp that are tried again and again get through once.
Nothing is assumed of deliveries or operators.

`Webhook.FairSpec`: time passes, some replica's scheduler comes round, and a run that
has begun goes on, since the HTTP client and each transaction are bounded. Nothing is
assumed of the endpoint's answers; faults are finitely many.

`FileStore.FairSpec`: an upload ends, bytes age, the daily sweep goes on from step to
step, and its removals, which may fail on any day, do not fail on every day.

Cache and ChangeControl have no liveness property: a cache promises none, and a
command's only promise, that somebody can go on, is the invariant `SomeoneGoesOn`, stated
over the locks and not over ENABLED: `CanGo` repeats what each step asks of the locks.

## Proofs

Each component has a module of theorems, `<Module>Proofs`, with the same three parts:
an inductive invariant `IndInv` as a conjunction of named parts, a lemma for each
action (one step per part), and the theorems. Each invariant was model-checked on the
module's instance before it was proved. The theorems hold for every value of the
constants that satisfies the module's named `ASSUME`s, which TLC evaluates in the runs;
the two further hypotheses are Delivery's, below.

| Module | Theorem | States | For |
|---|---|---|---|
| `Idempotency` | `TypeCorrect`, `AtMostOneEffect`, `AnswersTellTheTruth`, `ReceiptsTellTheTruth`, `RetriesAreAdmitted`, `TerminalStays`, `KeyedWriteRefined` | TypeOK, OneEffect, ReplayTruth, ReceiptTruth, RetryAdmitted, TerminalIsFinal, ImplementsKeyedWrite | any attempts, bodies and times with `MaxRun < Retention` |
| `Delivery` | `TypeCorrect`, `LetterUnhandled` | TypeOK, LetterMeansUnhandled | any deployments, caps, copies, replays |
| | `OneCommit`, `HonestCount`, `OneWindow` | HandledOnce, CountHonest, LostOnlyLate | under `NoReplayRace` |
| | `NothingLost`, `FateRefined` | NoLoss, the safety half of ImplementsFate | under `NoLateClaim` |
| `Ledger` | `TypeCorrect`, `HandledOnce`, `DebtsStay`, `MarksAreKept`, `BareIsEmptied` | TypeOK, HandledOnceUnderBothNames, DebtNotMoved, MarkKept, NothingLeftBare | any bare and scoped workers |
| `Retention` | `TypeCorrect`, `RunsOnce`, `LetterReplayable` | type invariant, RanOnce, LetterKeepsRow | any durables, retention, replays |
| `Cache` | `TypeCorrect`, `ClosedStaysClosed`, `HostServedFresh`, `OneLifetime` | TypeOK, ClosedNotBelieved, HostFresh, StaleForOneLifetime | any processes (at least one), requests, lifetime, timeout |
| `Webhook` | `TypeCorrect`, `LaddersAreSingle`, `EndedForGood`, `FaultsTakeAWindow` | TypeOK, OneLadder, EndedStays, FaultTakesAWindow | any events, replicas, ladder, window, lease, batch, faults |
| `ChangeControl` | `TypeCorrect`, `OneOpinionAtATime`, `ReceiptFollows`, `VerdictIsFinal`, `AppliesWhatWasReviewed`, `NobodyWaitsForEver` | TypeOK, OneOpinionOpen, OriginFollows, VerdictStands, AppliedAsReviewed, SomeoneGoesOn | any persons, diffs, proposals, and finitely many transactions at once |
| `FileStore` | `TypeCorrect`, `ServedBytesExist`, `RemovalsAreAllowed`, `VerifiedMeansGone` | TypeOK, RowsNameBytes, RemovalAllowed, ErasedUnlessOvertaken | any crews of any removers, records and ticks |

`Inductive` (in Delivery `BaseInvariant`, `CountedInvariant` and `FateInvariant`; in
Idempotency also `Truthful`, in ChangeControl `LocksInOrder`) states the invariants
themselves.

### Why the invariants are what they are

**Idempotency.** `OneEffect` says nothing of why a second committer must fail. `IndInv`
adds that a live record and its fence name one attempt (`FenceInv`); that the holder of
the effect lock is the one attempt past its mark (`LockInv`); that a request in flight
is too young for its record to expire or be purged (`ClockInv`, where `MaxRun <
Retention` is used); that the record's attempt belongs to the current admission
(`GenInv`); that an attempt past Begin is recorded as begun (`BegunInv`); and that a
committed write of the current admission is the one the record names (`CommittedInv`),
so a takeover finds it and refuses. The truth of answers needs the outcomes as well:
`TruthInv` follows an outcome from where it is staged to where it is recorded. What an
attempt has staged agrees with what became of its work (`StagedInv`, `WorkInv`), a
receipt's outcome has the attempt that paid for it (`PaidInv`) or no attempt that still
can (`FailedInv`), a completed record is its attempt's own (`AnswerInv`), and an
operation reference belongs to one admission (`RefInv`). `RetryAdmitted` then follows
because a mark stands only for a write that committed or an outcome on record
(`MarkInv`).

`KeyedWriteRefined` maps every step to one of KeyedWrite or to a stutter. Most of it is
the invariants above, read in the other module's words: a takeover finds nothing written
or answered because the holder of a committed write would have been found
(`CommittedInv`), and no terminal outcome on the receipt, since that would have spent the
record (`PassedOn`). What they do not give is time: the record is retired by the age of
whichever is younger, its own claim or its receipt's outcome, and forgetting must come
no sooner than a retention after the key was last taken. `SinceInv` says that the record
dates from its attempt's claim and that an outcome, staged or recorded, is no older than it.
`WroteInv` is the case of an attempt that heard its COMMIT. The theorem needs no
hypothesis beyond the module's assumptions.

**Delivery.** The base, for every deployment, is the claim's key: an uncommitted claim
excludes every other record, and the worker whose handler runs holds it. What comes after
the commit depends on who else is there, because marks and releases name a claim by its
key alone and the terminal record reads the owing claims in a snapshot. Hence the two
hypotheses:

- `NoReplayRace`: a deployment whose handlers defer effects has one replica, or there is
  no replay. Without it a mark pays another attempt's debt (see Observations), and
  `CountHonest` and `HandledOnce` are false.
- `NoLateClaim`: a deployment whose handlers defer effects has one replica. Without it
  `NoLoss` is false, which is what `DeliveryLateClaim` shows.

Both are about which replicas run what, not about what happens: copies, redeliveries,
crashes, lost acknowledgements, recreated consumers and (under `NoLateClaim`) replays
stay unbounded by them. `DeliverySound`'s instance satisfies the second and
`DeliveryEffects`' the first, so the runs show states they hold in. `CountedInv` then
says that a worker at its effects owns the claim and that the count is what it has
still to run, with the effect that ran and is not marked counted apart; `FateInv` that
a letter, a complete run and a pending copy between them account for the event at every
step, from which `NoLoss` and each step of the refinement follow.

Its part `StreamInv` carries `late` as one more way out, and then needs neither
`NoLateClaim` nor what a terminal record's snapshot holds: with `CountedInv` it is
inductive as it stands (`LostInv`). So where `NoLoss` is false, with several replicas
whose handlers defer, `OneWindow` still proves that the statement of `deadLetter` that
missed an owing claim is the only way to lose an event. Under `NoLateClaim` that statement
misses nothing (`NeverLate`), and the two agree.

**Ledger.** The tenant's key decides who may be where (`KeyInv`: an exclusive move leaves no
delivery that declared its tenant). `MoveInv` says that what a move has in hand is
still what it read. `OpenInv` and `OwedInv` tie an uncommitted claim and an owing one to
the one worker they belong to, and `ScopedInv` says what must have happened before the
app's consumers act. `HandoverInv` and `RunInv` are the argument proper: outside the
window, once the app consumes for its tenant no bare delivery is left that could
commit, and a run has left a mark where every later delivery looks for it, under the name it
looks under. All of it is said of the time outside the window; inside, `WindowInv` counts
names in place of marks: a name is good for one run until it has a claim, and the bare
one for none, claim or not, once the tenant is the app's and no delivery is left that
passed the question before. Hence two runs and not three.

**Retention.** A published row's stamp is no older than any copy on the stream
(`StampInv`); a row that is gone leaves no copy and an idle relay (`GoneInv`); a relay at
work means a pending row (`RelayInv`); a durable that has run as often as it was granted
has its mark, or its row is gone (`GrantInv`, `MarkInv`). So when a mark is purged no
copy is left to miss it.

**Cache.** `EntryInv` says that an entry stamped with the current generation was read
after the last invalidation; `FlightInv` that a flight's generation was read before its
value was, which is what makes the late writer harmless; `LocalInv`, `WaiterInv` and
`AskInv` bound by the clock how old a remembered value and what a waiter is handed can be.

**Webhook.** Each action is first summed up by what it does to the log (`RowsGo`), so
that sequences are reasoned about once. `ClaimInv` says that without a lost lock the
run in progress is the holder's and what it claimed is still in flight, so that record
meets the one waiting attempt of the ladder and may queue its one successor
(`LadderInv`). `ClockInv` keeps the fault clock behind the last success, and
`AttemptInv` bounds the numbers.

**ChangeControl.** `CmdInv`, `ApplyInv` and `IndexInv` say what the holder of each lock
has read and that it is still so; `SubjectInv` ties the subject's revision to the edits and
applied proposals; `OriginInv` makes a receipt the origin of one proposal. The two action
properties follow from what `CmdInv` and `ApplyInv` say of the command at its commit.

`NobodyWaitsForEver` is an argument about order. `LockInv` says what a transaction may
hold at its place (`HoldsInOrder`: the subject before the receipts, the set of receipts
before any of them when there are several) and that the purge holds the set before it
locks one. `NoCircle` supposes that nobody can go on and no apply is `Overtaken`. Then
nobody is past its receipts, so whoever holds a receipt still wants another and therefore
holds the set; two such holders would be needed for one to wait on the other, and there is
one set. So nobody is at its receipts, hence nobody at the set, hence nobody at the index,
where one waits for a transaction at one of these places, hence nobody at the subject,
whose holder would be at one of them. A proposer also needs an id: `FitInv` counts the
proposals under way against those there are, and `IdLeft` draws the free one from it by a
cardinality argument, which is where `Slots` must be finite (connections are). None of it
speaks of ENABLED.

**FileStore.** The store and the rows share no transaction, so the invariant says for
each phase of the upload, the encode, the sweep and the erasure what it may still
find: until an upload is over nothing of it has aged (`UploadInv`), what a sweep means to
remove no row names (`SweepInv`), one tick at a time finishes a width (`FinishInv`), and,
as long as no two ticks met, a width about to be finished has its bytes (`EncInv`); and
`LockInv` and `ClearedInv` that what a removal asked under the row's lock is still so when
it commits. `PlanInv` (a picture without a planned width has nothing of it and no encode)
and `EraseInv` (what a delivery of the order deleted is not stored again) carry the
erasure: `VerifiedMeansGone` is what is left of the promise that `FileErased` refutes. It
holds of the file's own object without exception, and of its widths unless an encode
stored one after the file had gone.

### Only model-checked

- Liveness: the fairness half of `ImplementsFate`, `BootOpensUnlessOwed`, `Drains`,
  `EveryAttemptEnds`, `OrphansGo`. Their proofs need ENABLED, which the prover does not
  reason about.
- Delivery outside both hypotheses (several replicas, deferred effects and a replay),
  where `CountHonest` is known to fail.
- That `FirstSaveAsReviewed` fails in the described way and no other, beyond the
  exemption of rowless bases in `AppliedAsReviewed`. Of the other two violated properties
  `OneWindow` and `VerifiedMeansGone` prove it.

## Plan

What the proofs leave open:

1. `ChangeControl` for a tenant without a row: that what a first save can overwrite is one
   write, the one `ChangeFirstSave` shows.
2. `Delivery` with replays, several replicas and effects: what a mark that pays another
   attempt's debt costs at most.
3. `Ledger` in its window: how far a mark may be lost (see Observations).

Modules worth adding: live streams (ceilings and the resync after a dropped
notice), the scheduler's concurrency over tenants, the mail ledger.

## Not modelled

Most of the repository's lines are not concurrent and are not here: rendering and UI
assets, routes and their documents, generated design tokens, single-transaction CRUD
through `kit/crud` (content, task, site, user, translation, saved, picture, decide,
history, audit), SCIM and sign-in flows that check one row in one request, the
composition resolver (a pure function over large documents, run before anything
starts), configuration, telemetry and adapters to outside services. A model of these
would restate assignments. What is shared between replicas and still missing is listed
under `components` in `PROJECT.json` with its reason: the memory transport, the rate
limit, live streams, migrations and backfills, the app's lifecycle, subject requests,
the mail ledger and billing.

## Running

    tlc -config Idempotency.cfg MCIdempotency
    tlc -config DeliverySound.cfg MCDelivery
    tlc -config LedgerMove.cfg MCLedger
    tlc -config Retention.cfg MCRetention
    tlc -config Cache.cfg MCCache
    tlc -config Webhook.cfg MCWebhook
    tlc -config ChangeControl.cfg MCChangeControl
    tlc -config FileStore.cfg MCFileStore
    tlapm IdempotencyProofs.tla     # likewise the other seven
    tlapm --summary IdempotencyProofs.tla
