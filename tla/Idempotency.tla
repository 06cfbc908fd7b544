---------------------------- MODULE Idempotency ----------------------------
(***************************************************************************)
(* One Idempotency-Key and every HTTP attempt made under it.                *)
(*                                                                         *)
(* The store is kit/idempotency (the retry record, the command-effect       *)
(* fence and the operation receipt, three rows of Postgres) and the driver  *)
(* is kit/httpx (admission, the request transaction, the answer).  All the  *)
(* statements of the store are keyed by one scope (tenant, caller, method,  *)
(* route, key), so one scope is modelled.                                   *)
(*                                                                         *)
(* An attempt is one request; Claim mints it a fresh claim id, so the       *)
(* attempt itself stands for its claim, and the attempt that first admitted *)
(* an intent stands for the operation reference minted with it.  Every      *)
(* action below is one database transaction, or one step of the request     *)
(* transaction; between two of them any other attempt may run, the process  *)
(* may die, and time may pass.                                              *)
(***************************************************************************)
EXTENDS Naturals, FiniteSets

CONSTANTS
    Attempts,    \* the requests sent under the key
    None,        \* no attempt
    Bodies,      \* request fingerprints
    Lease,       \* idempotency.lease, in clock units
    Retention,   \* idempotency.retention
    MaxRun,      \* the longest a request may be inside the kernel
    MaxNow       \* bound on the clock

ASSUME AttemptAssumption == None \notin Attempts
ASSUME ClockAssumption ==
    /\ Lease \in Nat
    /\ Retention \in Nat
    /\ MaxRun \in Nat
    /\ MaxNow \in Nat
    /\ MaxRun < Retention

VARIABLES
    track,     \* TRUE: Options.Operations is set and intents have receipts
    now,       \* the clock every `at` is read from
    rec,       \* the row of platformkit_idempotency
    effect,    \* the row of platformkit_command_effect
    marking,   \* the effect lock: who holds it, and since when its mark dates
    receipts,  \* platformkit_operations, by operation reference
    pc,        \* where each attempt is
    opref,     \* the operation reference an attempt was admitted under
    at,        \* when an attempt claimed the key
    staged,    \* the receipt outcome written in an attempt's open transaction
    work,      \* what became of an attempt's own writes
    epoch,     \* how many times the key was taken afresh
    gen        \* the epoch an attempt was admitted in

vars == <<track, now, rec, effect, marking, receipts, pc, opref, at, staged, work,
          epoch, gen>>

Fingerprints == Bodies \cup {None}
Claimants == Attempts \cup {None}

Terminal == {"succeeded", "failed"}
Outcomes == Terminal \cup {"", "pending_approval"}

(* A request is in flight from the moment it holds a claim until its        *)
(* transaction has ended and its answer was landed or given up.             *)
Working == {"running", "finished", "marked", "failing", "failmarked"}
InFlight == Working \cup {"claimed", "reserved", "committed", "failed"}
Phases == InFlight \cup {"idle", "done", "refused", "replayed"}

NoRec == [live |-> FALSE, claim |-> None, at |-> 0, fp |-> None,
          began |-> FALSE, completed |-> FALSE, recorded |-> FALSE,
          ok |-> FALSE, ref |-> None, started |-> 0]
NoEffect == [live |-> FALSE, claim |-> None, committed |-> FALSE, at |-> 0]
NoReceipt == [live |-> FALSE, outcome |-> "", started |-> 0, outcomeAt |-> 0]
NotMarking == [by |-> None, at |-> 0]
NotStaged == [outcome |-> "", at |-> 0]

Init ==
    /\ track \in BOOLEAN
    /\ now = 0
    /\ rec = NoRec
    /\ effect = NoEffect
    /\ marking = NotMarking
    /\ receipts = [r \in Attempts |-> NoReceipt]
    /\ pc = [a \in Attempts |-> "idle"]
    /\ opref = [a \in Attempts |-> None]
    /\ at = [a \in Attempts |-> 0]
    /\ staged = [a \in Attempts |-> NotStaged]
    /\ work = [a \in Attempts |-> "none"]
    /\ epoch = 0
    /\ gen = [a \in Attempts |-> 0]

----------------------------------------------------------------------------
(* The decision of kit/idempotency: decide, claimExpired, resolveEffect.    *)

Later(x, y) == IF x > y THEN x ELSE y

(* Mutant: a receipt's retention counts from the start of its request.      *)
ReceiptExpiredByStart(r) ==
    /\ r.outcome \in Terminal
    /\ now >= r.started + Retention

(* expired: a terminal receipt past its retention.                          *)
ReceiptExpired(r) ==
    /\ r.outcome \in Terminal
    /\ now >= Later(r.started, r.outcomeAt) + Retention

(* claimExpired: a tracked record lives as long as its receipt is needed,   *)
(* an untracked one for the retention of its latest claim.                  *)
ClaimExpired ==
    IF track
    THEN receipts[rec.ref].live /\ ReceiptExpired(receipts[rec.ref])
    ELSE now >= rec.at + Retention

LeaseOver == now >= rec.at + Lease

(* The record names a begun attempt whose answer never landed: only the     *)
(* effect row can say whether its COMMIT reached the database.              *)
NeedsResolve == rec.began /\ ~rec.completed /\ LeaseOver

(* Mutant: the takeover never reads the mark.                               *)
EffectCommittedUnread == FALSE

(* resolveEffect: a missing fence proves nothing, so it counts as done.     *)
EffectCommitted ==
    (effect.live /\ effect.claim = rec.claim) => effect.committed

KnownOutcome ==
    track /\ receipts[rec.ref].live /\ receipts[rec.ref].outcome # ""

(* decide: the disposition of a record that exists.                         *)
Decide(body) ==
    IF ClaimExpired THEN "first"
    ELSE IF rec.fp # body THEN "conflict"
    ELSE IF track /\ now >= rec.started + Retention THEN "spent"
    ELSE IF rec.completed THEN IF rec.recorded THEN "replay" ELSE "spent"
    ELSE IF ~LeaseOver THEN "inflight"
    ELSE IF rec.began /\ (EffectCommitted \/ KnownOutcome) THEN "spent"
    ELSE "first"

(* Claim resolves an unanswered begun attempt before it decides; while a    *)
(* transaction holds the effect lock the reading is no evidence.            *)
Verdict(body) ==
    IF ~rec.live THEN "first"
    ELSE IF NeedsResolve /\ marking.by # None THEN "inflight"
    ELSE Decide(body)

(* The lock a request transaction holds on the receipt it staged an outcome *)
(* on, from the staging to its own end.                                     *)
ReceiptLocked(r) ==
    \E a \in Attempts :
        /\ pc[a] \in {"finished", "marked"}
        /\ opref[a] = r
        /\ staged[a].outcome # ""

----------------------------------------------------------------------------
(* Admission.                                                               *)

(* Mutant: the handover renames the row and forgets to clear its mark.      *)
FenceStale(a) ==
    [live |-> TRUE, claim |-> a, committed |-> effect.committed, at |-> now]

(* fence: the effect row now names this attempt, unmarked.                  *)
Fence(a) == [live |-> TRUE, claim |-> a, committed |-> FALSE, at |-> now]

(* Claim's INSERT or takeover UPDATE: a fresh key gets a new operation      *)
(* reference and admission instant, a takeover inherits both.               *)
Taken(a, body, fresh) ==
    [live |-> TRUE, claim |-> a, at |-> now, fp |-> body,
     began |-> FALSE, completed |-> FALSE, recorded |-> FALSE, ok |-> FALSE,
     ref |-> IF fresh THEN IF track THEN a ELSE None ELSE rec.ref,
     started |-> IF fresh THEN now ELSE rec.started]

(* First: the attempt owns the key.  The upsert of the effect row waits for *)
(* a transaction that has marked it.                                        *)
ClaimFirst(a, body) ==
    LET fresh == ~rec.live \/ ClaimExpired
    IN  /\ Verdict(body) = "first"
        /\ marking.by = None
        /\ rec' = Taken(a, body, fresh)
        /\ effect' = Fence(a)
        /\ pc' = [pc EXCEPT ![a] = "claimed"]
        /\ opref' = [opref EXCEPT ![a] = rec'.ref]
        /\ at' = [at EXCEPT ![a] = now]
        /\ epoch' = IF fresh THEN epoch + 1 ELSE epoch
        /\ gen' = [gen EXCEPT ![a] = epoch']
        /\ UNCHANGED <<track, now, marking, receipts, staged, work>>

(* Every other verdict writes nothing: the request is answered from the     *)
(* record, or refused.                                                      *)
ClaimAnswered(a, body) ==
    /\ Verdict(body) # "first"
    /\ pc' = [pc EXCEPT ![a] = IF Verdict(body) = "replay"
                               THEN "replayed" ELSE "refused"]
    /\ UNCHANGED <<track, now, rec, effect, marking, receipts, opref, at, staged,
                   work, epoch, gen>>

(* Claim reads the receipt FOR UPDATE, so it waits for the transaction that *)
(* staged an outcome on it.                                                 *)
Claim(a, body) ==
    /\ pc[a] = "idle"
    /\ (rec.live /\ track) => ~ReceiptLocked(rec.ref)
    /\ ClaimFirst(a, body) \/ ClaimAnswered(a, body)

(* beginOperation's Reserve: the receipt exists before the handler runs,    *)
(* dated by the attempt that minted the reference.                          *)
Reserve(a) ==
    /\ track
    /\ pc[a] = "claimed"
    /\ receipts' = IF receipts[opref[a]].live THEN receipts
                   ELSE [receipts EXCEPT ![opref[a]] =
                            [live |-> TRUE, outcome |-> "",
                             started |-> at[opref[a]], outcomeAt |-> 0]]
    /\ pc' = [pc EXCEPT ![a] = "reserved"]
    /\ UNCHANGED <<track, now, rec, effect, marking, opref, at, staged, work, epoch,
                   gen>>

(* Mutant: the WHERE clause names the key and not the claim.                *)
HoldsKeyOnly(a) == rec.live /\ ~rec.completed

(* The WHERE clause Begin and Complete share: this attempt's claim, and no  *)
(* answer on it yet.                                                        *)
Holds(a) == rec.live /\ rec.claim = a /\ ~rec.completed

(* Begin: the attempt is let in to the write only while it holds the key.   *)
Begin(a) ==
    /\ pc[a] = IF track THEN "reserved" ELSE "claimed"
    /\ IF Holds(a) /\ ~rec.began
       THEN /\ rec' = [rec EXCEPT !.began = TRUE]
            /\ pc' = [pc EXCEPT ![a] = "running"]
       ELSE /\ pc' = [pc EXCEPT ![a] = "refused"]
            /\ UNCHANGED rec
    /\ UNCHANGED <<track, now, effect, marking, receipts, opref, at, staged, work,
                   epoch, gen>>

----------------------------------------------------------------------------
(* The request transaction: prepareCommit, Close, recordRolledBackOperation *)

(* Transition's UPDATE: the outcome of a receipt and its instant.           *)
WithOutcome(r, outcome, t) ==
    [receipts EXCEPT ![r] = [live |-> receipts[r].live, outcome |-> outcome,
                             started |-> receipts[r].started, outcomeAt |-> t]]

(* What the handler leaves for its receipt: its success, nothing when it    *)
(* deferred the operation to an asynchronous owner, or an approval to wait  *)
(* for.  finishOperation stages nothing over an outcome that is known.      *)
Decided == IF track THEN {"succeeded", "", "pending_approval"} ELSE {""}

(* The handler answered below 400 and finishOperation staged its outcome in *)
(* the transaction, under the receipt's row lock.                           *)
Finish(a, outcome) ==
    /\ pc[a] = "running"
    /\ track => (receipts[opref[a]].live /\ ~ReceiptLocked(opref[a]))
    /\ (outcome = "pending_approval") => receipts[opref[a]].outcome = ""
    /\ staged' = IF outcome # "" /\ receipts[opref[a]].outcome = ""
                 THEN [staged EXCEPT ![a] = [outcome |-> outcome, at |-> now]]
                 ELSE staged
    /\ pc' = [pc EXCEPT ![a] = "finished"]
    /\ UNCHANGED <<track, now, rec, effect, marking, receipts, opref, at, work,
                   epoch, gen>>

(* The handler refused, panicked, or its completion was refused: the        *)
(* transaction is rolled back for certain.                                  *)
Fail(a) ==
    /\ pc[a] = "running"
    /\ pc' = [pc EXCEPT ![a] = IF track THEN "failing" ELSE "failed"]
    /\ work' = [work EXCEPT ![a] = "rolledback"]
    /\ UNCHANGED <<track, now, rec, effect, marking, receipts, opref, at, staged,
                   epoch, gen>>

(* Without receipts a handler may answer without opening its transaction:   *)
(* there is nothing to mark and nothing to commit.                          *)
AnswerWithoutTx(a) ==
    /\ ~track
    /\ pc[a] = "running"
    /\ pc' = [pc EXCEPT ![a] = "committed"]
    /\ UNCHANGED <<track, now, rec, effect, marking, receipts, opref, at, staged,
                   work, epoch, gen>>

(* Mutant: the upsert marks whatever row is there.                          *)
UnfencedAlways(a) == TRUE

(* Mark's WHERE clause: the row names this attempt, or there is no row.     *)
Unfenced(a) == ~effect.live \/ effect.claim = a

(* Mark takes the effect lock, which its transaction then holds to its end; *)
(* an attempt the key has moved on from is refused and rolled back.         *)
Mark(a) ==
    /\ pc[a] = "finished"
    /\ marking.by = None
    /\ IF Unfenced(a)
       THEN /\ marking' = [by |-> a, at |-> now]
            /\ pc' = [pc EXCEPT ![a] = "marked"]
            /\ UNCHANGED <<staged, work>>
       ELSE /\ pc' = [pc EXCEPT ![a] = "done"]
            /\ work' = [work EXCEPT ![a] = "rolledback"]
            /\ staged' = [staged EXCEPT ![a] = NotStaged]
            /\ UNCHANGED marking
    /\ UNCHANGED <<track, now, rec, effect, receipts, opref, at, epoch, gen>>

Marked(a) ==
    [live |-> TRUE, claim |-> a, committed |-> TRUE, at |-> marking.at]

(* COMMIT: the write, its mark and its outcome become visible together.     *)
(* When the acknowledgement is lost the attempt lands no answer.            *)
Commit(a, heard) ==
    /\ pc[a] = "marked"
    /\ effect' = Marked(a)
    /\ marking' = NotMarking
    /\ receipts' = IF staged[a].outcome = "" THEN receipts
                   ELSE WithOutcome(opref[a], staged[a].outcome, staged[a].at)
    /\ staged' = [staged EXCEPT ![a] = NotStaged]
    /\ work' = [work EXCEPT ![a] = "committed"]
    /\ pc' = [pc EXCEPT ![a] = IF heard THEN "committed" ELSE "done"]
    /\ UNCHANGED <<track, now, rec, opref, at, epoch, gen>>

(* failedOperation opens a transaction of its own and marks first.          *)
FailMark(a) ==
    /\ pc[a] = "failing"
    /\ marking.by = None
    /\ IF Unfenced(a)
       THEN /\ marking' = [by |-> a, at |-> now]
            /\ pc' = [pc EXCEPT ![a] = "failmarked"]
       ELSE /\ pc' = [pc EXCEPT ![a] = "failed"]
            /\ UNCHANGED marking
    /\ UNCHANGED <<track, now, rec, effect, receipts, opref, at, staged, work, epoch,
                   gen>>

(* ... then records the failure, unless the outcome is terminal already.    *)
FailCommit(a) ==
    /\ pc[a] = "failmarked"
    /\ receipts[opref[a]].live
    /\ ~ReceiptLocked(opref[a])
    /\ effect' = Marked(a)
    /\ marking' = NotMarking
    /\ receipts' = IF receipts[opref[a]].outcome \in Terminal THEN receipts
                   ELSE WithOutcome(opref[a], "failed", now)
    /\ pc' = [pc EXCEPT ![a] = "failed"]
    /\ UNCHANGED <<track, now, rec, opref, at, staged, work, epoch, gen>>

(* The failure evidence could not be persisted: the caller gets a 503, and  *)
(* that answer is landed like any other.                                    *)
FailUnrecorded(a) ==
    /\ pc[a] \in {"failing", "failmarked"}
    /\ marking' = IF marking.by = a THEN NotMarking ELSE marking
    /\ pc' = [pc EXCEPT ![a] = "failed"]
    /\ UNCHANGED <<track, now, rec, effect, receipts, opref, at, staged, work, epoch,
                   gen>>

(* complete: the answer that was sent is landed on the claim, whole or as   *)
(* spent; an attempt that lost the claim lands nothing.                     *)
Complete(a, kept) ==
    /\ pc[a] \in {"committed", "failed"}
    /\ rec' = IF Holds(a)
              THEN [rec EXCEPT !.completed = TRUE, !.recorded = kept,
                               !.ok = (pc[a] = "committed")]
              ELSE rec
    /\ pc' = [pc EXCEPT ![a] = "done"]
    /\ UNCHANGED <<track, now, effect, marking, receipts, opref, at, staged, work,
                   epoch, gen>>

(* The process dies, the client hangs up, or the COMMIT is refused: the     *)
(* open transaction and its locks are gone and no answer is landed.         *)
Abandon(a) ==
    /\ pc[a] \in InFlight
    /\ pc' = [pc EXCEPT ![a] = "done"]
    /\ work' = IF pc[a] \in {"running", "finished", "marked"}
               THEN [work EXCEPT ![a] = "rolledback"] ELSE work
    /\ marking' = IF marking.by = a THEN NotMarking ELSE marking
    /\ staged' = [staged EXCEPT ![a] = NotStaged]
    /\ UNCHANGED <<track, now, rec, effect, receipts, opref, at, epoch, gen>>

----------------------------------------------------------------------------
(* What happens around the requests.                                        *)

(* Mutant: decideOutcome without its terminal refusal.                      *)
OwnerOutcomeOver(a, outcome) ==
    /\ track
    /\ work[a] = "committed"
    /\ receipts[opref[a]].live
    /\ ~ReceiptLocked(opref[a])
    /\ receipts' = WithOutcome(opref[a], outcome, now)
    /\ UNCHANGED <<track, now, rec, effect, marking, pc, opref, at, staged, work,
                   epoch, gen>>

(* The asynchronous owner of a committed operation completes its receipt    *)
(* (events.RecordOutcome from a delivery).                                  *)
OwnerOutcome(a, outcome) ==
    /\ track
    /\ work[a] = "committed"
    /\ receipts[opref[a]].live
    /\ receipts[opref[a]].outcome \notin Terminal
    /\ ~ReceiptLocked(opref[a])
    /\ receipts' = WithOutcome(opref[a], outcome, now)
    /\ UNCHANGED <<track, now, rec, effect, marking, pc, opref, at, staged, work,
                   epoch, gen>>

(* PurgeAt: the record with its receipt, then receipts no record names,     *)
(* then the fence no record names.  The locks it meets on the way it waits  *)
(* for or skips, as each statement says.                                    *)
Purgeable == rec.live /\ now >= rec.at + Retention

Purge ==
    LET kept == rec.live /\ ~(Purgeable /\ ClaimExpired)
        named(r) == kept /\ rec.ref = r
        gone(r) == ReceiptExpired(receipts[r]) /\ ~named(r) /\ ~ReceiptLocked(r)
        unfenced == effect.live /\ ~kept /\ now > effect.at + Retention
    IN  /\ (track /\ Purgeable) => ~ReceiptLocked(rec.ref)
        /\ unfenced => marking.by = None
        /\ rec' = IF kept THEN rec ELSE NoRec
        /\ receipts' = [r \in Attempts |->
                           IF gone(r) THEN NoReceipt ELSE receipts[r]]
        /\ effect' = IF unfenced THEN NoEffect ELSE effect
        /\ UNCHANGED <<track, now, marking, pc, opref, at, staged, work, epoch, gen>>

(* The server's timeouts end every request within MaxRun of its claim.      *)
Tick ==
    /\ now < MaxNow
    /\ \A a \in Attempts : pc[a] \in InFlight => now < at[a] + MaxRun
    /\ now' = now + 1
    /\ UNCHANGED <<track, rec, effect, marking, receipts, pc, opref, at, staged,
                   work, epoch, gen>>

Step(a) ==
    \/ \E body \in Bodies : Claim(a, body)
    \/ Reserve(a)
    \/ Begin(a)
    \/ \E outcome \in Decided : Finish(a, outcome)
    \/ Fail(a)
    \/ AnswerWithoutTx(a)
    \/ Mark(a)
    \/ \E heard \in BOOLEAN : Commit(a, heard)
    \/ FailMark(a)
    \/ FailCommit(a)
    \/ FailUnrecorded(a)
    \/ \E kept \in BOOLEAN : Complete(a, kept)
    \/ Abandon(a)
    \/ \E outcome \in Terminal : OwnerOutcome(a, outcome)

Next == (\E a \in Attempts : Step(a)) \/ Purge \/ Tick

Spec == Init /\ [][Next]_vars

----------------------------------------------------------------------------
(* Properties.                                                              *)

RecType ==
    [live : BOOLEAN, claim : Claimants, at : Nat, fp : Fingerprints,
     began : BOOLEAN, completed : BOOLEAN, recorded : BOOLEAN, ok : BOOLEAN,
     ref : Claimants, started : Nat]
EffectType == [live : BOOLEAN, claim : Claimants, committed : BOOLEAN, at : Nat]
ReceiptType ==
    [live : BOOLEAN, outcome : Outcomes, started : Nat, outcomeAt : Nat]

(* The shape of the three rows and of every attempt's own state.            *)
TypeOK ==
    /\ track \in BOOLEAN
    /\ now \in Nat
    /\ rec \in RecType
    /\ effect \in EffectType
    /\ marking \in [by : Claimants, at : Nat]
    /\ receipts \in [Attempts -> ReceiptType]
    /\ pc \in [Attempts -> Phases]
    /\ opref \in [Attempts -> Claimants]
    /\ at \in [Attempts -> Nat]
    /\ staged \in [Attempts -> [outcome : Outcomes, at : Nat]]
    /\ work \in [Attempts -> {"none", "committed", "rolledback"}]
    /\ epoch \in Nat
    /\ gen \in [Attempts -> Nat]

(* The promise of the header (kit/httpx/idempotency.go): however leases     *)
(* run out, keys are taken over, processes die and acknowledgements are     *)
(* lost, at most one of the attempts that share one admission of the key    *)
(* commits its write.                                                       *)
OneEffect ==
    \A a, b \in Attempts :
        (/\ work[a] = "committed"
         /\ work[b] = "committed"
         /\ gen[a] = gen[b]) => a = b

(* "This is the ordering that keeps a recorded 200 from being a committed   *)
(* 500" (kit/httpx/respond.go): an answer a retry will be replayed says     *)
(* success only when the write was not rolled back, and failure only when   *)
(* no attempt under this admission has committed.                           *)
ReplayTruth ==
    (rec.live /\ rec.completed) =>
        IF rec.ok THEN work[rec.claim] # "rolledback"
        ELSE \A a \in Attempts : gen[a] = epoch => work[a] # "committed"

(* "Commit/network uncertainty never creates failure evidence"              *)
(* (kit/idempotency/README.md): while no owner has completed it, a receipt  *)
(* says succeeded only if an attempt under it committed, and a receipt that *)
(* says failed belongs to no attempt that is still able to commit.          *)
ReceiptTruth ==
    \A r \in Attempts : receipts[r].live =>
        /\ receipts[r].outcome \in {"succeeded", "pending_approval"} =>
               \E a \in Attempts : opref[a] = r /\ work[a] = "committed"
        /\ receipts[r].outcome = "failed" =>
               \A a \in Attempts : opref[a] = r => pc[a] # "marked"

(* A rolled-back or lost write can be made again: once the lease is over    *)
(* and nothing is running, committed or recorded under this admission, the  *)
(* same request is admitted within the retention rather than refused as     *)
(* spent (Store.Begin: "begun HTTP claims require an uncommitted effect     *)
(* fence").                                                                 *)
RetryAdmitted ==
    (/\ rec.live
     /\ ~rec.completed
     /\ LeaseOver
     /\ now < rec.started + Retention
     /\ \A a \in Attempts : gen[a] = epoch /\ epoch > 0 =>
            pc[a] \notin InFlight /\ work[a] # "committed"
     /\ ~KnownOutcome) => Verdict(rec.fp) = "first"

(* "A terminal result cannot change" (kit/idempotency/README.md): no step   *)
(* of an attempt, an owner or the purge moves a terminal receipt to another *)
(* outcome; it can only be retired.                                         *)
TerminalIsFinal ==
    [][\A r \in Attempts :
          (receipts[r].live /\ receipts[r].outcome \in Terminal) =>
              \/ ~receipts'[r].live
              \/ receipts'[r].outcome = receipts[r].outcome]_vars

(* What the caller is promised about the key, whatever happens underneath:  *)
(* the record names its owner, and everybody of this admission whose write  *)
(* committed counts as written.                                             *)
Promise == INSTANCE KeyedWrite WITH
    tracked <- track,
    owner <- IF rec.live THEN rec.claim ELSE None,
    since <- rec.at,
    written <- {a \in Attempts : gen[a] = epoch /\ work[a] = "committed"},
    answer <- IF rec.live /\ rec.completed THEN IF rec.ok THEN "ok" ELSE "failed" ELSE ""

(* Every step of attempts, owners, the purge and the clock is a step of     *)
(* KeyedWrite, or none of its business.                                     *)
ImplementsKeyedWrite == Promise!KeyedSpec

=============================================================================
