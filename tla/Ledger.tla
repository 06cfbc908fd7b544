------------------------------- MODULE Ledger -------------------------------
(***************************************************************************)
(* One event of one tenant while its deployment takes an app name           *)
(* (kit/events/ledger.go, migrations 000058 to 000061).                     *)
(*                                                                         *)
(* The claim of an event is keyed by its subscription's durable name.  A    *)
(* deployment without an app uses the bare name; an app's consumers use the *)
(* scoped one.  A placement gives the tenant to the app, a ledger move      *)
(* renames the tenant's bare rows, and the app's worker opens its consumers *)
(* only once a move has gone through.  Deliveries under the bare name go on *)
(* meanwhile.                                                               *)
(*                                                                         *)
(* Exclusion is by the tenant's advisory key: shared for a bare delivery,   *)
(* a bare terminal record and a placement, exclusive and only tried for by  *)
(* a move.  A transaction holds it to its end, so the holders are read off  *)
(* the program counters.  Each action is one statement or one transaction.  *)
(* The transport (Delivery) is any worker being handed the event at any     *)
(* time; a handler defers at most one effect; replays are not here.         *)
(***************************************************************************)
EXTENDS Integers

CONSTANTS
    BareWorkers,    \* consumers of the deployment that names no app
    ScopedWorkers,  \* consumers of the app
    None,           \* no worker
    Defers          \* TRUE: a handler may defer an effect past its commit

ASSUME WorkersAssumption ==
    /\ BareWorkers \cap ScopedWorkers = {}
    /\ None \notin BareWorkers \cup ScopedWorkers
ASSUME DefersAssumption == Defers \in BOOLEAN

VARIABLES
    named,      \* tenants.app, committed: TRUE once the tenant is the app's
    placer,     \* "placing": an uncommitted placement, holding the key
    claims,     \* platformkit_handled, committed, by name
    letters,    \* platformkit_dead_letters, committed, by name
    open,       \* the worker with an uncommitted claim, by name
    pc,         \* where each worker is
    target,     \* the name a worker's terminal record goes under
    seen,       \* the claims a worker's locking read began from
    mover,      \* where the move is; anything but "idle" holds the key
    from,       \* the move found rows to rename
    src,        \* rows the move has deleted, uncommitted
    twin,       \* scoped copies the move has inserted, uncommitted
    serving,    \* the deployment without an app still consumes
    consuming,  \* the app's consumers are open
    window,     \* history: a placement overtook an open bare claim
    runs        \* history: handler commits not withdrawn since

vars == <<named, placer, claims, letters, open, pc, target, seen, mover, from,
          src, twin, serving, consuming, window, runs>>
tenant == <<named, placer, serving, consuming, window>>
move == <<mover, from, src, twin>>
local == <<target, seen>>

Workers == BareWorkers \cup ScopedWorkers
Names == {"bare", "scoped"}
Own(w) == IF w \in BareWorkers THEN "bare" ELSE "scoped"

(* The names a delivery asks the ledgers under: its own and, for an app's   *)
(* subscription, the older one.                                             *)
Asked(w) == IF w \in BareWorkers THEN {"bare"} ELSE Names

(* due is history: the claim's effect has not come back.                    *)
NoClaim == [live |-> FALSE, owed |-> 0, due |-> 0]
Claim(owed) == [live |-> TRUE, owed |-> owed, due |-> owed]

Phases == {"idle", "checking", "declaring", "reading", "claiming", "conflict",
           "locking", "retaking", "running", "effects", "marking",
           "releasing", "dead", "naming", "burying"}
MovePhases == {"idle", "held", "found", "owing", "claims", "letters",
               "checked"}

(* Inside a transaction that has declared its tenant busy.                  *)
Declared(w) ==
    /\ w \in BareWorkers
    /\ pc[w] \in {"reading", "claiming", "conflict", "locking", "retaking",
                  "running", "naming", "burying"}

Shared == placer = "placing" \/ \E w \in BareWorkers : Declared(w)
Exclusive == mover # "idle"

Init ==
    /\ named = FALSE
    /\ placer = "idle"
    /\ claims = [n \in Names |-> NoClaim]
    /\ letters = [n \in Names |-> FALSE]
    /\ open = [n \in Names |-> None]
    /\ pc = [w \in Workers |-> "idle"]
    /\ target = [w \in Workers |-> Own(w)]
    /\ seen = [w \in Workers |-> {}]
    /\ mover = "idle"
    /\ from = FALSE
    /\ src = [claim |-> FALSE, letter |-> FALSE]
    /\ twin = [claim |-> FALSE, letter |-> FALSE]
    /\ serving = TRUE
    /\ consuming = FALSE
    /\ window = FALSE
    /\ runs = 0

Goto(w, phase) == pc' = [pc EXCEPT ![w] = phase]

(* What a transaction read goes with it.                                    *)
Forget(w) ==
    /\ target' = [target EXCEPT ![w] = Own(w)]
    /\ seen' = [seen EXCEPT ![w] = {}]

----------------------------------------------------------------------------
(* The placement: empty to the app, once.                                   *)

(* Mutant: the placement takes no key (before migration 000061).            *)
PlaceUndeclared ==
    /\ ~named
    /\ placer = "idle"
    /\ placer' = "placing"
    /\ UNCHANGED <<named, serving, consuming, window, claims, letters, open,
                   pc, local, move, runs>>

(* The UPDATE of tenants.app; its trigger takes the shared key, waiting for *)
(* a move.                                                                  *)
Place ==
    /\ ~named
    /\ placer = "idle"
    /\ ~Exclusive
    /\ placer' = "placing"
    /\ UNCHANGED <<named, serving, consuming, window, claims, letters, open,
                   pc, local, move, runs>>

(* Its transaction commits or is lost.  A bare delivery that had read the   *)
(* tenant as nobody's is not waited for: both keys are shared.              *)
PlaceEnds(commits) ==
    /\ placer = "placing"
    /\ placer' = "idle"
    /\ named' = commits
    /\ window' = (window \/ (commits /\ consuming /\
                    \E w \in BareWorkers : Declared(w) /\ pc[w] # "reading"))
    /\ UNCHANGED <<serving, consuming, claims, letters, open, pc, local, move,
                   runs>>

(* The rollout that names the app stops the deployment that named none.     *)
BareStops ==
    /\ serving
    /\ serving' = FALSE
    /\ UNCHANGED <<named, placer, consuming, window, claims, letters, open, pc,
                   local, move, runs>>

----------------------------------------------------------------------------
(* A delivery.                                                              *)

(* The transport hands the event over, for an attempt or as exhausted.      *)
Receive(w, exhausted) ==
    /\ pc[w] = "idle"
    /\ IF w \in BareWorkers THEN serving ELSE consuming
    /\ Goto(w, IF exhausted THEN "dead" ELSE "checking")
    /\ UNCHANGED <<tenant, claims, letters, open, local, move, runs>>

(* holdsTenant, in a transaction of its own: a misplaced copy is dropped.   *)
HoldsTenant(w) ==
    /\ pc[w] = "checking"
    /\ Goto(w, IF named # (w \in ScopedWorkers) THEN "idle"
               ELSE IF w \in BareWorkers THEN "declaring" ELSE "claiming")
    /\ UNCHANGED <<tenant, claims, letters, open, local, move, runs>>

(* declareTenant: the shared key, behind any move.                          *)
DeclareTenant(w) ==
    /\ pc[w] = "declaring"
    /\ ~Exclusive
    /\ Goto(w, "reading")
    /\ UNCHANGED <<tenant, claims, letters, open, local, move, runs>>

(* Mutant: the placement read before the key was taken is relied on.        *)
HoldsUnscopedUnread(w) ==
    /\ pc[w] = "reading"
    /\ Goto(w, "claiming")
    /\ UNCHANGED <<tenant, claims, letters, open, local, move, runs>>

(* holdsUnscoped reads the placement again, under the key.                  *)
HoldsUnscoped(w) ==
    /\ pc[w] = "reading"
    /\ Goto(w, IF named THEN "idle" ELSE "claiming")
    /\ UNCHANGED <<tenant, claims, letters, open, local, move, runs>>

(* No committed claim and no letter under any name the delivery asks.       *)
Free(w) == \A n \in Asked(w) : ~claims[n].live /\ ~letters[n]

(* insertClaim, and the one retry after the row it met went away.           *)
InsertClaim(w) ==
    /\ pc[w] \in {"claiming", "retaking"}
    /\ open[Own(w)] = None
    /\ open' = IF Free(w) THEN [open EXCEPT ![Own(w)] = w] ELSE open
    /\ Goto(w, IF Free(w) THEN "running"
               ELSE IF pc[w] = "claiming" THEN "conflict"
               ELSE "idle")
    /\ UNCHANGED <<tenant, claims, letters, local, move, runs>>

(* owedOrHandled's SELECT ... FOR UPDATE begins from a snapshot ...         *)
ReadConflict(w) ==
    /\ pc[w] = "conflict"
    /\ seen' = [seen EXCEPT ![w] = {n \in Asked(w) : claims[n].live}]
    /\ Goto(w, "locking")
    /\ UNCHANGED <<tenant, claims, letters, open, target, move, runs>>

(* ... and waits for the row a move is deleting; a row gone by then is no   *)
(* row, and the copy the move made is not in the snapshot.  A row found, or *)
(* a letter, ends the delivery; neither lets it try once more.              *)
LockConflict(w) ==
    /\ pc[w] = "locking"
    /\ ~("bare" \in seen[w] /\ src.claim)
    /\ Goto(w, IF \/ \E n \in seen[w] : claims[n].live
                  \/ \E n \in Asked(w) : letters[n]
               THEN "idle" ELSE "retaking")
    /\ Forget(w)
    /\ UNCHANGED <<tenant, claims, letters, open, move, runs>>

(* The handler's transaction commits with its claim.                        *)
CommitHandler(w, effects) ==
    /\ pc[w] = "running"
    /\ claims' = [claims EXCEPT ![Own(w)] = Claim(effects)]
    /\ open' = [open EXCEPT ![Own(w)] = None]
    /\ runs' = runs + 1
    /\ Goto(w, IF effects = 0 THEN "idle" ELSE "effects")
    /\ UNCHANGED <<tenant, letters, local, move>>

(* A failure, a timeout or the death of the process: whatever is open rolls *)
(* back, a deferred effect is forgotten, the key is let go.                 *)
Abandon(w) ==
    /\ pc[w] # "idle"
    /\ open' = [n \in Names |-> IF open[n] = w THEN None ELSE open[n]]
    /\ Goto(w, "idle")
    /\ Forget(w)
    /\ UNCHANGED <<tenant, claims, letters, move, runs>>

(* The deferred effect is carried out, or is not.                           *)
RunEffect(w, ok) ==
    /\ pc[w] = "effects"
    /\ claims' = IF ok /\ claims[Own(w)].live
                 THEN [claims EXCEPT ![Own(w)].due = @ - 1] ELSE claims
    /\ Goto(w, IF ok THEN "marking" ELSE "releasing")
    /\ UNCHANGED <<tenant, letters, open, local, move, runs>>

(* A worker's statement on its own claim waits for a move deleting it.      *)
Unlocked(w) == ~(w \in BareWorkers /\ src.claim)

(* Mutant: a mark that went through may be made again.                      *)
MarkEffectRunAgain(w) ==
    /\ pc[w] = "marking"
    /\ Unlocked(w)
    /\ claims' = IF claims[Own(w)].live
                 THEN [claims EXCEPT ![Own(w)].owed = @ - 1] ELSE claims
    /\ Goto(w, "idle") \/ Goto(w, "marking")
    /\ UNCHANGED <<tenant, letters, open, local, move, runs>>

(* markEffectRun, by the name the claim was written under.                  *)
MarkEffectRun(w) ==
    /\ pc[w] = "marking"
    /\ Unlocked(w)
    /\ claims' = IF claims[Own(w)].live
                 THEN [claims EXCEPT ![Own(w)].owed = @ - 1] ELSE claims
    /\ Goto(w, "idle")
    /\ UNCHANGED <<tenant, letters, open, local, move, runs>>

(* releaseClaim, by the same name.                                          *)
ReleaseClaim(w) ==
    /\ pc[w] = "releasing"
    /\ Unlocked(w)
    /\ claims' = [claims EXCEPT ![Own(w)] = NoClaim]
    /\ runs' = IF claims[Own(w)].live THEN runs - 1 ELSE runs
    /\ Goto(w, "idle")
    /\ UNCHANGED <<tenant, letters, open, local, move>>

----------------------------------------------------------------------------
(* deadLetter.                                                              *)

(* A bare durable declares the tenant; a scoped one asks nothing.           *)
DeclareDead(w) ==
    /\ pc[w] = "dead"
    /\ w \in BareWorkers => ~Exclusive
    /\ target' = [target EXCEPT ![w] = Own(w)]
    /\ Goto(w, IF w \in BareWorkers THEN "naming" ELSE "burying")
    /\ UNCHANGED <<tenant, claims, letters, open, seen, move, runs>>

(* terminalDurable: the record goes where the tenant's app will look.       *)
TerminalDurable(w) ==
    /\ pc[w] = "naming"
    /\ target' = [target EXCEPT ![w] = IF named THEN "scoped" ELSE "bare"]
    /\ Goto(w, "burying")
    /\ UNCHANGED <<tenant, claims, letters, open, seen, move, runs>>

(* The statement and its commit (its snapshot is Delivery's business).      *)
DeadLetter(w) ==
    LET n == target[w] IN
    /\ pc[w] = "burying"
    /\ open[n] = None
    /\ n = "scoped" => ~twin.claim
    /\ claims' = IF claims[n].live THEN claims
                 ELSE [claims EXCEPT ![n] = Claim(0)]
    /\ letters' = [letters EXCEPT ![n] =
                      @ \/ ~claims[n].live \/ claims[n].owed > 0]
    /\ Goto(w, "idle")
    /\ Forget(w)
    /\ UNCHANGED <<tenant, open, move, runs>>

----------------------------------------------------------------------------
(* MoveLedger: one transaction.                                             *)

(* holdTenants: tried for, never waited for.                                *)
HoldTenants ==
    /\ mover = "idle"
    /\ ~Shared
    /\ mover' = "held"
    /\ UNCHANGED <<tenant, claims, letters, open, pc, local, from, src, twin,
                   runs>>

(* ledgerDurables: bare rows of a tenant the app holds.                     *)
LedgerDurables ==
    /\ mover = "held"
    /\ from' = (named /\ (claims["bare"].live \/ letters["bare"]))
    /\ mover' = "found"
    /\ UNCHANGED <<tenant, claims, letters, open, pc, local, src, twin, runs>>

(* Mutant: nobody asks what the claims owe.                                 *)
ClaimsOwingUnasked ==
    /\ mover = "found"
    /\ mover' = "owing"
    /\ UNCHANGED <<tenant, claims, letters, open, pc, local, from, src, twin,
                   runs>>

(* Mutant: every claim is taken for an owing one.                           *)
ClaimsOwingAll ==
    /\ mover = "found"
    /\ ~(named /\ claims["bare"].live)
    /\ mover' = "owing"
    /\ UNCHANGED <<tenant, claims, letters, open, pc, local, from, src, twin,
                   runs>>

(* claimsOwing: a claim that owes an effect does not change hands.          *)
ClaimsOwing ==
    /\ mover = "found"
    /\ ~(named /\ claims["bare"].live /\ claims["bare"].owed > 0)
    /\ mover' = "owing"
    /\ UNCHANGED <<tenant, claims, letters, open, pc, local, from, src, twin,
                   runs>>

(* Mutant: the set deleted is not the set copied.                           *)
RenameClaimsUncopied ==
    /\ mover = "owing"
    /\ src' = [src EXCEPT !.claim = from /\ named /\ claims["bare"].live]
    /\ mover' = "claims"
    /\ UNCHANGED <<tenant, claims, letters, open, pc, local, from, twin, runs>>

(* renameLedger of the claims: copy what is read, unless a twin is there,   *)
(* and delete what was copied.  The copy waits for an uncommitted twin.     *)
RenameClaims ==
    LET moves == from /\ named /\ claims["bare"].live IN
    /\ mover = "owing"
    /\ moves => open["scoped"] = None
    /\ src' = [src EXCEPT !.claim = moves]
    /\ twin' = [twin EXCEPT !.claim = moves /\ ~claims["scoped"].live]
    /\ mover' = "claims"
    /\ UNCHANGED <<tenant, claims, letters, open, pc, local, from, runs>>

(* renameLedger of the dead letters.                                        *)
RenameLetters ==
    LET moves == from /\ named /\ letters["bare"] IN
    /\ mover = "claims"
    /\ src' = [src EXCEPT !.letter = moves]
    /\ twin' = [twin EXCEPT !.letter = moves /\ ~letters["scoped"]]
    /\ mover' = "letters"
    /\ UNCHANGED <<tenant, claims, letters, open, pc, local, from, runs>>

NotMoving ==
    /\ mover' = "idle"
    /\ from' = FALSE
    /\ src' = [claim |-> FALSE, letter |-> FALSE]
    /\ twin' = [claim |-> FALSE, letter |-> FALSE]

(* unscopedRemains: no bare row of the app's tenants may be left over.      *)
UnscopedRemains ==
    /\ mover = "letters"
    /\ named => /\ claims["bare"].live => src.claim
                /\ letters["bare"] => src.letter
    /\ mover' = "checked"
    /\ UNCHANGED <<tenant, claims, letters, open, pc, local, from, src, twin,
                   runs>>

(* The commit; the app's worker opens its consumers after its first.        *)
MoveCommits ==
    /\ mover = "checked"
    /\ claims' = [n \in Names |->
          CASE n = "bare" /\ src.claim    -> NoClaim
            [] n = "scoped" /\ twin.claim -> [claims["bare"] EXCEPT !.owed = 0]
            [] OTHER                      -> claims[n]]
    /\ letters' = [n \in Names |->
          IF n = "bare" THEN letters[n] /\ ~src.letter
          ELSE letters[n] \/ twin.letter]
    /\ consuming' = TRUE
    /\ NotMoving
    /\ UNCHANGED <<named, placer, serving, window, open, pc, local, runs>>

(* A contended durable, an owing claim, a row left over or a failed         *)
(* statement: nothing is written and the worker asks again.                 *)
MoveRefused ==
    /\ mover # "idle"
    /\ NotMoving
    /\ UNCHANGED <<tenant, claims, letters, open, pc, local, runs>>

Effects == IF Defers THEN {0, 1} ELSE {0}

Step(w) ==
    \/ HoldsTenant(w)
    \/ DeclareTenant(w)
    \/ HoldsUnscoped(w)
    \/ InsertClaim(w)
    \/ ReadConflict(w)
    \/ LockConflict(w)
    \/ \E effects \in Effects : CommitHandler(w, effects)
    \/ \E ok \in BOOLEAN : RunEffect(w, ok)
    \/ MarkEffectRun(w)
    \/ ReleaseClaim(w)
    \/ DeclareDead(w)
    \/ TerminalDurable(w)
    \/ DeadLetter(w)
    \/ Abandon(w)

Moves ==
    \/ HoldTenants
    \/ LedgerDurables
    \/ ClaimsOwing
    \/ RenameClaims
    \/ RenameLetters
    \/ UnscopedRemains
    \/ MoveCommits
    \/ MoveRefused

Next ==
    \/ Place
    \/ \E commits \in BOOLEAN : PlaceEnds(commits)
    \/ BareStops
    \/ Moves
    \/ \E w \in Workers :
          \/ \E exhausted \in BOOLEAN : Receive(w, exhausted)
          \/ Step(w)

Spec == Init /\ [][Next]_vars

(* A delivery, a placement and a move end, by a timeout if nothing else; the*)
(* rollout stops the deployment without an app; the move is asked for again *)
(* every few seconds, and a statement of it that can succeed again and      *)
(* again does so some day.                                                  *)
Fairness ==
    /\ \A w \in Workers : WF_vars(Step(w))
    /\ WF_vars(\E commits \in BOOLEAN : PlaceEnds(commits))
    /\ WF_vars(BareStops)
    /\ WF_vars(Moves)
    /\ SF_vars(HoldTenants)
    /\ SF_vars(LedgerDurables)
    /\ SF_vars(ClaimsOwing)
    /\ SF_vars(RenameClaims)
    /\ SF_vars(RenameLetters)
    /\ SF_vars(UnscopedRemains)
    /\ SF_vars(MoveCommits)

FairSpec == Spec /\ Fairness

----------------------------------------------------------------------------
(* Properties.                                                              *)

(* The shape of the rows, of the locks and of every worker's own state; a   *)
(* count stays within what was deferred.                                    *)
TypeOK ==
    /\ named \in BOOLEAN
    /\ placer \in {"idle", "placing"}
    /\ claims \in [Names -> [live : BOOLEAN, owed : 0..1, due : 0..1]]
    /\ letters \in [Names -> BOOLEAN]
    /\ open \in [Names -> Workers \cup {None}]
    /\ pc \in [Workers -> Phases]
    /\ target \in [Workers -> Names]
    /\ seen \in [Workers -> SUBSET Names]
    /\ mover \in MovePhases
    /\ from \in BOOLEAN
    /\ src \in [claim : BOOLEAN, letter : BOOLEAN]
    /\ twin \in [claim : BOOLEAN, letter : BOOLEAN]
    /\ serving \in BOOLEAN
    /\ consuming \in BOOLEAN
    /\ window \in BOOLEAN
    /\ runs \in Int

(* "One tenant can be served under two [durables]" and a delivery asks both *)
(* (kit/events/README.md, Limits): taking an app name runs no handler a     *)
(* second time, except in the one window the Limits leave open, a claim     *)
(* under the bare name still uncommitted when its tenant is placed under an *)
(* app whose consumers already run; and no third time even then.            *)
HandledOnceUnderBothNames == runs <= IF window THEN 2 ELSE 1

(* A claim that owes nothing under either name has nothing outstanding: the *)
(* rename never pays a debt by moving it (MoveLedger, claimsOwing).         *)
DebtNotMoved ==
    \A n \in Names : claims[n].live /\ claims[n].owed <= 0 => claims[n].due = 0

(* A committed mark that would end a redelivery, under some name.           *)
Finished == \E n \in Names : (claims[n].live /\ claims[n].owed <= 0) \/ letters[n]

(* The mark of finished work is never lost to a move (renameLedger): once a *)
(* claim that owes nothing or a letter is committed under some name, one is *)
(* there under some name ever after, unless that same window let two claims *)
(* be.                                                                      *)
MarkKept == [][Finished /\ ~window => Finished']_vars

(* A move that went through leaves the tenant's app nothing under the bare  *)
(* name.                                                                    *)
NothingLeftBare ==
    [][MoveCommits /\ named => ~claims'["bare"].live /\ ~letters'["bare"]]_vars

(* A boot that names its app opens its consumers in the end (kit/app,       *)
(* moveLedger), and the one thing that keeps it waiting is a claim under    *)
(* the bare name that owes its effect for good (claimsOwing): never a lock, *)
(* a row left over, a delivery, or a placement that came or went meanwhile. *)
BootOpensUnlessOwed ==
    <>consuming \/ <>[](claims["bare"].live /\ claims["bare"].owed > 0)

=============================================================================
