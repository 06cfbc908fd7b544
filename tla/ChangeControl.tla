--------------------------- MODULE ChangeControl ---------------------------
(***************************************************************************)
(* Change control (modules/change): a change to a row is proposed by one   *)
(* person, decided by another and applied once, on the revision it was     *)
(* made against.                                                           *)
(*                                                                         *)
(* Every command is one database transaction that takes its locks one by   *)
(* one: the proposal's row (open), the subject's row (Subject.Lock), the   *)
(* tenant's receipt-set lock and the receipts (LockReceipts).  What a      *)
(* command writes is seen by the others when it commits.  PurgeAt, which   *)
(* takes the receipt-set lock too, runs beside the commands, and so do     *)
(* writes to the subject that need no proposal.                            *)
(*                                                                         *)
(* One subject is followed.  A document is the set of diffs it holds.  A   *)
(* tenant that never saved its site has no settings row: then the locked   *)
(* read locks nothing and answers revision 0 (SettingsForUpdate).          *)
(***************************************************************************)
EXTENDS Naturals, FiniteSets

CONSTANTS
    Persons,       \* the accounts that send commands
    Slots,         \* the transactions that may be open at once
    Nobody,        \* no person, no lock holder
    Purger,        \* the lock holder that is PurgeAt
    Diffs,         \* the changes that are proposed
    Tracked,       \* the commands that are admitted with a receipt
    Rowless,       \* whether the subject's row may be missing at first
    MaxProposals,  \* bound: proposals
    MaxCommands,   \* bound: commands
    MaxEdits       \* bound: the revision up to which others write the subject

ASSUME PeopleAssumption == Nobody \notin Persons \cup Slots \cup {Purger} /\ Purger \notin Slots
ASSUME ChangeBounds ==
    /\ Rowless \in BOOLEAN /\ Tracked \subseteq 1..MaxCommands
    /\ MaxProposals \in Nat \ {0} /\ MaxCommands \in Nat \ {0} /\ MaxEdits \in Nat

(* The transactions open at once are the connections of the pools.         *)
ASSUME SlotsAssumption == IsFiniteSet(Slots)

VARIABLES
    proposal,   \* change_proposals
    subject,    \* the subject's row: does it exist, its revision, its document
    receipt,    \* platformkit_operations: the outcome of each receipt
    cmd,        \* the commands' transactions
    purge,      \* PurgeAt's transaction
    rowLock, subjectLock, setLock, receiptLock,   \* who holds which lock
    begun       \* bound: how many commands began

locks == <<rowLock, subjectLock, setLock, receiptLock>>
vars == <<proposal, subject, receipt, cmd, purge, locks, begun>>

Ids == 1..MaxProposals
Refs == 1..MaxCommands
MaxRevision == MaxEdits + MaxProposals + 1
NoRef == 0
NoId == 0
OpenStates == {"proposed", "approved"}
Holders == Slots \cup {Nobody}

Absent == [state |-> "absent", diff |-> {}, base |-> 0, proposer |-> Nobody,
           reviewer |-> Nobody, verdict |-> "", origin |-> NoRef, revision |-> 0]
Proposals == [state : OpenStates \cup {"declined", "withdrawn", "applied"},
              diff : {{d} : d \in Diffs}, base : 0..MaxRevision, proposer : Persons,
              reviewer : Persons \cup {Nobody}, verdict : {"", "approved", "declined"},
              origin : 0..MaxCommands, revision : 1..3] \cup {Absent}

Idle == [op |-> "none", pc |-> "idle", who |-> Nobody, id |-> NoId, diff |-> {},
         verdict |-> "", own |-> NoRef, revision |-> 0, doc |-> {}]
Commands == [op : {"propose", "review", "apply", "withdraw"},
             pc : {"lock", "insert", "collided", "set", "receipts", "save", "create", "commit"},
             who : Persons, id : 0..MaxProposals, diff : SUBSET Diffs,
             verdict : {"", "approved", "declined"}, own : 0..MaxCommands,
             revision : 0..MaxRevision, doc : SUBSET Diffs] \cup {Idle}

TypeOK ==
    /\ proposal \in [Ids -> Proposals]
    /\ subject \in [exists : BOOLEAN, revision : 0..MaxRevision, doc : SUBSET Diffs]
    /\ receipt \in [Refs -> {"none", "admitted", "pending", "succeeded", "failed", "purged"}]
    /\ cmd \in [Slots -> Commands]
    /\ purge \subseteq Refs
    /\ rowLock \in [Ids -> Holders] /\ subjectLock \in Holders
    /\ setLock \in Holders \cup {Purger} /\ receiptLock \in [Refs -> Holders \cup {Purger}]
    /\ begun \in 0..MaxCommands

Init ==
    /\ proposal = [p \in Ids |-> Absent]
    /\ \E row \in {TRUE, ~Rowless} :
         subject = [exists |-> row, revision |-> IF row THEN 1 ELSE 0, doc |-> {}]
    /\ receipt = [r \in Refs |-> "none"]
    /\ cmd = [c \in Slots |-> Idle]
    /\ purge = {}
    /\ rowLock = [p \in Ids |-> Nobody] /\ subjectLock = Nobody
    /\ setLock = Nobody /\ receiptLock = [r \in Refs |-> Nobody]
    /\ begun = 0

-----------------------------------------------------------------------------
(* Rows, and what the partial unique index over open proposals answers.    *)

Open(p) == proposal[p].state \in OpenStates

(* Mutant: an index, and a duplicate check, over undecided proposals only. *)
DuplicatesProposed(d) == {p \in Ids : proposal[p].state = "proposed" /\ proposal[p].diff = d}

(* openDuplicate: the committed open proposals of the same bytes.          *)
Duplicates(d) == {p \in Ids : Open(p) /\ proposal[p].diff = d}

(* Mutant: Apply writes the row's state before it locks the subject.       *)
UndecidedEarly(c, d) ==
    \E o \in Slots \ {c} :
       \/ cmd[o].op = "propose" /\ cmd[o].pc = "commit" /\ cmd[o].diff = d
       \/ /\ \/ cmd[o].op = "apply"
             \/ /\ cmd[o].op = "withdraw" \/ cmd[o].verdict = "declined"
                /\ cmd[o].pc \in {"set", "receipts", "commit"}
          /\ proposal[cmd[o].id].diff = d

(* A transaction that has inserted a proposal, or moved one out of the     *)
(* index, and has not committed: an insert of the same bytes waits for it. *)
Undecided(c, d) ==
    \E o \in Slots \ {c} :
       \/ cmd[o].op = "propose" /\ cmd[o].pc = "commit" /\ cmd[o].diff = d
       \/ /\ \/ cmd[o].op = "apply" /\ cmd[o].pc = "commit"
             \/ /\ cmd[o].op = "withdraw" \/ cmd[o].verdict = "declined"
                /\ cmd[o].pc \in {"set", "receipts", "commit"}
          /\ proposal[cmd[o].id].diff = d

-----------------------------------------------------------------------------
(* Transactions.                                                           *)

At(c, op, pc) == cmd[c].op = op /\ cmd[c].pc = pc
Goto(c, pc) == cmd' = [cmd EXCEPT ![c].pc = pc]

(* The end of a transaction: every lock it holds is released.              *)
Release(c) ==
    /\ cmd' = [cmd EXCEPT ![c] = Idle]
    /\ rowLock' = [p \in Ids |-> IF rowLock[p] = c THEN Nobody ELSE rowLock[p]]
    /\ subjectLock' = IF subjectLock = c THEN Nobody ELSE subjectLock
    /\ setLock' = IF setLock = c THEN Nobody ELSE setLock
    /\ receiptLock' = [r \in Refs |-> IF receiptLock[r] = c THEN Nobody ELSE receiptLock[r]]

(* What the request records on its own receipt, if it was admitted with    *)
(* one (finishOperation, failedOperation).                                 *)
Own(c, outcome) ==
    receipt' = [r \in Refs |-> IF r = cmd[c].own THEN outcome ELSE receipt[r]]

(* A command that writes nothing: the row as it stands, or a refusal.      *)
Answer(c, outcome) == Own(c, outcome) /\ Release(c) /\ UNCHANGED <<proposal, subject>>
Refuse(c) == Answer(c, "failed")

(* The process dies, or the connection goes: nothing of it is kept, and    *)
(* its receipt stays as admission left it.                                 *)
Crash(c) ==
    /\ cmd[c].op # "none"
    /\ Release(c)
    /\ UNCHANGED <<proposal, subject, receipt, purge, begun>>

(* A request is admitted, with a receipt of its own or, where admission    *)
(* tracks none, without.  It either opens a transaction that goes on, or   *)
(* is answered at once.                                                    *)
Admission == IF begun + 1 \in Tracked THEN begun + 1 ELSE NoRef

Admits(c) == cmd[c] = Idle /\ begun < MaxCommands /\ begun' = begun + 1

Enter(c, fields) ==
    /\ cmd' = [cmd EXCEPT ![c] = [fields EXCEPT !.own = Admission]]
    /\ receipt' = [r \in Refs |-> IF r = Admission THEN "admitted" ELSE receipt[r]]

Reply(outcome) ==
    /\ receipt' = [r \in Refs |-> IF r = Admission THEN outcome ELSE receipt[r]]
    /\ UNCHANGED <<cmd, rowLock>>

-----------------------------------------------------------------------------
(* Propose.                                                                *)

(* oneOpinion: the author gets the row that is there, anybody else is      *)
(* refused.                                                                *)
OneOpinion(who, existing) ==
    IF \E p \in existing : proposal[p].proposer = who THEN "succeeded" ELSE "failed"

(* The duplicate that is visible before anything is locked.                *)
Propose(c) ==
    /\ Admits(c)
    /\ Cardinality({p \in Ids : proposal[p] # Absent})
         + Cardinality({o \in Slots : cmd[o].op = "propose"}) < MaxProposals
    /\ \E who \in Persons, d \in Diffs :
         \/ Duplicates({d}) # {} /\ Reply(OneOpinion(who, Duplicates({d})))
         \/ /\ Duplicates({d}) = {}
            /\ Enter(c, [Idle EXCEPT !.op = "propose", !.pc = "lock", !.who = who, !.diff = {d}])
            /\ UNCHANGED rowLock
    /\ UNCHANGED <<proposal, subject, purge, subjectLock, setLock, receiptLock>>

(* Mutant: the revision is compared with itself, once the row is locked.   *)
LockAnyBase(c) ==
    /\ cmd[c].pc = "lock"
    /\ subject.exists => subjectLock = Nobody
    /\ subjectLock' = IF subject.exists THEN c ELSE subjectLock
    /\ cmd' = [cmd EXCEPT ![c].revision = subject.revision, ![c].doc = subject.doc,
                          ![c].pc = IF cmd[c].op = "propose" THEN "insert" ELSE "set"]
    /\ UNCHANGED <<proposal, subject, receipt, purge, rowLock, setLock, receiptLock, begun>>

(* Subject.Lock: the row is locked and its revision and document are read. *)
(* A subject without a row has nothing to lock.                            *)
Lock(c) ==
    /\ cmd[c].pc = "lock"
    /\ subject.exists => subjectLock = Nobody
    /\ subjectLock' = IF subject.exists THEN c ELSE subjectLock
    /\ LET read == [cmd[c] EXCEPT !.revision = subject.revision, !.doc = subject.doc]
       IN  \/ /\ cmd[c].op = "propose"
              /\ cmd' = [cmd EXCEPT ![c] = [read EXCEPT !.pc = "insert"]]
           \/ /\ cmd[c].op = "apply" /\ subject.revision = proposal[cmd[c].id].base
              /\ cmd' = [cmd EXCEPT ![c] = [read EXCEPT !.pc = "set"]]
    /\ UNCHANGED <<proposal, subject, receipt, purge, rowLock, setLock, receiptLock, begun>>

(* ErrStaleBase: nothing is written, the proposal stays approved.          *)
StaleBase(c) ==
    /\ At(c, "apply", "lock")
    /\ subject.exists => subjectLock = Nobody
    /\ subject.revision # proposal[cmd[c].id].base
    /\ Refuse(c)
    /\ UNCHANGED <<purge, begun>>

(* insert, in a savepoint: the unique index lets one open proposal of the  *)
(* same bytes through.                                                     *)
Insert(c) ==
    /\ At(c, "propose", "insert")
    /\ ~Undecided(c, cmd[c].diff)
    /\ \/ Duplicates(cmd[c].diff) # {} /\ Goto(c, "collided")
       \/ /\ Duplicates(cmd[c].diff) = {}
          /\ \E p \in Ids : /\ proposal[p] = Absent
                            /\ \A o \in Slots : cmd[o].id # p
                            /\ cmd' = [cmd EXCEPT ![c].pc = "commit", ![c].id = p]
    /\ UNCHANGED <<proposal, subject, receipt, locks, purge, begun>>

(* The loser reads the winner's row; when that has left the index since,   *)
(* the conflict itself is the answer.                                      *)
Collided(c) ==
    /\ At(c, "propose", "collided")
    /\ Answer(c, OneOpinion(cmd[c].who, Duplicates(cmd[c].diff)))
    /\ UNCHANGED <<purge, begun>>

(* The row and the outcome of the receipt, which is deferred: it waits for *)
(* the decision.                                                           *)
CommitPropose(c) ==
    /\ At(c, "propose", "commit")
    /\ proposal' = [proposal EXCEPT ![cmd[c].id] =
         [state |-> "proposed", diff |-> cmd[c].diff, base |-> cmd[c].revision,
          proposer |-> cmd[c].who, reviewer |-> Nobody, verdict |-> "",
          origin |-> cmd[c].own, revision |-> 1]]
    /\ Own(c, "pending")
    /\ Release(c)
    /\ UNCHANGED <<subject, purge, begun>>

-----------------------------------------------------------------------------
(* Review, Apply, Withdraw.                                                *)

(* open: the row lock, then the revision the sender decided about, which   *)
(* is one it once read.  An actor who is entitled goes on when the state   *)
(* of the row allows it, and gets the row as it stands when the command is *)
(* one that was carried out already; anything else is refused.             *)
OpenRow(c, fields, entitled, allowed, repeated) ==
    /\ Admits(c) /\ rowLock[fields.id] = Nobody
    /\ \E expected \in 1..proposal[fields.id].revision :
         LET fresh == expected = proposal[fields.id].revision
         IN  \/ /\ fresh /\ entitled /\ allowed
                /\ Enter(c, fields)
                /\ rowLock' = [rowLock EXCEPT ![fields.id] = c]
             \/ /\ ~(fresh /\ entitled /\ allowed)
                /\ Reply(IF fresh /\ entitled /\ repeated THEN "succeeded" ELSE "failed")
    /\ UNCHANGED <<proposal, subject, purge, subjectLock, setLock, receiptLock>>

(* Mutant: an approved proposal, which is still open, is decided again.    *)
ReviewOpen(c) ==
    \E who \in Persons, p \in Ids, v \in {"approved", "declined"} :
       LET row == proposal[p]
       IN  OpenRow(c, [Idle EXCEPT !.op = "review", !.who = who, !.id = p, !.verdict = v,
                                   !.pc = IF v = "approved" THEN "commit" ELSE "set"],
                   who # row.proposer,
                   Open(p) /\ ~(row.verdict = v /\ row.reviewer = who),
                   row.verdict = v /\ row.reviewer = who)

(* Only a verdict that ends the original intent goes through original.     *)
Review(c) ==
    \E who \in Persons, p \in Ids, v \in {"approved", "declined"} :
       LET row == proposal[p]
       IN  OpenRow(c, [Idle EXCEPT !.op = "review", !.who = who, !.id = p, !.verdict = v,
                                   !.pc = IF v = "approved" THEN "commit" ELSE "set"],
                   who # row.proposer,
                   row.state = "proposed",
                   row.verdict = v /\ row.reviewer = who)

Apply(c) ==
    \E who \in Persons, p \in Ids :
       LET row == proposal[p]
       IN  OpenRow(c, [Idle EXCEPT !.op = "apply", !.who = who, !.id = p, !.pc = "lock"],
                   who # row.proposer, row.state = "approved", row.state = "applied")

Withdraw(c) ==
    \E who \in Persons, p \in Ids :
       LET row == proposal[p]
       IN  OpenRow(c, [Idle EXCEPT !.op = "withdraw", !.who = who, !.id = p, !.pc = "set"],
                   who = row.proposer, Open(p), row.state = "withdrawn")

(* LockReceipts: the tenant's set lock when there are two receipts, then   *)
(* each of them in the order of its reference.  A proposal without an      *)
(* origin needs none.                                                      *)
RefsOf(c) ==
    IF proposal[cmd[c].id].origin = NoRef THEN {}
    ELSE {proposal[cmd[c].id].origin, cmd[c].own} \ {NoRef}

(* Mutant: the set is locked behind the first of its receipts.             *)
LockSetLast(c) ==
    LET first == CHOOSE r \in RefsOf(c) : \A o \in RefsOf(c) : r <= o
    IN  /\ cmd[c].pc = "set"
        /\ IF Cardinality(RefsOf(c)) > 1 /\ receiptLock[first] # c
           THEN /\ receiptLock[first] = Nobody
                /\ receiptLock' = [receiptLock EXCEPT ![first] = c]
                /\ UNCHANGED <<cmd, setLock>>
           ELSE /\ IF Cardinality(RefsOf(c)) > 1
                   THEN setLock = Nobody /\ setLock' = c
                   ELSE UNCHANGED setLock
                /\ Goto(c, "receipts")
                /\ UNCHANGED receiptLock
    /\ UNCHANGED <<proposal, subject, receipt, purge, rowLock, subjectLock, begun>>

LockSet(c) ==
    /\ cmd[c].pc = "set"
    /\ IF Cardinality(RefsOf(c)) > 1
       THEN setLock = Nobody /\ setLock' = c
       ELSE UNCHANGED setLock
    /\ Goto(c, "receipts")
    /\ UNCHANGED <<proposal, subject, receipt, purge, rowLock, subjectLock, receiptLock, begun>>

(* With the receipts locked, original completes the one the proposal came  *)
(* from; one that is gone or decided already refuses the command.          *)
Completable(c) ==
    LET origin == proposal[cmd[c].id].origin
    IN  origin # NoRef => receipt[origin] = "pending"

LockReceipts(c) ==
    /\ cmd[c].pc = "receipts"
    /\ \E r \in RefsOf(c) :
         /\ receiptLock[r] = Nobody
         /\ \A o \in RefsOf(c) : receiptLock[o] = c \/ r <= o
         /\ receiptLock' = [receiptLock EXCEPT ![r] = c]
    /\ UNCHANGED <<proposal, subject, receipt, cmd, purge, rowLock, subjectLock, setLock, begun>>

Original(c) ==
    /\ cmd[c].pc = "receipts"
    /\ \A r \in RefsOf(c) : receiptLock[r] = c
    /\ IF Completable(c)
       THEN /\ Goto(c, IF cmd[c].op = "apply" THEN "save" ELSE "commit")
            /\ UNCHANGED <<proposal, subject, receipt, locks>>
       ELSE Refuse(c)
    /\ UNCHANGED <<purge, begun>>

(* Subject.Save: the row is read again, FOR UPDATE.  Where there is one it *)
(* is updated; where there is none it is created, and the unique index     *)
(* lets one of two creations through.                                      *)
Save(c) ==
    /\ At(c, "apply", "save")
    /\ subject.exists => subjectLock \in {Nobody, c}
    /\ subjectLock' = IF subject.exists THEN c ELSE subjectLock
    /\ Goto(c, IF subject.exists THEN "commit" ELSE "create")
    /\ UNCHANGED <<proposal, subject, receipt, purge, rowLock, setLock, receiptLock, begun>>

Create(c) ==
    /\ At(c, "apply", "create") /\ subjectLock = Nobody
    /\ \/ /\ ~subject.exists /\ subjectLock' = c /\ Goto(c, "commit")
          /\ UNCHANGED <<proposal, subject, receipt, rowLock, setLock, receiptLock>>
       \/ subject.exists /\ Refuse(c)
    /\ UNCHANGED <<purge, begun>>

(* The document that was read, with the diff merged in; a save that moves  *)
(* nothing moves no revision.                                              *)
Merged(c) == cmd[c].doc \cup proposal[cmd[c].id].diff

Saved(doc) ==
    IF subject.exists /\ doc = subject.doc THEN subject
    ELSE [exists |-> TRUE, revision |-> subject.revision + 1, doc |-> doc]

(* The row the command leaves, and what it means for the original intent.  *)
Decided(c) ==
    LET next == [proposal[cmd[c].id] EXCEPT !.revision = @ + 1]
    IN  CASE cmd[c].op = "review" ->
               [next EXCEPT !.state = cmd[c].verdict, !.verdict = cmd[c].verdict, !.reviewer = cmd[c].who]
          [] cmd[c].op = "apply" -> [next EXCEPT !.state = "applied"]
          [] cmd[c].op = "withdraw" -> [next EXCEPT !.state = "withdrawn"]

Ending(c) == CASE cmd[c].op = "apply" -> "succeeded"
               [] cmd[c].op = "review" /\ cmd[c].verdict = "approved" -> "pending"
               [] OTHER -> "failed"

Commit(c) ==
    /\ cmd[c].pc = "commit" /\ cmd[c].op # "propose"
    /\ proposal' = [proposal EXCEPT ![cmd[c].id] = Decided(c)]
    /\ subject' = IF cmd[c].op = "apply" THEN Saved(Merged(c)) ELSE subject
    /\ receipt' = [r \in Refs |->
          CASE r = cmd[c].own -> "succeeded"
            [] r = proposal[cmd[c].id].origin -> Ending(c)
            [] OTHER -> receipt[r]]
    /\ Release(c)
    /\ UNCHANGED <<purge, begun>>

-----------------------------------------------------------------------------
(* What else happens.                                                      *)

(* A write of the subject that no proposal is needed for.                  *)
Edit ==
    /\ subjectLock = Nobody /\ subject.revision <= MaxEdits
    /\ \E doc \in SUBSET Diffs : doc # subject.doc /\ subject' = Saved(doc)
    /\ UNCHANGED <<proposal, receipt, cmd, purge, locks, begun>>

(* Mutant: retention counts for every receipt that has an outcome.         *)
ExpiredPending(r) == receipt[r] \in {"pending", "succeeded", "failed"}

Expired(r) == receipt[r] \in {"succeeded", "failed"}

(* PurgeAt, over the receipts whose record is past retention: none of a    *)
(* request that still runs.  The set lock first, then each receipt; the    *)
(* ones with a terminal outcome are deleted, all in one transaction.  (One *)
(* that finds nothing to delete is left out.)                              *)
PurgeBegin ==
    /\ purge = {} /\ setLock = Nobody
    /\ \E old \in SUBSET {r \in Refs : /\ receipt[r] \in {"pending", "succeeded", "failed"}
                                      /\ \A c \in Slots : cmd[c].own # r} :
         (\E r \in old : Expired(r)) /\ purge' = old
    /\ setLock' = Purger
    /\ UNCHANGED <<proposal, subject, receipt, cmd, rowLock, subjectLock, receiptLock, begun>>

PurgeLock ==
    /\ \E r \in purge :
         receiptLock[r] = Nobody /\ receiptLock' = [receiptLock EXCEPT ![r] = Purger]
    /\ UNCHANGED <<proposal, subject, receipt, cmd, purge, rowLock, subjectLock, setLock, begun>>

PurgeCommit ==
    /\ purge # {} /\ \A r \in purge : receiptLock[r] = Purger
    /\ receipt' = [r \in Refs |-> IF r \in purge /\ Expired(r) THEN "purged" ELSE receipt[r]]
    /\ purge' = {} /\ setLock' = Nobody
    /\ receiptLock' = [r \in Refs |-> IF r \in purge THEN Nobody ELSE receiptLock[r]]
    /\ UNCHANGED <<proposal, subject, cmd, rowLock, subjectLock, begun>>

-----------------------------------------------------------------------------
Step(c) ==
    \/ Lock(c) \/ StaleBase(c) \/ Insert(c) \/ Collided(c) \/ CommitPropose(c)
    \/ LockSet(c) \/ LockReceipts(c) \/ Original(c)
    \/ Save(c) \/ Create(c) \/ Commit(c)

Next ==
    \/ \E c \in Slots : Propose(c) \/ Review(c) \/ Apply(c) \/ Withdraw(c) \/ Step(c) \/ Crash(c)
    \/ Edit \/ PurgeBegin \/ PurgeLock \/ PurgeCommit

Spec == Init /\ [][Next]_vars

-----------------------------------------------------------------------------
(* Properties.                                                             *)

(* The receipt of the request that proposed a change follows the proposal  *)
(* until it is purged: it waits for the decision as long as the proposal   *)
(* is open (and is never purged before), has succeeded only when the       *)
(* change is applied and has failed when it was declined or withdrawn      *)
(* (Propose's DeferOperation, original).                                   *)
OriginFollows ==
    \A p \in Ids :
       LET row == proposal[p]
       IN  row.origin # NoRef =>
             receipt[row.origin] \in
               CASE Open(p) -> {"pending"}
                 [] row.state = "applied" -> {"succeeded", "purged"}
                 [] OTHER -> {"failed", "purged"}

(* However two people's submits interleave, one open proposal holds the    *)
(* same bytes (the index behind openDuplicate and insert).                 *)
OneOpinionOpen == \A p, q \in Ids : p # q /\ Open(p) /\ Open(q) => proposal[p].diff # proposal[q].diff

(* A proposal that becomes applied was approved, by somebody other than    *)
(* its author, and its diff is merged into the document of the revision it *)
(* was made against, which nobody has moved (Apply: the lock, then the     *)
(* staleness question).                                                    *)
AppliesAsReviewed(p) ==
    /\ proposal[p].state = "approved" /\ proposal[p].reviewer # proposal[p].proposer
    /\ subject.revision = proposal[p].base
    /\ subject'.doc = subject.doc \cup proposal[p].diff

BecomesApplied(p) == proposal'[p].state = "applied" /\ proposal[p].state # "applied"

(* It holds of every proposal made against a row.                          *)
AppliedAsReviewed ==
    [][\A p \in Ids : proposal[p].base > 0 /\ BecomesApplied(p) => AppliesAsReviewed(p)]_vars

(* The same of a proposal for a tenant's first save, whose base revision   *)
(* is 0 ("a real base revision", siteSubject.Lock).                        *)
FirstSaveAsReviewed == [][\A p \in Ids : BecomesApplied(p) => AppliesAsReviewed(p)]_vars

(* A verdict is one-way: once given, neither it nor who gave it changes,   *)
(* and a proposal that is over stays as it ended (Review, Withdraw).       *)
VerdictStands ==
    [][\A p \in Ids :
         /\ proposal[p].verdict # "" =>
              <<proposal'[p].verdict, proposal'[p].reviewer>> = <<proposal[p].verdict, proposal[p].reviewer>>
         /\ proposal[p] # Absent /\ ~Open(p) => proposal'[p] = proposal[p]]_vars

(* What each open transaction needs before its next step; an action that   *)
(* is not named here waits for nothing.                                    *)
FreeIds == {p \in Ids : proposal[p] = Absent /\ \A o \in Slots : cmd[o].id # p}

NextReceipt(c, r) ==
    receiptLock[r] = Nobody /\ \A o \in RefsOf(c) : receiptLock[o] = c \/ r <= o

CanGo(c) ==
    \/ cmd[c].pc = "lock" /\ (subject.exists => subjectLock = Nobody)
    \/ /\ At(c, "propose", "insert") /\ ~Undecided(c, cmd[c].diff)
       /\ Duplicates(cmd[c].diff) # {} \/ FreeIds # {}
    \/ cmd[c].pc = "set" /\ (Cardinality(RefsOf(c)) > 1 => setLock = Nobody)
    \/ cmd[c].pc = "receipts" /\ \E r \in RefsOf(c) : NextReceipt(c, r)
    \/ cmd[c].pc = "receipts" /\ \A r \in RefsOf(c) : receiptLock[r] = c
    \/ At(c, "apply", "save") /\ (subject.exists => subjectLock \in {Nobody, c})
    \/ At(c, "apply", "create") /\ subjectLock = Nobody
    \/ cmd[c].pc \in {"collided", "commit"}

PurgeCanGo ==
    \/ \E r \in purge : receiptLock[r] = Nobody
    \/ purge # {} /\ \A r \in purge : receiptLock[r] = Purger

(* An apply that found no row to lock, has taken its receipts, and meets a *)
(* row that somebody else made since: it asks for the subject after the    *)
(* receipts, against the order LockReceipts states ("orders receipt locks  *)
(* after the owner's domain locks", kit/idempotency/operations.go).        *)
Overtaken ==
    \E c \in Slots : cmd[c].pc \in {"save", "create"} /\ subject.exists /\ subjectLock # c

(* No set of transactions waits for one another, whether two commands (a   *)
(* propose holds the subject and waits for the index, an apply holds the   *)
(* proposal and waits for the subject) or several and PurgeAt: as long as  *)
(* one is open, one of them can go on, unless an apply is overtaken.       *)
SomeoneGoesOn ==
    (\E c \in Slots : cmd[c] # Idle) \/ purge # {} =>
       (\E c \in Slots : CanGo(c)) \/ PurgeCanGo \/ Overtaken

=============================================================================
