------------------------- MODULE ChangeControlProofs -------------------------
(* Proofs about ChangeControl, for any people, any number of transactions   *)
(* open at once and any number of proposals, commands and other writes.     *)
EXTENDS ChangeControl, FiniteSetTheorems, TLAPS

AppliedIds == {p \in Ids : proposal[p].state = "applied"}

(* The row counts its decisions, and whoever approved it is not its author. *)
RowInv ==
    \A p \in Ids :
        /\ proposal[p].state = "proposed" => proposal[p].revision = 1 /\ proposal[p].verdict = ""
        /\ proposal[p].state = "approved" =>
              proposal[p].revision = 2 /\ proposal[p].reviewer # proposal[p].proposer

(* A subject without a row is at revision 0; each revision after the first  *)
(* is another's write or a proposal applied.                                *)
SubjectInv ==
    /\ subject.exists <=> subject.revision > 0
    /\ subject.revision <= MaxEdits + 1 + Cardinality(AppliedIds)

(* A command that decides holds the proposal's row, in the state it found.  *)
CmdInv ==
    \A c \in Slots :
        /\ cmd[c].own <= begun
        /\ cmd[c].op \notin {"none", "propose"} =>
              cmd[c].id \in Ids /\ rowLock[cmd[c].id] = c
        /\ cmd[c].op = "propose" =>
              /\ cmd[c].pc \in {"lock", "insert", "collided", "commit"}
              /\ cmd[c].diff \in {{d} : d \in Diffs}
              /\ cmd[c].pc = "commit" => cmd[c].id \in Ids /\ proposal[cmd[c].id] = Absent
        /\ cmd[c].op = "review" =>
              /\ cmd[c].pc \in {"set", "receipts", "commit"}
              /\ cmd[c].verdict \in {"approved", "declined"}
              /\ proposal[cmd[c].id].state = "proposed"
              /\ cmd[c].who # proposal[cmd[c].id].proposer
        /\ cmd[c].op = "apply" =>
              /\ cmd[c].pc \in {"lock", "set", "receipts", "save", "create", "commit"}
              /\ proposal[cmd[c].id].state = "approved"
        /\ cmd[c].op = "withdraw" =>
              /\ cmd[c].pc \in {"set", "receipts", "commit"}
              /\ Open(cmd[c].id)

(* From its staleness question on, an apply holds a subject nobody moves.   *)
ApplyInv ==
    \A c \in Slots : cmd[c].op = "apply" /\ cmd[c].pc # "lock" =>
        /\ cmd[c].pc = "commit" => subjectLock = c
        /\ proposal[cmd[c].id].base > 0 =>
              /\ subjectLock = c
              /\ subject.revision = proposal[cmd[c].id].base
              /\ cmd[c].doc = subject.doc

(* An insert that went through the index has it to itself.                  *)
IndexInv ==
    \A c \in Slots : At(c, "propose", "commit") =>
        /\ \A q \in Ids : Open(q) => proposal[q].diff # cmd[c].diff
        /\ \A o \in Slots \ {c} : At(o, "propose", "commit") =>
              cmd[o].id # cmd[c].id /\ cmd[o].diff # cmd[c].diff

(* A receipt is one request's, and the origin of its own proposal alone.    *)
OriginInv ==
    /\ \A p \in Ids : proposal[p].origin <= begun
    /\ \A p, q \in Ids : p # q /\ proposal[p].origin # NoRef =>
          proposal[p].origin # proposal[q].origin
    /\ \A c \in Slots : cmd[c].own # NoRef =>
          /\ \A p \in Ids : proposal[p].origin # cmd[c].own
          /\ \A o \in Slots \ {c} : cmd[o].own # cmd[c].own

IndInv ==
    /\ TypeOK /\ RowInv /\ SubjectInv /\ CmdInv /\ ApplyInv /\ IndexInv /\ OriginInv
    /\ OneOpinionOpen /\ OriginFollows


----------------------------------------------------------------------------
(* What the type invariant says of each field.                              *)

(* The bounds as numbers. *)
LEMMA Numbers ==
    /\ MaxProposals \in Nat /\ MaxProposals > 0 /\ MaxCommands \in Nat /\ MaxCommands > 0
    /\ MaxEdits \in Nat /\ MaxRevision \in Nat /\ MaxRevision = MaxEdits + MaxProposals + 1
  BY ChangeBounds DEF MaxRevision

(* The fields of a command. *)
LEMMA CommandShape ==
    ASSUME NEW k \in Commands
    PROVE  /\ k.op \in {"none", "propose", "review", "apply", "withdraw"}
           /\ k.verdict \in {"", "approved", "declined"}
           /\ k.op # "none" => k.who \in Persons
           /\ k = Idle <=> k.op = "none"
           /\ k.id \in 0..MaxProposals /\ k.diff \subseteq Diffs /\ k.doc \subseteq Diffs
           /\ k.own \in 0..MaxCommands /\ k.own \in Nat /\ k.revision \in 0..MaxRevision
<1>1. /\ k.id \in 0..MaxProposals /\ k.diff \subseteq Diffs /\ k.doc \subseteq Diffs
      /\ k.own \in 0..MaxCommands /\ k.revision \in 0..MaxRevision
  <2>1. CASE k = Idle
    <3>1. k.id = 0 /\ k.diff = {} /\ k.doc = {} /\ k.own = 0 /\ k.revision = 0
      BY <2>1 DEF Idle, NoId, NoRef
    <3> QED
      BY ONLY <3>1, Numbers
  <2>2. CASE k # Idle
    BY <2>2 DEF Commands
  <2> QED
    BY <2>1, <2>2
<1>2. /\ k.op \in {"none", "propose", "review", "apply", "withdraw"}
      /\ k.verdict \in {"", "approved", "declined"}
      /\ k.op # "none" => k.who \in Persons
      /\ k = Idle <=> k.op = "none"
  <2>1. CASE k = Idle
    <3>1. k.op = "none" /\ k.verdict = ""
      BY <2>1 DEF Idle
    <3> QED
      BY ONLY <2>1, <3>1
  <2>2. CASE k # Idle
    <3>1. /\ k.op \in {"propose", "review", "apply", "withdraw"}
          /\ k.verdict \in {"", "approved", "declined"} /\ k.who \in Persons
      BY <2>2 DEF Commands
    <3> QED
      BY ONLY <2>2, <3>1
  <2> QED
    BY <2>1, <2>2
<1>3. k.own \in Nat
  BY ONLY <1>1, Numbers
<1> QED
  BY <1>1, <1>2, <1>3, Zenon

(* A slot without a command. *)
LEMMA IdleShape ==
    /\ Idle \in Commands /\ Idle.op = "none" /\ Idle.pc = "idle" /\ Idle.own = 0 /\ Idle.id = 0
  BY DEF Commands, Idle, NoId, NoRef

(* The fields of a proposal's row. *)
LEMMA RowShape ==
    ASSUME NEW x \in Proposals
    PROVE  /\ x.state \in {"absent", "proposed", "approved", "declined", "withdrawn", "applied"}
           /\ x.base \in 0..MaxRevision /\ x.base \in Nat
           /\ x.origin \in 0..MaxCommands /\ x.origin \in Nat
           /\ x.revision \in 0..3 /\ x.diff \subseteq Diffs
           /\ x = Absent <=> x.state = "absent"
           /\ x # Absent => x.diff \in {{d} : d \in Diffs} /\ x.proposer \in Persons
                            /\ x.revision \in 1..3
<1>1. CASE x = Absent
  <2>1. /\ x.state = "absent" /\ x.base = 0 /\ x.origin = 0 /\ x.revision = 0 /\ x.diff = {}
    BY <1>1 DEF Absent, NoRef
  <2> QED
    BY <1>1, <2>1, Numbers
<1>2. CASE x # Absent
  <2>1. /\ x.state \in {"proposed", "approved", "declined", "withdrawn", "applied"}
        /\ x.base \in 0..MaxRevision /\ x.origin \in 0..MaxCommands
        /\ x.revision \in 1..3 /\ x.diff \in {{d} : d \in Diffs} /\ x.proposer \in Persons
    BY <1>2 DEF Proposals, OpenStates
  <2> QED
    BY <1>2, <2>1, Numbers
<1> QED
  BY <1>1, <1>2

(* A command that moves on keeps everything but its place. *)
LEMMA MovedCommand ==
    ASSUME NEW k \in Commands, k.op # "none",
           NEW pc \in {"lock", "insert", "collided", "set", "receipts", "save", "create", "commit"}
    PROVE  /\ [k EXCEPT !.pc = pc] \in Commands
           /\ \A id \in 0..MaxProposals : [k EXCEPT !.pc = pc, !.id = id] \in Commands
           /\ \A v \in 0..MaxRevision, doc \in SUBSET Diffs :
                [[k EXCEPT !.revision = v, !.doc = doc] EXCEPT !.pc = pc] \in Commands
<1>0. Idle.op = "none"
  BY DEF Idle
<1>1. k \in Commands \ {Idle}
  BY <1>0
<1> USE DEF Commands
<1>2. [k EXCEPT !.pc = pc] \in Commands
  BY <1>1
<1>3. \A id \in 0..MaxProposals : [k EXCEPT !.pc = pc, !.id = id] \in Commands
  BY <1>1
<1>4. ASSUME NEW v \in 0..MaxRevision, NEW doc \in SUBSET Diffs
      PROVE  [[k EXCEPT !.revision = v, !.doc = doc] EXCEPT !.pc = pc] \in Commands
  BY <1>1
<1> QED
  BY <1>2, <1>3, <1>4

(* The proposals that are applied are at most as many as there are.         *)
LEMMA Applied ==
    ASSUME NEW f, NEW A, A = {p \in Ids : f[p].state = "applied"}
    PROVE  IsFiniteSet(A) /\ Cardinality(A) \in Nat /\ Cardinality(A) <= MaxProposals
<1>1. IsFiniteSet(Ids) /\ Cardinality(Ids) = MaxProposals
  BY FS_Interval, Numbers DEF Ids
<1>2. A \subseteq Ids
  OBVIOUS
<1>3. IsFiniteSet(A) /\ Cardinality(A) <= Cardinality(Ids)
  BY <1>1, <1>2, FS_Subset
<1>4. Cardinality(A) \in Nat
  BY <1>3, FS_CardinalityType
<1> QED
  BY <1>1, <1>3, <1>4

(* The revision's bound follows from the count of its moves.                *)
LEMMA RevisionBounded ==
    ASSUME SubjectInv, subject.revision \in Nat
    PROVE  subject.revision \in 0..MaxRevision
<1> DEFINE n == Cardinality(AppliedIds)
<1>1. n \in Nat /\ n <= MaxProposals
  BY Applied DEF AppliedIds
<1>2. subject.revision <= MaxEdits + 1 + n
  BY DEF SubjectInv
<1> QED
  BY ONLY <1>1, <1>2, Numbers, subject.revision \in Nat

----------------------------------------------------------------------------
(* A transaction that goes on: it changes its own place and no row.         *)
LEMMA Moves ==
    ASSUME IndInv, NEW c \in Slots, NEW n \in Commands, cmd' = [cmd EXCEPT ![c] = n],
           cmd[c].op # "none", n.op = cmd[c].op, n.own = cmd[c].own, n.who = cmd[c].who,
           n.diff = cmd[c].diff, n.verdict = cmd[c].verdict,
           n.op # "propose" => n.id = cmd[c].id,
           UNCHANGED <<proposal, subject, receipt, purge, rowLock, begun>>,
           setLock' \in Holders \cup {Purger},
           receiptLock' \in [Refs -> Holders \cup {Purger}],
           subjectLock' = subjectLock \/ (subjectLock' = c /\ subjectLock \in {Nobody, c}),
           n.op = "propose" => n.pc \in {"lock", "insert", "collided", "commit"},
           n.op \in {"review", "withdraw"} => n.pc \in {"set", "receipts", "commit"},
           n.op = "apply" => n.pc \in {"lock", "set", "receipts", "save", "create", "commit"},
           n.op = "propose" /\ n.pc = "commit" =>
              /\ n.id \in Ids /\ proposal[n.id] = Absent
              /\ \A q \in Ids : Open(q) => proposal[q].diff # n.diff
              /\ \A o \in Slots \ {c} : At(o, "propose", "commit") =>
                    cmd[o].id # n.id /\ cmd[o].diff # n.diff,
           n.op = "apply" /\ n.pc # "lock" =>
              /\ n.pc = "commit" => subjectLock' = c
              /\ proposal[n.id].base > 0 =>
                    /\ subjectLock' = c
                    /\ subject.revision = proposal[n.id].base
                    /\ n.doc = subject.doc
    PROVE  IndInv'
<1> USE DEF IndInv
<1>1. cmd \in [Slots -> Commands] /\ c \in Holders /\ c # Nobody
  BY PeopleAssumption DEF TypeOK, Holders
<1>2. cmd'[c] = n /\ \A o \in Slots \ {c} : cmd'[o] = cmd[o]
  BY <1>1
<1>3. TypeOK'
  <2>1. cmd' \in [Slots -> Commands] /\ subjectLock' \in Holders
    BY <1>1 DEF TypeOK
  <2> QED
    BY <2>1 DEF TypeOK
<1>4. RowInv' /\ SubjectInv' /\ OneOpinionOpen' /\ OriginFollows'
  <2>1. AppliedIds' = AppliedIds
    BY DEF AppliedIds
  <2> QED
    BY <2>1 DEF RowInv, SubjectInv, OneOpinionOpen, OriginFollows, Open
<1>5. CmdInv'
  <2> SUFFICES ASSUME NEW o \in Slots PROVE CmdInv!(o)'
    BY DEF CmdInv
  <2>1. CASE o = c
    BY <2>1, <1>2 DEF CmdInv, Open
  <2>2. CASE o # c
    BY <2>2, <1>2 DEF CmdInv, Open
  <2> QED
    BY <2>1, <2>2
<1>6. ApplyInv'
  <2> SUFFICES ASSUME NEW o \in Slots PROVE ApplyInv!(o)'
    BY DEF ApplyInv
  <2>1. CASE o = c
    BY <2>1, <1>2
  <2>2. CASE o # c
    <3>1. cmd'[o] = cmd[o] /\ (subjectLock = o => subjectLock' = o)
      BY <2>2, <1>2, PeopleAssumption
    <3> QED
      BY <3>1 DEF ApplyInv
  <2> QED
    BY <2>1, <2>2
<1>7. IndexInv'
  <2> SUFFICES ASSUME NEW o \in Slots, At(o, "propose", "commit")' PROVE IndexInv!(o)!2'
    BY DEF IndexInv
  <2>1. CASE o = c
    BY <2>1, <1>2 DEF IndexInv, At, Open
  <2>2. CASE o # c
    BY <2>2, <1>2 DEF IndexInv, At, Open
  <2> QED
    BY <2>1, <2>2
<1>8. OriginInv'
  <2>1. \A o \in Slots : cmd'[o].own = cmd[o].own
    BY <1>2
  <2> QED
    BY <2>1 DEF OriginInv
<1> QED
  BY <1>3, <1>4, <1>5, <1>6, <1>7, <1>8

(* The receipt that admission or an end writes is nobody's origin.          *)
LEMMA OriginsKept ==
    ASSUME IndInv, NEW own \in 0..MaxCommands,
           own # NoRef => \A p \in Ids : proposal[p].origin # own,
           NEW outcome \in {"none", "admitted", "pending", "succeeded", "failed", "purged"},
           receipt' = [r \in Refs |-> IF r = own THEN outcome ELSE receipt[r]],
           UNCHANGED proposal
    PROVE  /\ receipt' \in [Refs -> {"none", "admitted", "pending", "succeeded", "failed", "purged"}]
           /\ OriginFollows'
<1>1. receipt \in [Refs -> {"none", "admitted", "pending", "succeeded", "failed", "purged"}]
  BY DEF IndInv, TypeOK
<1>2. ASSUME NEW p \in Ids, proposal[p].origin # NoRef
      PROVE  receipt'[proposal[p].origin] = receipt[proposal[p].origin]
  <2>1. proposal[p].origin \in Refs /\ proposal[p].origin # own
    BY <1>2, RowShape, Numbers DEF IndInv, TypeOK, Refs, NoRef
  <2> QED
    BY <2>1
<1> QED
  BY <1>1, <1>2 DEF IndInv, OriginFollows, Open

(* What a transaction that ends leaves of the others.                       *)
LEMMA Released ==
    ASSUME TypeOK, NEW c \in Slots, Release(c)
    PROVE  /\ cmd' \in [Slots -> Commands] /\ cmd'[c] = Idle
           /\ \A o \in Slots \ {c} : cmd'[o] = cmd[o]
           /\ rowLock' \in [Ids -> Holders] /\ subjectLock' \in Holders
           /\ setLock' \in Holders \cup {Purger}
           /\ receiptLock' \in [Refs -> Holders \cup {Purger}]
           /\ \A o \in Slots \ {c} :
                 /\ \A p \in Ids : rowLock[p] = o => rowLock'[p] = o
                 /\ subjectLock = o => subjectLock' = o
  BY IdleShape, PeopleAssumption DEF TypeOK, Release, Holders

(* A transaction that ends without having written a row.                    *)
LEMMA Ends ==
    ASSUME IndInv, NEW c \in Slots, Release(c), UNCHANGED <<proposal, subject, purge, begun>>,
           UNCHANGED receipt \/ \E outcome \in {"succeeded", "failed"} : Own(c, outcome)
    PROVE  IndInv'
<1> USE DEF IndInv
<1>1. /\ cmd' \in [Slots -> Commands] /\ cmd'[c] = Idle
      /\ \A o \in Slots \ {c} : cmd'[o] = cmd[o]
      /\ rowLock' \in [Ids -> Holders] /\ subjectLock' \in Holders
      /\ setLock' \in Holders \cup {Purger}
      /\ receiptLock' \in [Refs -> Holders \cup {Purger}]
      /\ \A o \in Slots \ {c} :
            /\ \A p \in Ids : rowLock[p] = o => rowLock'[p] = o
            /\ subjectLock = o => subjectLock' = o
  BY Released
<1>2. /\ receipt' \in [Refs -> {"none", "admitted", "pending", "succeeded", "failed", "purged"}]
      /\ OriginFollows'
  <2>1. CASE UNCHANGED receipt
    BY <2>1 DEF TypeOK, OriginFollows, Open
  <2>2. ASSUME NEW outcome \in {"succeeded", "failed"}, Own(c, outcome)
        PROVE  /\ receipt' \in [Refs -> {"none", "admitted", "pending", "succeeded", "failed", "purged"}]
               /\ OriginFollows'
    <3>1. cmd[c].own \in 0..MaxCommands
      BY CommandShape DEF TypeOK
    <3>2. cmd[c].own # NoRef => \A p \in Ids : proposal[p].origin # cmd[c].own
      BY DEF OriginInv
    <3>3. receipt' = [r \in Refs |-> IF r = cmd[c].own THEN outcome ELSE receipt[r]]
      BY <2>2 DEF Own
    <3> QED
      BY <3>1, <3>2, <3>3, OriginsKept
  <2> QED
    BY <2>1, <2>2
<1>3. TypeOK'
  BY <1>1, <1>2 DEF TypeOK
<1>4. RowInv' /\ SubjectInv' /\ OneOpinionOpen'
  <2>1. AppliedIds' = AppliedIds
    BY DEF AppliedIds
  <2> QED
    BY <2>1 DEF RowInv, SubjectInv, OneOpinionOpen, Open
<1>5. CmdInv' /\ ApplyInv' /\ IndexInv'
  <2>1. CmdInv'
    BY <1>1, IdleShape DEF CmdInv, Open, TypeOK
  <2>2. ApplyInv'
    BY <1>1, IdleShape DEF ApplyInv
  <2>3. IndexInv'
    BY <1>1, IdleShape DEF IndexInv, Open, At
  <2> QED
    BY <2>1, <2>2, <2>3
<1>6. OriginInv'
  BY <1>1, IdleShape DEF OriginInv, NoRef
<1> QED
  BY <1>2, <1>3, <1>4, <1>5, <1>6

(* Admission's receipt is new.                                              *)
LEMMA Fresh ==
    ASSUME IndInv, begun < MaxCommands
    PROVE  /\ Admission \in 0..MaxCommands /\ begun + 1 \in 0..MaxCommands
           /\ Admission <= begun + 1
           /\ Admission # NoRef =>
                /\ \A p \in Ids : proposal[p].origin # Admission
                /\ \A o \in Slots : cmd[o].own # Admission
           /\ \A p \in Ids : proposal[p].origin <= begun + 1
           /\ \A o \in Slots : cmd[o].own <= begun + 1
<1>1. begun \in Nat /\ begun + 1 \in 0..MaxCommands
  BY Numbers DEF IndInv, TypeOK
<1>2. Admission = NoRef \/ Admission = begun + 1
  BY DEF Admission
<1>3. ASSUME NEW p \in Ids PROVE proposal[p].origin \in Nat /\ proposal[p].origin <= begun
  BY RowShape DEF IndInv, TypeOK, OriginInv
<1>4. ASSUME NEW o \in Slots PROVE cmd[o].own \in Nat /\ cmd[o].own <= begun
  BY CommandShape DEF IndInv, TypeOK, CmdInv
<1> QED
  BY <1>1, <1>2, <1>3, <1>4, Numbers DEF NoRef

(* A request that is answered at once.                                      *)
LEMMA Replied ==
    ASSUME IndInv, begun < MaxCommands, begun' = begun + 1,
           NEW outcome \in {"succeeded", "failed"}, Reply(outcome),
           UNCHANGED <<proposal, subject, purge, subjectLock, setLock, receiptLock>>
    PROVE  IndInv'
<1> USE DEF IndInv
<1>1. UNCHANGED <<cmd, rowLock>>
      /\ receipt' = [r \in Refs |-> IF r = Admission THEN outcome ELSE receipt[r]]
  BY DEF Reply
<1>2. /\ receipt' \in [Refs -> {"none", "admitted", "pending", "succeeded", "failed", "purged"}]
      /\ OriginFollows'
  BY <1>1, Fresh, OriginsKept
<1>3. TypeOK'
  BY <1>1, <1>2, Fresh DEF TypeOK
<1>4. RowInv' /\ SubjectInv' /\ OneOpinionOpen' /\ ApplyInv' /\ IndexInv'
  <2>1. AppliedIds' = AppliedIds
    BY DEF AppliedIds
  <2> QED
    BY <1>1, <2>1 DEF RowInv, SubjectInv, OneOpinionOpen, ApplyInv, IndexInv, Open, At
<1>5. CmdInv'
  BY <1>1, Fresh DEF CmdInv, Open
<1>6. OriginInv'
  BY <1>1, Fresh DEF OriginInv
<1> QED
  BY <1>2, <1>3, <1>4, <1>5, <1>6

(* A request that goes on in a transaction, at its first place.             *)
LEMMA Enters ==
    ASSUME IndInv, begun < MaxCommands, begun' = begun + 1,
           NEW c \in Slots, cmd[c] = Idle, NEW n \in Commands,
           cmd' = [cmd EXCEPT ![c] = n], n.own = Admission,
           receipt' = [r \in Refs |-> IF r = Admission THEN "admitted" ELSE receipt[r]],
           UNCHANGED <<proposal, subject, purge, subjectLock, setLock, receiptLock>>,
           \/ /\ n.op = "propose" /\ n.pc = "lock" /\ n.diff \in {{d} : d \in Diffs}
              /\ UNCHANGED rowLock
           \/ /\ n.op \in {"review", "apply", "withdraw"}
              /\ n.id \in Ids /\ rowLock[n.id] = Nobody
              /\ rowLock' = [rowLock EXCEPT ![n.id] = c]
              /\ n.op = "review" =>
                    /\ n.pc \in {"set", "commit"} /\ n.verdict \in {"approved", "declined"}
                    /\ proposal[n.id].state = "proposed" /\ n.who # proposal[n.id].proposer
              /\ n.op = "apply" => n.pc = "lock" /\ proposal[n.id].state = "approved"
              /\ n.op = "withdraw" => n.pc = "set" /\ Open(n.id)
    PROVE  IndInv'
<1> USE DEF IndInv
<1>1. /\ cmd \in [Slots -> Commands] /\ c \in Holders /\ c # Nobody
      /\ rowLock \in [Ids -> Holders]
  BY PeopleAssumption DEF TypeOK, Holders
<1>2. cmd'[c] = n /\ \A o \in Slots \ {c} : cmd'[o] = cmd[o]
  BY <1>1
<1>3. /\ rowLock' \in [Ids -> Holders]
      /\ \A p \in Ids, o \in Slots : rowLock[p] = o => rowLock'[p] = o
      /\ n.op # "propose" => rowLock'[n.id] = c
  BY <1>1, PeopleAssumption
<1>4. /\ receipt' \in [Refs -> {"none", "admitted", "pending", "succeeded", "failed", "purged"}]
      /\ OriginFollows'
  BY Fresh, OriginsKept
<1>5. TypeOK'
  <2>1. cmd' \in [Slots -> Commands]
    BY <1>1
  <2> QED
    BY <2>1, <1>3, <1>4, Fresh DEF TypeOK
<1>6. RowInv' /\ SubjectInv' /\ OneOpinionOpen'
  <2>1. AppliedIds' = AppliedIds
    BY DEF AppliedIds
  <2> QED
    BY <2>1 DEF RowInv, SubjectInv, OneOpinionOpen, Open
<1>7. CmdInv'
  <2> SUFFICES ASSUME NEW o \in Slots PROVE CmdInv!(o)'
    BY DEF CmdInv
  <2>1. CASE o = c
    BY <2>1, <1>2, <1>3, Fresh DEF Open
  <2>2. CASE o # c
    BY <2>2, <1>2, <1>3, Fresh DEF CmdInv, Open
  <2> QED
    BY <2>1, <2>2
<1>8. ApplyInv' /\ IndexInv'
  <2>1. cmd[c].op = "none" /\ (n.op = "apply" => n.pc = "lock")
        /\ (n.op = "propose" => n.pc = "lock")
    BY IdleShape
  <2>2. ApplyInv'
    BY <2>1, <1>2 DEF ApplyInv
  <2>3. IndexInv'
    BY <2>1, <1>2 DEF IndexInv, At, Open
  <2> QED
    BY <2>2, <2>3
<1>9. OriginInv'
  BY <1>2, Fresh DEF OriginInv
<1> QED
  BY <1>4, <1>5, <1>6, <1>7, <1>8, <1>9

----------------------------------------------------------------------------

(* A row whose revision moves on, and nothing else. *)
LEMMA NewRevision ==
    ASSUME NEW x \in Proposals, x # Absent, x.revision + 1 \in 1..3
    PROVE  LET y == [x EXCEPT !.revision = @ + 1]
           IN  /\ y \in Proposals /\ y # Absent /\ y.revision = x.revision + 1
               /\ y.diff = x.diff /\ y.base = x.base /\ y.origin = x.origin
               /\ y.proposer = x.proposer /\ y.state = x.state
               /\ y.verdict = x.verdict /\ y.reviewer = x.reviewer
<1> DEFINE y == [x EXCEPT !.revision = @ + 1]
<1>1. x \in Proposals \ {Absent}
  OBVIOUS
<1>2. /\ y.revision = x.revision + 1
      /\ y.diff = x.diff /\ y.base = x.base /\ y.origin = x.origin
      /\ y.proposer = x.proposer /\ y.state = x.state
      /\ y.verdict = x.verdict /\ y.reviewer = x.reviewer
  BY <1>1 DEF Proposals
<1>3. y \in Proposals
  BY <1>1 DEF Proposals
<1>4. y # Absent
  BY <1>1, <1>2, <1>3, RowShape
<1> QED
  BY <1>2, <1>3, <1>4

(* A row that takes its next state. *)
LEMMA NewState ==
    ASSUME NEW x \in Proposals, x # Absent,
           NEW s \in {"approved", "declined", "withdrawn", "applied"},
           NEW y, y = [x EXCEPT !.state = s]
    PROVE  /\ y \in Proposals /\ y.state = s /\ y.revision = x.revision
           /\ y.diff = x.diff /\ y.base = x.base /\ y.origin = x.origin
           /\ y.proposer = x.proposer /\ y.verdict = x.verdict /\ y.reviewer = x.reviewer
<1>1. x \in Proposals \ {Absent}
  OBVIOUS
<1> QED
  BY <1>1 DEF Proposals, OpenStates

(* The row a decision leaves: still the same change of the same author.     *)
LEMMA Decides ==
    ASSUME IndInv, NEW c \in Slots, cmd[c].pc = "commit", cmd[c].op # "propose"
    PROVE  /\ cmd[c].op \in {"review", "apply", "withdraw"}
           /\ cmd[c].id \in Ids /\ rowLock[cmd[c].id] = c /\ Open(cmd[c].id)
           /\ cmd[c].op = "review" => proposal[cmd[c].id].state = "proposed"
           /\ cmd[c].op = "apply" => proposal[cmd[c].id].state = "approved"
           /\ Decided(c) \in Proposals
           /\ Decided(c).diff = proposal[cmd[c].id].diff
           /\ Decided(c).base = proposal[cmd[c].id].base
           /\ Decided(c).origin = proposal[cmd[c].id].origin
           /\ Decided(c).proposer = proposal[cmd[c].id].proposer
           /\ cmd[c].op = "review" => /\ Decided(c).state = cmd[c].verdict
                                      /\ cmd[c].verdict \in {"approved", "declined"}
           /\ cmd[c].op = "apply" => Decided(c).state = "applied"
           /\ cmd[c].op = "withdraw" => Decided(c).state = "withdrawn"
           /\ cmd[c].op # "review" => /\ Decided(c).verdict = proposal[cmd[c].id].verdict
                                      /\ Decided(c).reviewer = proposal[cmd[c].id].reviewer
           /\ Decided(c).state = "approved" =>
                 Decided(c).revision = 2 /\ Decided(c).reviewer # Decided(c).proposer
<1> DEFINE k == cmd[c]
           row == proposal[k.id]
           next == [row EXCEPT !.revision = @ + 1]
<1>1. k \in Commands /\ k.op \in {"review", "apply", "withdraw"}
  <2>1. k \in Commands /\ k # Idle
    BY IdleShape DEF IndInv, TypeOK
  <2> QED
    BY <2>1, CommandShape
<1>2. /\ k.id \in Ids /\ rowLock[k.id] = c
      /\ k.op = "review" => /\ row.state = "proposed" /\ k.who # row.proposer
                            /\ k.verdict \in {"approved", "declined"}
      /\ k.op = "apply" => row.state = "approved"
      /\ row.state \in OpenStates
  BY <1>1 DEF IndInv, CmdInv, Open, OpenStates
<1>3. row \in Proposals /\ row # Absent
  <2>1. Absent.state = "absent"
    BY DEF Absent
  <2> QED
    BY <1>2, <2>1 DEF IndInv, TypeOK, OpenStates
<1>4. /\ row.state = "proposed" => row.revision = 1
      /\ row.state = "approved" => row.revision = 2
  BY <1>2 DEF IndInv, RowInv
<1>5. row.revision + 1 \in 1..3 /\ (row.state = "proposed" => row.revision + 1 = 2)
  BY ONLY <1>2, <1>4 DEF OpenStates
<1>6. k.who \in Persons
  BY <1>1, CommandShape
<1>7. /\ next \in Proposals /\ next # Absent /\ next.revision = row.revision + 1
      /\ next.diff = row.diff /\ next.base = row.base /\ next.origin = row.origin
      /\ next.proposer = row.proposer /\ next.state = row.state
      /\ next.verdict = row.verdict /\ next.reviewer = row.reviewer
  BY <1>3, <1>5, NewRevision
<1>8. /\ k.op = "review" =>
            Decided(c) = [next EXCEPT !.state = k.verdict, !.verdict = k.verdict, !.reviewer = k.who]
      /\ k.op = "apply" => Decided(c) = [next EXCEPT !.state = "applied"]
      /\ k.op = "withdraw" => Decided(c) = [next EXCEPT !.state = "withdrawn"]
  BY DEF Decided
<1> HIDE DEF next
<1>9. CASE k.op = "review"
  <2>1. /\ Decided(c) \in Proposals
        /\ Decided(c).diff = row.diff /\ Decided(c).base = row.base
        /\ Decided(c).origin = row.origin /\ Decided(c).proposer = row.proposer
        /\ Decided(c).state = k.verdict /\ Decided(c).reviewer = k.who
        /\ Decided(c).revision = row.revision + 1
    <3>1. k.verdict \in {"approved", "declined"}
      BY <1>2, <1>9
    <3>2. Decided(c) = [next EXCEPT !.state = k.verdict, !.verdict = k.verdict, !.reviewer = k.who]
      BY <1>8, <1>9
    <3>3. /\ Decided(c) \in Proposals /\ Decided(c).state = k.verdict
          /\ Decided(c).revision = next.revision /\ Decided(c).diff = next.diff
          /\ Decided(c).base = next.base /\ Decided(c).origin = next.origin
          /\ Decided(c).proposer = next.proposer /\ Decided(c).reviewer = k.who
      <4>1. next \in Proposals /\ next # Absent
        BY <1>7
      <4> DEFINE v == k.verdict
                 who == k.who
      <4>2. v \in {"approved", "declined"} /\ who \in Persons
        BY <3>1, <1>6
      <4>3. Decided(c) = [next EXCEPT !.state = v, !.verdict = v, !.reviewer = who]
        BY <3>2
      <4> HIDE DEF v, who
      <4>4. /\ Decided(c) \in Proposals /\ Decided(c).state = v
            /\ Decided(c).revision = next.revision /\ Decided(c).diff = next.diff
            /\ Decided(c).base = next.base /\ Decided(c).origin = next.origin
            /\ Decided(c).proposer = next.proposer /\ Decided(c).reviewer = who
        BY ONLY <4>1, <4>2, <4>3 DEF Proposals, OpenStates
      <4> QED
        BY <4>4 DEF v, who
    <3> QED
      BY ONLY <3>3, <1>7
  <2> QED
    BY <2>1, <1>1, <1>2, <1>5, <1>9 DEF Open
<1>10. CASE k.op # "review"
  <2>1. /\ Decided(c) \in Proposals
        /\ Decided(c).diff = row.diff /\ Decided(c).base = row.base
        /\ Decided(c).origin = row.origin /\ Decided(c).proposer = row.proposer
        /\ Decided(c).verdict = row.verdict /\ Decided(c).reviewer = row.reviewer
        /\ Decided(c).state = IF k.op = "apply" THEN "applied" ELSE "withdrawn"
    <3> DEFINE s == IF k.op = "apply" THEN "applied" ELSE "withdrawn"
    <3>1. s \in {"approved", "declined", "withdrawn", "applied"}
      OBVIOUS
    <3>2. Decided(c) = [next EXCEPT !.state = s]
      BY <1>1, <1>8, <1>10
    <3>3. /\ Decided(c) \in Proposals /\ Decided(c).state = s
          /\ Decided(c).diff = next.diff /\ Decided(c).base = next.base
          /\ Decided(c).origin = next.origin /\ Decided(c).proposer = next.proposer
          /\ Decided(c).verdict = next.verdict /\ Decided(c).reviewer = next.reviewer
      <4> HIDE DEF s
      <4> QED
        BY <3>1, <3>2, <1>7, NewState
    <3> QED
      BY ONLY <3>3, <1>7
  <2> QED
    BY <2>1, <1>1, <1>2, <1>10 DEF Open
<1> QED
  BY <1>9, <1>10

(* What a save makes of the subject.                                        *)
LEMMA Saves ==
    ASSUME TypeOK, SubjectInv, NEW doc \in SUBSET Diffs
    PROVE  /\ Saved(doc).doc = doc
           /\ Saved(doc).exists \in BOOLEAN /\ Saved(doc).revision \in Nat
           /\ Saved(doc).revision <= subject.revision + 1
           /\ Saved(doc).exists <=> Saved(doc).revision > 0
           /\ Saved(doc) = [exists |-> Saved(doc).exists, revision |-> Saved(doc).revision,
                            doc |-> doc]
<1>1. /\ subject.exists \in BOOLEAN /\ subject.revision \in 0..MaxRevision
      /\ subject.doc \in SUBSET Diffs
      /\ subject = [exists |-> subject.exists, revision |-> subject.revision, doc |-> subject.doc]
  BY DEF TypeOK
<1>2. subject.revision \in Nat /\ subject.revision + 1 \in Nat
      /\ subject.revision <= subject.revision + 1 /\ subject.revision + 1 > 0
      /\ subject.revision + 1 <= subject.revision + 1
  BY <1>1, Numbers
<1>3. subject.exists <=> subject.revision > 0
  BY DEF SubjectInv
<1>4. CASE subject.exists /\ doc = subject.doc
  <2>1. Saved(doc) = subject
    BY <1>4, Zenon DEF Saved
  <2> QED
    BY <2>1, <1>1, <1>2, <1>3, <1>4
<1>5. CASE ~(subject.exists /\ doc = subject.doc)
  <2>1. Saved(doc) = [exists |-> TRUE, revision |-> subject.revision + 1, doc |-> doc]
    BY <1>5, Zenon DEF Saved
  <2> QED
    BY <2>1, <1>2
<1> QED
  BY <1>4, <1>5

(* A decision commits.                                                      *)
LEMMA Commits ==
    ASSUME IndInv, NEW c \in Slots, Commit(c)
    PROVE  IndInv'
<1> DEFINE id == cmd[c].id
           new == Decided(c)
<1> USE DEF IndInv
<1>1. cmd[c].pc = "commit" /\ cmd[c].op # "propose" /\ Release(c) /\ UNCHANGED <<purge, begun>>
      /\ proposal' = [proposal EXCEPT ![id] = new]
  BY DEF Commit
<1>2. /\ cmd[c].op \in {"review", "apply", "withdraw"}
      /\ id \in Ids /\ rowLock[id] = c /\ Open(id)
      /\ new \in Proposals
      /\ new.diff = proposal[id].diff /\ new.base = proposal[id].base
      /\ new.origin = proposal[id].origin
      /\ cmd[c].op = "review" => new.state = cmd[c].verdict /\ cmd[c].verdict \in {"approved", "declined"}
      /\ cmd[c].op = "apply" => new.state = "applied"
      /\ cmd[c].op = "withdraw" => new.state = "withdrawn"
      /\ new.state = "approved" => new.revision = 2 /\ new.reviewer # new.proposer
  BY <1>1, Decides
<1> HIDE DEF new
<1>3. /\ proposal' \in [Ids -> Proposals] /\ proposal'[id] = new
      /\ \A p \in Ids \ {id} : proposal'[p] = proposal[p]
      /\ \A p \in Ids : proposal'[p].origin = proposal[p].origin
                        /\ proposal'[p].diff = proposal[p].diff
      /\ \A p \in Ids : Open(p)' => Open(p)
      /\ new.state # "proposed" /\ new.state # "absent"
  BY <1>1, <1>2 DEF TypeOK, Open
<1>4. /\ cmd' \in [Slots -> Commands] /\ cmd'[c] = Idle
      /\ \A o \in Slots \ {c} : cmd'[o] = cmd[o]
      /\ rowLock' \in [Ids -> Holders] /\ subjectLock' \in Holders
      /\ setLock' \in Holders \cup {Purger}
      /\ receiptLock' \in [Refs -> Holders \cup {Purger}]
      /\ \A o \in Slots \ {c} :
            /\ \A p \in Ids : rowLock[p] = o => rowLock'[p] = o
            /\ subjectLock = o => subjectLock' = o
  BY <1>1, Released
<1>5. /\ \A o \in Slots \ {c} : cmd[o].op \in {"review", "apply", "withdraw"} =>
            cmd[o].id \in Ids \ {id}
      /\ \A o \in Slots : At(o, "propose", "commit") => cmd[o].id \in Ids \ {id}
  <2>1. Absent.state \notin OpenStates
    BY DEF Absent, OpenStates
  <2> QED
    BY <2>1, <1>2 DEF CmdInv, Open, At
<1>6. RowInv' /\ OneOpinionOpen'
  <2>1. RowInv'
    BY <1>2, <1>3, ZenonT(60) DEF RowInv
  <2>2. OneOpinionOpen'
    BY <1>3 DEF OneOpinionOpen
  <2> QED
    BY <2>1, <2>2
<1>7. CmdInv'
  <2> SUFFICES ASSUME NEW o \in Slots PROVE CmdInv!(o)'
    BY DEF CmdInv
  <2>1. CASE o = c
    BY <2>1, <1>1, <1>4, IdleShape DEF TypeOK
  <2>2. CASE o # c
    <3>1. cmd'[o] = cmd[o] /\ cmd[o].op \in {"none", "propose", "review", "apply", "withdraw"}
      BY <2>2, <1>4, CommandShape DEF TypeOK
    <3>2. CASE cmd[o].op = "none"
      BY <3>1, <3>2, <1>1 DEF CmdInv
    <3>3. CASE cmd[o].op = "propose"
      BY <3>1, <3>3, <1>1, <1>3, <1>5 DEF CmdInv, At
    <3>4. CASE cmd[o].op \in {"review", "apply", "withdraw"}
      <4>1. cmd[o].id \in Ids \ {id} /\ proposal'[cmd[o].id] = proposal[cmd[o].id]
            /\ rowLock'[cmd[o].id] = o
        BY <2>2, <3>4, <1>3, <1>4, <1>5 DEF CmdInv
      <4> QED
        BY <3>1, <3>4, <4>1, <1>1 DEF CmdInv, Open
    <3> QED
      BY <3>1, <3>2, <3>3, <3>4
  <2> QED
    BY <2>1, <2>2
<1>8. IndexInv'
  <2> SUFFICES ASSUME NEW o \in Slots, At(o, "propose", "commit")' PROVE IndexInv!(o)!2'
    BY DEF IndexInv
  <2>1. o # c
    BY <1>4, IdleShape DEF At
  <2> QED
    BY <2>1, <1>3, <1>4, IdleShape DEF IndexInv, At
<1>9. OriginInv'
  BY <1>1, <1>3, <1>4, IdleShape DEF OriginInv, NoRef
<1>10. SubjectInv' /\ subject' \in [exists : BOOLEAN, revision : 0..MaxRevision, doc : SUBSET Diffs]
  <2>1. CASE cmd[c].op = "apply"
    <3> DEFINE doc == Merged(c)
    <3>1. doc \in SUBSET Diffs
      BY <1>2, CommandShape, RowShape DEF Merged, TypeOK
    <3>2. subject' = Saved(doc)
      BY <2>1 DEF Commit
    <3>3. AppliedIds' = AppliedIds \cup {id} /\ id \notin AppliedIds
      BY <1>2, <1>3, <2>1 DEF AppliedIds, Open, OpenStates
    <3>4. IsFiniteSet(AppliedIds) /\ Cardinality(AppliedIds) \in Nat
      BY Applied DEF AppliedIds
    <3>5. Cardinality(AppliedIds)' = Cardinality(AppliedIds) + 1
      BY <3>3, <3>4, FS_AddElement
    <3> HIDE DEF doc
    <3>6. /\ subject'.exists \in BOOLEAN /\ subject'.revision \in Nat
          /\ subject'.revision <= subject.revision + 1
          /\ subject'.exists <=> subject'.revision > 0
          /\ subject' = [exists |-> subject'.exists, revision |-> subject'.revision, doc |-> doc]
      BY <3>1, <3>2, Saves, Zenon
    <3>7. subject.revision \in Nat /\ subject.revision <= MaxEdits + 1 + Cardinality(AppliedIds)
      <4>1. subject.revision \in 0..MaxRevision
        BY DEF TypeOK
      <4> QED
        BY <4>1, Numbers DEF SubjectInv
    <3>8. subject'.revision <= MaxEdits + 1 + Cardinality(AppliedIds)'
      BY ONLY <3>4, <3>5, <3>6, <3>7, Numbers
    <3>9. SubjectInv'
      BY <3>6, <3>8 DEF SubjectInv
    <3>10. Cardinality(AppliedIds)' \in Nat /\ Cardinality(AppliedIds)' <= MaxProposals
      BY Applied DEF AppliedIds
    <3>11. subject'.revision \in 0..MaxRevision
      BY ONLY <3>6, <3>8, <3>10, Numbers
    <3> QED
      BY <3>1, <3>6, <3>9, <3>11
  <2>2. CASE cmd[c].op # "apply"
    <3>1. subject' = subject
      BY <2>2 DEF Commit
    <3>2. AppliedIds' = AppliedIds
      BY <1>2, <1>3, <2>2 DEF AppliedIds, Open, OpenStates
    <3> QED
      BY <3>1, <3>2 DEF SubjectInv, TypeOK
  <2> QED
    BY <2>1, <2>2
<1>11. ApplyInv'
  <2> SUFFICES ASSUME NEW o \in Slots, cmd'[o].op = "apply", cmd'[o].pc # "lock"
               PROVE  ApplyInv!(o)!2'
    BY DEF ApplyInv
  <2>1. o # c /\ cmd'[o] = cmd[o]
    BY <1>4, IdleShape
  <2>2. cmd[o].id \in Ids \ {id} /\ proposal'[cmd[o].id] = proposal[cmd[o].id]
    BY <2>1, <1>3, <1>5
  <2>3. cmd[o].pc = "commit" => subjectLock' = o
    BY <2>1, <1>4 DEF ApplyInv
  <2>4. ASSUME proposal[cmd[o].id].base > 0
        PROVE  subjectLock' = o /\ subject' = subject
    <3>1. subjectLock = o
      BY <2>1, <2>4 DEF ApplyInv
    <3>2. cmd[c].op # "apply"
      BY <3>1, <2>1, <1>1 DEF ApplyInv
    <3> QED
      BY <3>1, <3>2, <2>1, <1>4 DEF Commit
  <2> QED
    BY <2>1, <2>2, <2>3, <2>4 DEF ApplyInv
<1>12. /\ receipt' \in [Refs -> {"none", "admitted", "pending", "succeeded", "failed", "purged"}]
       /\ OriginFollows'
  <2>1. receipt' = [r \in Refs |->
          CASE r = cmd[c].own -> "succeeded"
            [] r = proposal[id].origin -> Ending(c)
            [] OTHER -> receipt[r]]
    BY DEF Commit
  <2>2. Ending(c) \in {"succeeded", "pending", "failed"}
    BY DEF Ending
  <2>3. receipt' \in [Refs -> {"none", "admitted", "pending", "succeeded", "failed", "purged"}]
    <3>1. ASSUME NEW r \in Refs
          PROVE  receipt'[r] \in {"none", "admitted", "pending", "succeeded", "failed", "purged"}
      <4>1. receipt'[r] \in {"succeeded", Ending(c), receipt[r]}
        BY <2>1
      <4> QED
        BY <4>1, <2>2 DEF TypeOK
    <3> QED
      BY <2>1, <3>1
  <2>4. ASSUME NEW p \in Ids, proposal[p].origin # NoRef
        PROVE  receipt'[proposal[p].origin] \in
                 CASE Open(p)' -> {"pending"}
                   [] proposal'[p].state = "applied" -> {"succeeded", "purged"}
                   [] OTHER -> {"failed", "purged"}
    <3>1. proposal[p].origin \in Refs /\ proposal[p].origin # cmd[c].own
      BY <2>4, RowShape, Numbers DEF TypeOK, Refs, NoRef, OriginInv
    <3>2. CASE p = id
      <4>1. receipt'[proposal[p].origin] = Ending(c)
        BY <2>1, <3>1, <3>2
      <4>2. proposal'[p] = new
        BY <1>3, <3>2
      <4>3. CASE cmd[c].op = "apply"
        BY <4>1, <4>2, <4>3, <1>2 DEF Ending, Open, OpenStates
      <4>4. CASE cmd[c].op = "withdraw"
        BY <4>1, <4>2, <4>4, <1>2 DEF Ending, Open, OpenStates
      <4>5. CASE cmd[c].op = "review"
        BY <4>1, <4>2, <4>5, <1>2 DEF Ending, Open, OpenStates
      <4> QED
        BY <4>3, <4>4, <4>5, <1>2
    <3>3. CASE p # id
      <4>1. proposal[p].origin # proposal[id].origin
        BY <3>3, <2>4, <1>2 DEF OriginInv
      <4>2. receipt'[proposal[p].origin] = receipt[proposal[p].origin]
        BY <2>1, <3>1, <4>1
      <4>3. proposal'[p] = proposal[p]
        BY <1>3, <3>3
      <4> QED
        BY <4>2, <4>3, <2>4 DEF OriginFollows, Open
    <3> QED
      BY <3>2, <3>3
  <2> QED
    BY <2>3, <2>4, <1>3 DEF OriginFollows
<1>13. TypeOK'
  BY <1>1, <1>3, <1>4, <1>10, <1>12 DEF TypeOK
<1> QED
  BY <1>6, <1>7, <1>8, <1>9, <1>10, <1>11, <1>12, <1>13

(* A proposal commits: its row is new, and waits on its own receipt.        *)
LEMMA ProposeCommits ==
    ASSUME IndInv, NEW c \in Slots, CommitPropose(c)
    PROVE  IndInv'
<1> DEFINE id == cmd[c].id
           new == [state |-> "proposed", diff |-> cmd[c].diff, base |-> cmd[c].revision,
                   proposer |-> cmd[c].who, reviewer |-> Nobody, verdict |-> "",
                   origin |-> cmd[c].own, revision |-> 1]
<1> USE DEF IndInv
<1>1. /\ cmd[c].op = "propose" /\ cmd[c].pc = "commit" /\ Release(c)
      /\ UNCHANGED <<subject, purge, begun>> /\ proposal' = [proposal EXCEPT ![id] = new]
      /\ receipt' = [r \in Refs |-> IF r = cmd[c].own THEN "pending" ELSE receipt[r]]
  BY DEF CommitPropose, At, Own
<1>2. /\ id \in Ids /\ proposal[id] = Absent /\ cmd[c].diff \in {{d} : d \in Diffs}
      /\ \A q \in Ids : Open(q) => proposal[q].diff # cmd[c].diff
      /\ cmd[c].own \in 0..MaxCommands /\ cmd[c].own <= begun
      /\ cmd[c].own # NoRef => \A p \in Ids : proposal[p].origin # cmd[c].own
  BY <1>1, CommandShape DEF TypeOK, CmdInv, IndexInv, At, OriginInv
<1>3. new \in Proposals
  <2>1. cmd[c].who \in Persons /\ cmd[c].revision \in 0..MaxRevision
    BY <1>1, CommandShape DEF TypeOK
  <2>2. 1 \in 1..3
    OBVIOUS
  <2>3. "" \in {"", "approved", "declined"} /\ "proposed" \in OpenStates
    BY DEF OpenStates
  <2>4. new \in [state : OpenStates \cup {"declined", "withdrawn", "applied"},
                 diff : {{d} : d \in Diffs}, base : 0..MaxRevision, proposer : Persons,
                 reviewer : Persons \cup {Nobody}, verdict : {"", "approved", "declined"},
                 origin : 0..MaxCommands, revision : 1..3]
    <3> DEFINE verdicts == {"", "approved", "declined"}
               none == ""
               revisions == 1..3
    <3>1. none \in verdicts /\ 1 \in revisions
      BY <2>2
    <3> HIDE DEF verdicts, none, revisions
    <3> QED
      BY ONLY <2>1, <2>3, <3>1, <1>2
  <2> QED
    BY <2>4 DEF Proposals
<1>3a. new.verdict = ""
  OBVIOUS
<1>4. /\ new.state = "proposed" /\ new.revision = 1
      /\ new.diff = cmd[c].diff /\ new.origin = cmd[c].own
      /\ Absent.state = "absent" /\ Absent.origin = NoRef
  BY DEF Absent
<1> HIDE DEF new
<1>5. /\ proposal' \in [Ids -> Proposals] /\ proposal'[id] = new
      /\ \A p \in Ids \ {id} : proposal'[p] = proposal[p]
  BY <1>1, <1>2, <1>3 DEF TypeOK
<1>5a. \A p \in Ids : /\ proposal'[p].diff = IF p = id THEN cmd[c].diff ELSE proposal[p].diff
                      /\ proposal'[p].origin = IF p = id THEN cmd[c].own ELSE proposal[p].origin
                      /\ Open(p)' <=> (p = id \/ Open(p))
  BY <1>4, <1>5 DEF Open, OpenStates
<1>6. /\ cmd' \in [Slots -> Commands] /\ cmd'[c] = Idle
      /\ \A o \in Slots \ {c} : cmd'[o] = cmd[o]
      /\ rowLock' \in [Ids -> Holders] /\ subjectLock' \in Holders
      /\ setLock' \in Holders \cup {Purger}
      /\ receiptLock' \in [Refs -> Holders \cup {Purger}]
      /\ \A o \in Slots \ {c} :
            /\ \A p \in Ids : rowLock[p] = o => rowLock'[p] = o
            /\ subjectLock = o => subjectLock' = o
  BY <1>1, Released
<1>7. \A o \in Slots \ {c} :
        /\ cmd[o].op \in {"review", "apply", "withdraw"} => cmd[o].id \in Ids \ {id}
        /\ At(o, "propose", "commit") => cmd[o].id \in Ids \ {id} /\ cmd[o].diff # cmd[c].diff
  BY <1>1, <1>2, <1>4 DEF CmdInv, IndexInv, Open, OpenStates, At
<1>8. RowInv' /\ SubjectInv' /\ OneOpinionOpen'
  <2>1. RowInv'
    BY <1>3a, <1>4, <1>5 DEF RowInv
  <2>2. AppliedIds' = AppliedIds
    BY <1>2, <1>4, <1>5 DEF AppliedIds
  <2>3. SubjectInv'
    BY <1>1, <2>2 DEF SubjectInv
  <2>4. OneOpinionOpen'
    BY <1>2, <1>5a DEF OneOpinionOpen
  <2> QED
    BY <2>1, <2>3, <2>4
<1>9. CmdInv'
  <2> SUFFICES ASSUME NEW o \in Slots PROVE CmdInv!(o)'
    BY DEF CmdInv
  <2>1. CASE o = c
    BY <2>1, <1>1, <1>6, IdleShape DEF TypeOK
  <2>2. CASE o # c
    <3>1. cmd'[o] = cmd[o] /\ cmd[o].op \in {"none", "propose", "review", "apply", "withdraw"}
      BY <2>2, <1>6, CommandShape DEF TypeOK
    <3>2. CASE cmd[o].op = "none"
      BY <3>1, <3>2, <1>1 DEF CmdInv
    <3>3. CASE cmd[o].op = "propose"
      BY <2>2, <3>1, <3>3, <1>1, <1>5, <1>7 DEF CmdInv, At
    <3>4. CASE cmd[o].op \in {"review", "apply", "withdraw"}
      <4>1. cmd[o].id \in Ids \ {id} /\ proposal'[cmd[o].id] = proposal[cmd[o].id]
            /\ rowLock'[cmd[o].id] = o
        BY <2>2, <3>4, <1>5, <1>6, <1>7 DEF CmdInv
      <4> QED
        BY <3>1, <3>4, <4>1, <1>1 DEF CmdInv, Open
    <3> QED
      BY <3>1, <3>2, <3>3, <3>4
  <2> QED
    BY <2>1, <2>2
<1>10. ApplyInv'
  <2> SUFFICES ASSUME NEW o \in Slots, cmd'[o].op = "apply", cmd'[o].pc # "lock"
               PROVE  ApplyInv!(o)!2'
    BY DEF ApplyInv
  <2>1. o # c /\ cmd'[o] = cmd[o]
    BY <1>6, IdleShape
  <2>2. cmd[o].id \in Ids \ {id} /\ proposal'[cmd[o].id] = proposal[cmd[o].id]
    BY <2>1, <1>5, <1>7
  <2> QED
    BY <2>1, <2>2, <1>1, <1>6 DEF ApplyInv
<1>11. IndexInv'
  <2> SUFFICES ASSUME NEW o \in Slots, At(o, "propose", "commit")' PROVE IndexInv!(o)!2'
    BY DEF IndexInv
  <2>1. o # c
    BY <1>6, IdleShape DEF At
  <2>2. cmd'[o] = cmd[o] /\ At(o, "propose", "commit")
    BY <2>1, <1>6 DEF At
  <2>3. ASSUME NEW q \in Ids, Open(q)' PROVE proposal'[q].diff # cmd[o].diff
    BY <2>1, <2>2, <2>3, <1>5a, <1>7 DEF IndexInv
  <2>4. ASSUME NEW x \in Slots \ {o}, At(x, "propose", "commit")'
        PROVE  cmd'[x].id # cmd'[o].id /\ cmd'[x].diff # cmd'[o].diff
    <3>1. x # c /\ cmd'[x] = cmd[x] /\ At(x, "propose", "commit")
      BY <2>4, <1>6, IdleShape DEF At
    <3> QED
      BY <3>1, <2>2 DEF IndexInv
  <2> QED
    BY <2>2, <2>3, <2>4
<1>12. OriginInv'
  <2>1. \A p \in Ids : proposal'[p].origin <= begun'
    BY <1>1, <1>2, <1>4, <1>5 DEF OriginInv
  <2>2. ASSUME NEW p \in Ids, NEW q \in Ids, p # q, proposal'[p].origin # NoRef
        PROVE  proposal'[p].origin # proposal'[q].origin
    BY <2>2, <1>2, <1>5a DEF OriginInv
  <2>3. ASSUME NEW o \in Slots, cmd'[o].own # NoRef
        PROVE  /\ \A p \in Ids : proposal'[p].origin # cmd'[o].own
               /\ \A x \in Slots \ {o} : cmd'[x].own # cmd'[o].own
    <3>1. o # c /\ cmd'[o] = cmd[o]
      BY <2>3, <1>6, IdleShape DEF NoRef
    <3> QED
      BY <2>3, <3>1, <1>5a, <1>6, IdleShape DEF OriginInv, NoRef
  <2> QED
    BY <2>1, <2>2, <2>3 DEF OriginInv
<1>13. /\ receipt' \in [Refs -> {"none", "admitted", "pending", "succeeded", "failed", "purged"}]
       /\ OriginFollows'
  <2>1. receipt' \in [Refs -> {"none", "admitted", "pending", "succeeded", "failed", "purged"}]
    BY <1>1 DEF TypeOK
  <2>2. ASSUME NEW p \in Ids, proposal'[p].origin # NoRef
        PROVE  receipt'[proposal'[p].origin] \in
                 CASE Open(p)' -> {"pending"}
                   [] proposal'[p].state = "applied" -> {"succeeded", "purged"}
                   [] OTHER -> {"failed", "purged"}
    <3>1. CASE p = id
      <4>1. cmd[c].own \in Refs
        BY <2>2, <3>1, <1>2, <1>5a, Numbers DEF Refs, NoRef
      <4> QED
        BY <3>1, <4>1, <1>1, <1>4, <1>5 DEF Open, OpenStates
    <3>2. CASE p # id
      <4>1. proposal'[p] = proposal[p]
        BY <1>5, <3>2
      <4>2. proposal[p].origin \in Refs /\ proposal[p].origin # cmd[c].own
        BY <2>2, <4>1, <1>2, RowShape, Numbers DEF TypeOK, Refs, NoRef
      <4>3. receipt'[proposal[p].origin] = receipt[proposal[p].origin]
        BY <4>2, <1>1
      <4> QED
        BY <2>2, <4>1, <4>3 DEF OriginFollows, Open
    <3> QED
      BY <3>1, <3>2
  <2> QED
    BY <2>1, <2>2 DEF OriginFollows
<1>14. TypeOK'
  BY <1>1, <1>5, <1>6, <1>13 DEF TypeOK
<1> QED
  BY <1>8, <1>9, <1>10, <1>11, <1>12, <1>13, <1>14

----------------------------------------------------------------------------
(* Requests: the ones that open a transaction hold their row from then on.  *)

(* Propose begins with nothing but a free slot. *)
LEMMA ProposeStep ==
    ASSUME IndInv, NEW c \in Slots, Propose(c)
    PROVE  IndInv'
<1>1. cmd[c] = Idle /\ begun < MaxCommands /\ begun' = begun + 1
      /\ UNCHANGED <<proposal, subject, purge, subjectLock, setLock, receiptLock>>
  BY DEF Propose, Admits
<1>2. PICK who \in Persons, d \in Diffs :
         \/ Reply(OneOpinion(who, Duplicates({d})))
         \/ /\ Enter(c, [Idle EXCEPT !.op = "propose", !.pc = "lock", !.who = who, !.diff = {d}])
            /\ UNCHANGED rowLock
  BY DEF Propose
<1>3. CASE Reply(OneOpinion(who, Duplicates({d})))
  <2>1. OneOpinion(who, Duplicates({d})) \in {"succeeded", "failed"}
    BY DEF OneOpinion
  <2> QED
    BY <1>1, <1>3, <2>1, Replied
<1>4. CASE /\ Enter(c, [Idle EXCEPT !.op = "propose", !.pc = "lock", !.who = who, !.diff = {d}])
           /\ UNCHANGED rowLock
  <2> DEFINE n == [[Idle EXCEPT !.op = "propose", !.pc = "lock", !.who = who, !.diff = {d}]
                     EXCEPT !.own = Admission]
  <2>1. cmd' = [cmd EXCEPT ![c] = n]
        /\ receipt' = [r \in Refs |-> IF r = Admission THEN "admitted" ELSE receipt[r]]
    BY <1>4 DEF Enter
  <2>2. n.op = "propose" /\ n.pc = "lock" /\ n.diff = {d} /\ n.own = Admission
    BY DEF Idle
  <2>3. n \in Commands
    <3> DEFINE k == [Idle EXCEPT !.op = "propose", !.pc = "lock", !.who = who, !.diff = {d}]
    <3>1. 0 \in 0..MaxProposals /\ 0 \in 0..MaxRevision /\ 0 \in 0..MaxCommands
      BY Numbers
    <3>2. k \in Commands /\ k.op = "propose"
      BY <3>1 DEF Commands, Idle, NoId, NoRef
    <3> HIDE DEF k
    <3>3. k \in Commands \ {Idle}
      BY <3>2, CommandShape
    <3>4. n = [k EXCEPT !.own = Admission]
      BY DEF k
    <3> HIDE DEF n
    <3>5. Admission \in 0..MaxCommands
      BY <1>1, Fresh
    <3> QED
      BY ONLY <3>3, <3>4, <3>5 DEF Commands
  <2> HIDE DEF n
  <2> QED
    BY <1>1, <1>4, <2>1, <2>2, <2>3, Enters
<1> QED
  BY <1>2, <1>3, <1>4

(* A command that opens a proposal's row: refused, answered, or under way with the lock. *)
LEMMA OpenStep ==
    ASSUME IndInv, NEW c \in Slots, NEW n \in Commands, n.id \in Ids,
           NEW entitled, NEW allowed, NEW repeated, OpenRow(c, n, entitled, allowed, repeated),
           n.op \in {"review", "apply", "withdraw"},
           entitled /\ allowed =>
              /\ n.op = "review" =>
                    /\ n.pc \in {"set", "commit"} /\ n.verdict \in {"approved", "declined"}
                    /\ proposal[n.id].state = "proposed" /\ n.who # proposal[n.id].proposer
              /\ n.op = "apply" => n.pc = "lock" /\ proposal[n.id].state = "approved"
              /\ n.op = "withdraw" => n.pc = "set" /\ Open(n.id)
    PROVE  IndInv'
<1>1. cmd[c] = Idle /\ begun < MaxCommands /\ begun' = begun + 1 /\ rowLock[n.id] = Nobody
      /\ UNCHANGED <<proposal, subject, purge, subjectLock, setLock, receiptLock>>
  BY DEF OpenRow, Admits
<1>2. \/ /\ entitled /\ allowed /\ Enter(c, n)
         /\ rowLock' = [rowLock EXCEPT ![n.id] = c]
      \/ \E outcome \in {"succeeded", "failed"} : Reply(outcome)
  BY DEF OpenRow
<1>3. CASE \E outcome \in {"succeeded", "failed"} : Reply(outcome)
  BY <1>1, <1>3, Replied
<1>4. CASE /\ entitled /\ allowed /\ Enter(c, n)
           /\ rowLock' = [rowLock EXCEPT ![n.id] = c]
  <2> DEFINE m == [n EXCEPT !.own = Admission]
  <2>1. cmd' = [cmd EXCEPT ![c] = m]
        /\ receipt' = [r \in Refs |-> IF r = Admission THEN "admitted" ELSE receipt[r]]
    BY <1>4 DEF Enter
  <2>2. n \in Commands \ {Idle}
    BY CommandShape
  <2>3. /\ m.op = n.op /\ m.pc = n.pc /\ m.id = n.id /\ m.who = n.who
        /\ m.verdict = n.verdict /\ m.own = Admission
    BY <2>2 DEF Commands
  <2>4. m \in Commands
    BY <1>1, <2>2, Fresh DEF Commands
  <2> HIDE DEF m
  <2> QED
    BY <1>1, <1>4, <2>1, <2>3, <2>4, Enters
<1> QED
  BY <1>2, <1>3, <1>4

(* Review, Apply and Withdraw begin on a row they lock. *)
LEMMA DecisionSteps ==
    ASSUME IndInv, NEW c \in Slots, Review(c) \/ Apply(c) \/ Withdraw(c)
    PROVE  IndInv'
<1>1. Ids \subseteq 0..MaxProposals /\ 0 \in 0..MaxRevision /\ 0 \in 0..MaxCommands
  BY Numbers DEF Ids
<1>2. CASE Review(c)
  <2>1. PICK who \in Persons, p \in Ids, v \in {"approved", "declined"} :
           OpenRow(c, [Idle EXCEPT !.op = "review", !.who = who, !.id = p, !.verdict = v,
                                   !.pc = IF v = "approved" THEN "commit" ELSE "set"],
                   who # proposal[p].proposer,
                   proposal[p].state = "proposed",
                   proposal[p].verdict = v /\ proposal[p].reviewer = who)
    BY <1>2 DEF Review
  <2> DEFINE n == [Idle EXCEPT !.op = "review", !.who = who, !.id = p, !.verdict = v,
                               !.pc = IF v = "approved" THEN "commit" ELSE "set"]
  <2>2. n.op = "review" /\ n.who = who /\ n.id = p /\ n.verdict = v /\ n.pc \in {"set", "commit"}
    BY DEF Idle
  <2>3. n \in Commands
    BY <1>1 DEF Commands, Idle, NoId, NoRef
  <2> DEFINE allowed == proposal[p].state = "proposed"
             repeated == proposal[p].verdict = v /\ proposal[p].reviewer = who
  <2>4. OpenRow(c, n, who # proposal[p].proposer, allowed, repeated)
    BY <2>1
  <2> HIDE DEF n, repeated
  <2> QED
    BY <2>2, <2>3, <2>4, OpenStep
<1>3. CASE Apply(c)
  <2>1. PICK who \in Persons, p \in Ids :
           OpenRow(c, [Idle EXCEPT !.op = "apply", !.who = who, !.id = p, !.pc = "lock"],
                   who # proposal[p].proposer, proposal[p].state = "approved",
                   proposal[p].state = "applied")
    BY <1>3 DEF Apply
  <2> DEFINE n == [Idle EXCEPT !.op = "apply", !.who = who, !.id = p, !.pc = "lock"]
  <2>2. n.op = "apply" /\ n.id = p /\ n.pc = "lock"
    BY DEF Idle
  <2>3. n \in Commands
    BY <1>1 DEF Commands, Idle, NoId, NoRef
  <2> HIDE DEF n
  <2> QED
    BY <2>1, <2>2, <2>3, OpenStep DEF n
<1>4. CASE Withdraw(c)
  <2>1. PICK who \in Persons, p \in Ids :
           OpenRow(c, [Idle EXCEPT !.op = "withdraw", !.who = who, !.id = p, !.pc = "set"],
                   who = proposal[p].proposer, Open(p), proposal[p].state = "withdrawn")
    BY <1>4 DEF Withdraw
  <2> DEFINE n == [Idle EXCEPT !.op = "withdraw", !.who = who, !.id = p, !.pc = "set"]
  <2>2. n.op = "withdraw" /\ n.id = p /\ n.pc = "set"
    BY DEF Idle
  <2>3. n \in Commands
    BY <1>1 DEF Commands, Idle, NoId, NoRef
  <2> HIDE DEF n
  <2> QED
    BY <2>1, <2>2, <2>3, OpenStep DEF n
<1> QED
  BY <1>2, <1>3, <1>4

----------------------------------------------------------------------------
(* Steps of a transaction that writes nothing yet, or nothing at all.       *)

(* The fields of a command under way. *)
LEMMA Command ==
    ASSUME IndInv, NEW c \in Slots, cmd[c].pc # "idle"
    PROVE  /\ cmd[c] \in Commands /\ cmd[c].op \in {"propose", "review", "apply", "withdraw"}
           /\ cmd[c].id \in 0..MaxProposals
<1>1. cmd[c] \in Commands /\ cmd[c] # Idle
  BY IdleShape DEF IndInv, TypeOK
<1> QED
  BY <1>1, CommandShape

(* The subject's lock, and what Apply and Propose read under it. *)
LEMMA LockStep ==
    ASSUME IndInv, NEW c \in Slots, Lock(c)
    PROVE  IndInv'
<1> DEFINE pc == IF cmd[c].op = "propose" THEN "insert" ELSE "set"
           n == [[cmd[c] EXCEPT !.revision = subject.revision, !.doc = subject.doc] EXCEPT !.pc = pc]
<1>1. /\ cmd[c].pc = "lock" /\ cmd[c].op \in {"propose", "apply"}
      /\ cmd[c].op = "apply" => subject.revision = proposal[cmd[c].id].base
      /\ cmd' = [cmd EXCEPT ![c] = n]
      /\ subject.exists => subjectLock = Nobody
      /\ subjectLock' = IF subject.exists THEN c ELSE subjectLock
      /\ UNCHANGED <<proposal, subject, receipt, purge, rowLock, setLock, receiptLock, begun>>
  BY DEF Lock
<1>2. cmd[c] \in Commands /\ cmd[c].op # "none" /\ pc \in {"insert", "set"}
      /\ (cmd[c].op = "propose" => pc = "insert") /\ (cmd[c].op = "apply" => pc = "set")
  BY <1>1, Command
<1>3. subject.revision \in 0..MaxRevision /\ subject.doc \in SUBSET Diffs
  BY DEF IndInv, TypeOK
<1>4. n \in Commands
  BY <1>2, <1>3, MovedCommand
<1>5. /\ n.op = cmd[c].op /\ n.own = cmd[c].own /\ n.who = cmd[c].who /\ n.id = cmd[c].id
      /\ n.diff = cmd[c].diff /\ n.verdict = cmd[c].verdict
      /\ n.pc = pc /\ n.doc = subject.doc
  <2>1. cmd[c] \in Commands \ {Idle}
    BY <1>2, CommandShape
  <2> HIDE DEF pc
  <2> QED
    BY <2>1 DEF Commands
<1>6. cmd[c].op = "apply" /\ proposal[cmd[c].id].base > 0 => subjectLock' = c
  <2>1. subject.revision > 0 => subject.exists
    BY DEF IndInv, SubjectInv
  <2> QED
    BY <1>1, <2>1
<1>7. subjectLock' = subjectLock \/ (subjectLock' = c /\ subjectLock \in {Nobody, c})
  BY <1>1
<1>8. setLock' \in Holders \cup {Purger} /\ receiptLock' \in [Refs -> Holders \cup {Purger}]
  BY <1>1 DEF IndInv, TypeOK
<1> HIDE DEF n, pc
<1> QED
  BY <1>1, <1>2, <1>4, <1>5, <1>6, <1>7, <1>8, Moves

(* A step that moves a transaction's place alone.                           *)
LEMMA PlaceMoves ==
    ASSUME IndInv, NEW c \in Slots,
           cmd[c].op # "none",
           NEW pc \in {"lock", "insert", "collided", "set", "receipts", "save", "create", "commit"},
           Goto(c, pc),
           UNCHANGED <<proposal, subject, receipt, purge, rowLock, begun>>,
           setLock' \in Holders \cup {Purger},
           receiptLock' \in [Refs -> Holders \cup {Purger}],
           subjectLock' = subjectLock \/ (subjectLock' = c /\ subjectLock \in {Nobody, c}),
           cmd[c].op = "propose" => pc \in {"lock", "insert", "collided"},
           cmd[c].op \in {"review", "withdraw"} => pc \in {"set", "receipts", "commit"},
           cmd[c].op = "apply" =>
              /\ pc \in {"set", "receipts", "save", "create", "commit"} /\ cmd[c].pc # "lock"
              /\ pc = "commit" => subjectLock' = c
    PROVE  IndInv'
<1> DEFINE n == [cmd[c] EXCEPT !.pc = pc]
<1>1. cmd[c] \in Commands /\ cmd \in [Slots -> Commands]
  BY DEF IndInv, TypeOK
<1>2. n \in Commands
  BY <1>1, MovedCommand
<1>3. /\ n.op = cmd[c].op /\ n.own = cmd[c].own /\ n.who = cmd[c].who /\ n.id = cmd[c].id
      /\ n.diff = cmd[c].diff /\ n.verdict = cmd[c].verdict /\ n.pc = pc /\ n.doc = cmd[c].doc
  <2>1. cmd[c] \in Commands \ {Idle}
    BY <1>1, CommandShape
  <2> QED
    BY <2>1 DEF Commands
<1>4. cmd' = [cmd EXCEPT ![c] = n]
  BY <1>1 DEF Goto
<1> HIDE DEF n
<1>5. n.op = "apply" /\ proposal[n.id].base > 0 =>
         subjectLock' = c /\ subject.revision = proposal[n.id].base /\ n.doc = subject.doc
  BY <1>3 DEF IndInv, ApplyInv
<1> QED
  BY <1>2, <1>3, <1>4, <1>5, Moves

(* The insert, once no uncommitted duplicate is left to wait for. *)
LEMMA InsertStep ==
    ASSUME IndInv, NEW c \in Slots, Insert(c)
    PROVE  IndInv'
<1>1. /\ cmd[c].op = "propose" /\ cmd[c].pc = "insert" /\ ~Undecided(c, cmd[c].diff)
      /\ UNCHANGED <<proposal, subject, receipt, locks, purge, begun>>
  BY DEF Insert, At
<1>2. /\ UNCHANGED <<rowLock, subjectLock>>
      /\ setLock' \in Holders \cup {Purger} /\ receiptLock' \in [Refs -> Holders \cup {Purger}]
  BY <1>1 DEF locks, IndInv, TypeOK
<1>3. CASE Goto(c, "collided")
  BY <1>1, <1>2, <1>3, PlaceMoves
<1>4. CASE /\ Duplicates(cmd[c].diff) = {}
           /\ \E p \in Ids : /\ proposal[p] = Absent
                             /\ \A o \in Slots : cmd[o].id # p
                             /\ cmd' = [cmd EXCEPT ![c].pc = "commit", ![c].id = p]
  <2>1. PICK p \in Ids : /\ proposal[p] = Absent
                         /\ \A o \in Slots : cmd[o].id # p
                         /\ cmd' = [cmd EXCEPT ![c].pc = "commit", ![c].id = p]
    BY <1>4
  <2> DEFINE n == [cmd[c] EXCEPT !.pc = "commit", !.id = p]
  <2>2. cmd[c] \in Commands /\ cmd \in [Slots -> Commands]
    BY DEF IndInv, TypeOK
  <2>3. p \in 0..MaxProposals
    BY Numbers DEF Ids
  <2>4. n \in Commands
    BY <1>1, <2>2, <2>3, MovedCommand
  <2>5. /\ n.op = cmd[c].op /\ n.own = cmd[c].own /\ n.who = cmd[c].who /\ n.id = p
        /\ n.diff = cmd[c].diff /\ n.verdict = cmd[c].verdict /\ n.pc = "commit"
    <3>1. cmd[c] \in Commands \ {Idle}
      BY <1>1, <2>2, CommandShape
    <3> QED
      BY <3>1 DEF Commands
  <2>6. cmd' = [cmd EXCEPT ![c] = n]
    BY <2>1, <2>2
  <2> HIDE DEF n
  <2>7. \A q \in Ids : Open(q) => proposal[q].diff # n.diff
    BY <1>4, <2>5 DEF Duplicates
  <2>8. \A o \in Slots \ {c} : At(o, "propose", "commit") => cmd[o].id # n.id /\ cmd[o].diff # n.diff
    BY <1>1, <2>1, <2>5 DEF Undecided, At
  <2>9. n.id \in Ids /\ proposal[n.id] = Absent
    BY <2>1, <2>5
  <2>10. UNCHANGED <<proposal, subject, receipt, purge, rowLock, subjectLock, begun>>
    BY <1>1, <1>2
  <2>11. cmd[c].op = "propose" /\ n.op = "propose" /\ n.pc = "commit"
    BY <1>1, <2>5
  <2> QED
    BY <1>2, <2>4, <2>5, <2>6, <2>7, <2>8, <2>9, <2>10, <2>11, Moves
<1> QED
  BY <1>3, <1>4 DEF Insert

(* The steps that take receipts, save and create.                           *)
LEMMA DecidingOp ==
    ASSUME IndInv, NEW c \in Slots, cmd[c].pc \in {"set", "receipts", "save", "create"}
    PROVE  /\ cmd[c].op \in {"review", "apply", "withdraw"}
           /\ cmd[c].pc \in {"save", "create"} => cmd[c].op = "apply"
  BY Command DEF IndInv, CmdInv

(* The steps of a decision between its row lock and its commit. *)
LEMMA DecidingSteps ==
    ASSUME IndInv, NEW c \in Slots,
           LockSet(c) \/ LockReceipts(c) \/ Original(c) \/ Save(c) \/ Create(c)
    PROVE  IndInv'
<1>1. /\ setLock \in Holders \cup {Purger} /\ receiptLock \in [Refs -> Holders \cup {Purger}]
      /\ c \in Holders
  BY DEF IndInv, TypeOK, Holders
<1>2. CASE LockSet(c)
  <2>1. setLock' \in Holders \cup {Purger} /\ cmd[c].pc = "set"
    BY <1>1, <1>2 DEF LockSet
  <2> QED
    BY <1>1, <1>2, <2>1, DecidingOp, PlaceMoves DEF LockSet
<1>3. CASE LockReceipts(c)
  <2>1. /\ UNCHANGED <<proposal, subject, receipt, cmd, purge, rowLock, subjectLock, setLock, begun>>
        /\ receiptLock' \in [Refs -> Holders \cup {Purger}]
    BY <1>1, <1>3 DEF LockReceipts
  <2>2. AppliedIds' = AppliedIds
    BY <2>1 DEF AppliedIds
  <2>3. TypeOK'
    BY <2>1 DEF IndInv, TypeOK
  <2>4. RowInv' /\ SubjectInv' /\ OneOpinionOpen' /\ OriginFollows'
    BY <2>1, <2>2 DEF IndInv, RowInv, SubjectInv, OneOpinionOpen, OriginFollows, Open
  <2>5. CmdInv' /\ ApplyInv'
    BY <2>1 DEF IndInv, CmdInv, ApplyInv, Open
  <2>6. IndexInv' /\ OriginInv'
    BY <2>1 DEF IndInv, IndexInv, OriginInv, Open, At
  <2> QED
    BY <2>3, <2>4, <2>5, <2>6 DEF IndInv
<1>4. CASE Original(c)
  <2>1. cmd[c].pc = "receipts" /\ UNCHANGED <<purge, begun>>
    BY <1>4 DEF Original
  <2>2. CASE Refuse(c)
    BY <2>1, <2>2, Ends DEF Refuse, Answer
  <2>3. CASE /\ Goto(c, IF cmd[c].op = "apply" THEN "save" ELSE "commit")
             /\ UNCHANGED <<proposal, subject, receipt, locks>>
    BY <1>1, <2>1, <2>3, DecidingOp, PlaceMoves DEF locks
  <2> QED
    BY <1>4, <2>2, <2>3 DEF Original
<1>5. CASE Save(c)
  <2>1. /\ cmd[c].op = "apply" /\ cmd[c].pc = "save"
        /\ subjectLock' = IF subject.exists THEN c ELSE subjectLock
        /\ subject.exists => subjectLock \in {Nobody, c}
        /\ Goto(c, IF subject.exists THEN "commit" ELSE "create")
        /\ UNCHANGED <<proposal, subject, receipt, purge, rowLock, setLock, receiptLock, begun>>
    BY <1>5 DEF Save, At
  <2>2. CASE subject.exists
    BY <1>1, <2>1, <2>2, PlaceMoves
  <2>3. CASE ~subject.exists
    BY <1>1, <2>1, <2>3, PlaceMoves
  <2> QED
    BY <2>2, <2>3
<1>6. CASE Create(c)
  <2>1. cmd[c].op = "apply" /\ cmd[c].pc = "create" /\ subjectLock = Nobody
        /\ UNCHANGED <<purge, begun>>
    BY <1>6 DEF Create, At
  <2>2. CASE Refuse(c)
    BY <2>1, <2>2, Ends DEF Refuse, Answer
  <2>3. CASE /\ subjectLock' = c /\ Goto(c, "commit")
             /\ UNCHANGED <<proposal, subject, receipt, rowLock, setLock, receiptLock>>
    BY <1>1, <2>1, <2>3, PlaceMoves
  <2> QED
    BY <1>6, <2>2, <2>3 DEF Create
<1> QED
  BY <1>2, <1>3, <1>4, <1>5, <1>6

(* A transaction that is refused, or answered, or lost.                     *)
LEMMA EndingSteps ==
    ASSUME IndInv, NEW c \in Slots, StaleBase(c) \/ Collided(c) \/ Crash(c)
    PROVE  IndInv'
<1>1. CASE StaleBase(c)
  BY <1>1, Ends DEF StaleBase, Refuse, Answer
<1>2. CASE Collided(c)
  <2>1. OneOpinion(cmd[c].who, Duplicates(cmd[c].diff)) \in {"succeeded", "failed"}
    BY DEF OneOpinion
  <2> QED
    BY <1>2, <2>1, Ends DEF Collided, Answer
<1>3. CASE Crash(c)
  BY <1>3, Ends DEF Crash
<1> QED
  BY <1>1, <1>2, <1>3

----------------------------------------------------------------------------
(* What else happens.                                                       *)

(* A direct edit moves the subject's revision. *)
LEMMA EditStep ==
    ASSUME IndInv, Edit
    PROVE  IndInv'
<1> USE DEF IndInv
<1>1. /\ subjectLock = Nobody /\ subject.revision <= MaxEdits
      /\ UNCHANGED <<proposal, receipt, cmd, purge, rowLock, subjectLock, setLock, receiptLock, begun>>
  BY DEF Edit, locks
<1>2. PICK doc \in SUBSET Diffs : subject' = Saved(doc)
  BY DEF Edit
<1>3. /\ subject'.exists \in BOOLEAN /\ subject'.revision \in Nat
      /\ subject'.revision <= subject.revision + 1
      /\ subject'.exists <=> subject'.revision > 0
      /\ subject' = [exists |-> subject'.exists, revision |-> subject'.revision, doc |-> doc]
  BY <1>2, Saves, Zenon
<1>4. subject.revision \in Nat
  <2>1. subject.revision \in 0..MaxRevision
    BY DEF TypeOK
  <2> QED
    BY <2>1, Numbers
<1>5. Cardinality(AppliedIds) \in Nat /\ AppliedIds' = AppliedIds
  BY <1>1, Applied DEF AppliedIds
<1>6. subject'.revision <= MaxEdits + 1 + Cardinality(AppliedIds)
      /\ subject'.revision \in 0..MaxRevision
  BY ONLY <1>1, <1>3, <1>4, <1>5, Numbers
<1>7. SubjectInv'
  BY <1>3, <1>5, <1>6 DEF SubjectInv
<1>8. TypeOK'
  BY <1>1, <1>3, <1>6 DEF TypeOK
<1>9. RowInv' /\ OneOpinionOpen' /\ OriginFollows' /\ CmdInv' /\ IndexInv' /\ OriginInv'
  <2>1. RowInv' /\ OneOpinionOpen' /\ OriginFollows'
    BY <1>1 DEF RowInv, OneOpinionOpen, OriginFollows, Open
  <2>2. CmdInv'
    BY <1>1 DEF CmdInv, Open
  <2>3. IndexInv' /\ OriginInv'
    BY <1>1 DEF IndexInv, OriginInv, Open, At
  <2> QED
    BY <2>1, <2>2, <2>3
<1>10. ApplyInv'
  <2>1. \A o \in Slots : o # Nobody
    BY PeopleAssumption
  <2> QED
    BY <1>1, <2>1 DEF ApplyInv
<1> QED
  BY <1>7, <1>8, <1>9, <1>10

(* The receipts' purge, lock by lock. *)
LEMMA PurgeSteps ==
    ASSUME IndInv, PurgeBegin \/ PurgeLock \/ PurgeCommit
    PROVE  IndInv'
<1> USE DEF IndInv
<1>1. UNCHANGED <<proposal, subject, cmd, rowLock, subjectLock, begun>>
  BY DEF PurgeBegin, PurgeLock, PurgeCommit
<1>2. /\ receipt' \in [Refs -> {"none", "admitted", "pending", "succeeded", "failed", "purged"}]
      /\ \A r \in Refs : \/ receipt'[r] = receipt[r]
                         \/ receipt[r] \in {"succeeded", "failed"} /\ receipt'[r] = "purged"
  <2>1. CASE UNCHANGED receipt
    BY <2>1 DEF TypeOK
  <2>2. CASE PurgeCommit
    BY <2>2 DEF PurgeCommit, Expired, TypeOK
  <2> QED
    BY <2>1, <2>2 DEF PurgeBegin, PurgeLock
<1>3. TypeOK'
  <2>1. purge' \subseteq Refs
    BY DEF PurgeBegin, PurgeLock, PurgeCommit, TypeOK
  <2>2. setLock' \in Holders \cup {Purger} /\ receiptLock' \in [Refs -> Holders \cup {Purger}]
    BY DEF PurgeBegin, PurgeLock, PurgeCommit, TypeOK, Holders
  <2> QED
    BY <1>1, <1>2, <2>1, <2>2 DEF TypeOK
<1>4. OriginFollows'
  <2> SUFFICES ASSUME NEW p \in Ids, proposal[p].origin # NoRef
               PROVE  receipt'[proposal[p].origin] \in
                        CASE Open(p) -> {"pending"}
                          [] proposal[p].state = "applied" -> {"succeeded", "purged"}
                          [] OTHER -> {"failed", "purged"}
    BY <1>1 DEF OriginFollows, Open
  <2>1. proposal[p].origin \in Refs
    BY RowShape, Numbers DEF TypeOK, Refs, NoRef
  <2>2. receipt[proposal[p].origin] \in
           CASE Open(p) -> {"pending"}
             [] proposal[p].state = "applied" -> {"succeeded", "purged"}
             [] OTHER -> {"failed", "purged"}
    BY DEF OriginFollows
  <2> QED
    BY <2>1, <2>2, <1>2
<1>5. RowInv' /\ SubjectInv' /\ OneOpinionOpen'
  <2>1. AppliedIds' = AppliedIds
    BY <1>1 DEF AppliedIds
  <2> QED
    BY <1>1, <2>1 DEF RowInv, SubjectInv, OneOpinionOpen, Open
<1>6. CmdInv' /\ ApplyInv'
  BY <1>1 DEF CmdInv, ApplyInv, Open
<1>7. IndexInv' /\ OriginInv'
  BY <1>1 DEF IndexInv, OriginInv, Open, At
<1> QED
  BY <1>3, <1>4, <1>5, <1>6, <1>7

----------------------------------------------------------------------------
(* The invariant holds in every reachable state.                            *)

(* No proposal, no command and no lock satisfy the invariant. *)
LEMMA InitInv == Init => IndInv
<1> SUFFICES ASSUME Init PROVE IndInv
  OBVIOUS
<1>1. PICK row \in {TRUE, ~Rowless} :
         subject = [exists |-> row, revision |-> IF row THEN 1 ELSE 0, doc |-> {}]
  BY DEF Init
<1>2. row \in BOOLEAN
  BY ChangeBounds
<1>3. subject.exists = row /\ subject.revision = IF row THEN 1 ELSE 0
  BY <1>1
<1>4. /\ proposal = [p \in Ids |-> Absent] /\ receipt = [r \in Refs |-> "none"]
      /\ cmd = [c \in Slots |-> Idle] /\ purge = {}
      /\ rowLock = [p \in Ids |-> Nobody] /\ subjectLock = Nobody
      /\ setLock = Nobody /\ receiptLock = [r \in Refs |-> Nobody] /\ begun = 0
  BY DEF Init
<1>5. Absent.state = "absent" /\ Absent.origin = NoRef /\ Absent \in Proposals
  BY DEF Absent, Proposals
<1>6. TypeOK
  <2>1. subject \in [exists : BOOLEAN, revision : 0..MaxRevision, doc : SUBSET Diffs]
    <3>1. (IF row THEN 1 ELSE 0) \in 0..MaxRevision
      BY Numbers
    <3> QED
      BY <1>1, <1>2, <3>1
  <2>2. begun \in 0..MaxCommands
    BY <1>4, Numbers
  <2> QED
    BY <1>4, <1>5, <2>1, <2>2, IdleShape DEF TypeOK, Holders
<1>7. SubjectInv
  <2>1. subject.exists <=> subject.revision > 0
    BY <1>2, <1>3
  <2>2. Cardinality(AppliedIds) \in Nat
    BY Applied DEF AppliedIds
  <2>3. subject.revision \in {0, 1}
    BY <1>3
  <2>4. subject.revision <= MaxEdits + 1 + Cardinality(AppliedIds)
    BY ONLY <2>2, <2>3, Numbers
  <2> QED
    BY <2>1, <2>4 DEF SubjectInv
<1>8. RowInv /\ CmdInv /\ ApplyInv /\ IndexInv
  <2>1. RowInv /\ ApplyInv /\ IndexInv
    BY <1>4, <1>5, IdleShape DEF RowInv, ApplyInv, IndexInv, At
  <2>2. \A c \in Slots : cmd[c] = Idle /\ cmd[c].own <= begun
    BY <1>4, IdleShape
  <2>3. CmdInv
    BY <2>2, IdleShape DEF CmdInv
  <2> QED
    BY <2>1, <2>3
<1>9. OriginInv /\ OneOpinionOpen /\ OriginFollows
  BY <1>4, <1>5, IdleShape DEF OriginInv, OneOpinionOpen, OriginFollows, Open, OpenStates, NoRef
<1> QED
  BY <1>6, <1>7, <1>8, <1>9 DEF IndInv

(* Every step keeps the invariant. *)
LEMMA NextInv == IndInv /\ [Next]_vars => IndInv'
<1> SUFFICES ASSUME IndInv, [Next]_vars PROVE IndInv'
  OBVIOUS
<1>1. ASSUME NEW c \in Slots, Propose(c) PROVE IndInv'
  BY <1>1, ProposeStep
<1>2. ASSUME NEW c \in Slots, Review(c) \/ Apply(c) \/ Withdraw(c) PROVE IndInv'
  BY <1>2, DecisionSteps
<1>3. ASSUME NEW c \in Slots, Lock(c) PROVE IndInv'
  BY <1>3, LockStep
<1>4. ASSUME NEW c \in Slots, StaleBase(c) \/ Collided(c) \/ Crash(c) PROVE IndInv'
  BY <1>4, EndingSteps
<1>5. ASSUME NEW c \in Slots, Insert(c) PROVE IndInv'
  BY <1>5, InsertStep
<1>6. ASSUME NEW c \in Slots, CommitPropose(c) PROVE IndInv'
  BY <1>6, ProposeCommits
<1>7. ASSUME NEW c \in Slots,
             LockSet(c) \/ LockReceipts(c) \/ Original(c) \/ Save(c) \/ Create(c)
      PROVE  IndInv'
  BY <1>7, DecidingSteps
<1>8. ASSUME NEW c \in Slots, Commit(c) PROVE IndInv'
  BY <1>8, Commits
<1>9. CASE Edit
  BY <1>9, EditStep
<1>10. CASE PurgeBegin \/ PurgeLock \/ PurgeCommit
  BY <1>10, PurgeSteps
<1>11. CASE UNCHANGED vars
  <2>1. UNCHANGED <<proposal, subject, receipt, cmd, purge, rowLock, subjectLock, setLock,
                    receiptLock, begun>>
    BY <1>11 DEF vars, locks
  <2>2. AppliedIds' = AppliedIds
    BY <2>1 DEF AppliedIds
  <2>3. TypeOK'
    BY <2>1 DEF IndInv, TypeOK
  <2>4. RowInv' /\ SubjectInv' /\ OneOpinionOpen' /\ OriginFollows'
    BY <2>1, <2>2 DEF IndInv, RowInv, SubjectInv, OneOpinionOpen, OriginFollows, Open
  <2>5. CmdInv' /\ ApplyInv'
    BY <2>1 DEF IndInv, CmdInv, ApplyInv, Open
  <2>6. IndexInv' /\ OriginInv'
    BY <2>1 DEF IndInv, IndexInv, OriginInv, Open, At
  <2> QED
    BY <2>3, <2>4, <2>5, <2>6 DEF IndInv
<1> QED
  BY <1>1, <1>2, <1>3, <1>4, <1>5, <1>6, <1>7, <1>8, <1>9, <1>10, <1>11 DEF Next, Step

(* The inductive invariant: who holds which row and in which state, what an *)
(* apply that has asked about staleness relies on, and whose each receipt   *)
(* is (open, Subject.Lock, DeferOperation).                                 *)
THEOREM Inductive == Spec => []IndInv
  BY InitInv, NextInv, PTL DEF Spec

(* Every row, transaction and lock is well formed; in particular, nobody    *)
(* moves the subject more often than there are writes and proposals.        *)
THEOREM TypeCorrect == Spec => []TypeOK
<1>1. IndInv => TypeOK
  BY DEF IndInv
<1> QED
  BY <1>1, Inductive, PTL

(* However submits interleave with one another and with decisions, no two   *)
(* open proposals hold the same bytes (openDuplicate, insert).              *)
THEOREM OneOpinionAtATime == Spec => []OneOpinionOpen
<1>1. IndInv => OneOpinionOpen
  BY DEF IndInv
<1> QED
  BY <1>1, Inductive, PTL

(* The receipt of the request that proposed a change waits as long as the   *)
(* proposal is open, is never purged before, and ends as the proposal does  *)
(* (DeferOperation, original, PurgeAt).                                     *)
THEOREM ReceiptFollows == Spec => []OriginFollows
<1>1. IndInv => OriginFollows
  BY DEF IndInv
<1> QED
  BY <1>1, Inductive, PTL

----------------------------------------------------------------------------
(* Who changes a proposal's row, and how.                                   *)

(* Only a commit writes a proposal's row. *)
LEMMA RowsMove ==
    ASSUME IndInv, [Next]_vars
    PROVE  \/ UNCHANGED proposal
           \/ \E c \in Slots : Commit(c) \/ CommitPropose(c)
<1> SUFFICES ASSUME \A c \in Slots : ~Commit(c) /\ ~CommitPropose(c)
             PROVE  UNCHANGED proposal
  OBVIOUS
<1>1. ASSUME NEW c \in Slots, Propose(c) \/ Review(c) \/ Apply(c) \/ Withdraw(c)
      PROVE  UNCHANGED proposal
  <2>1. CASE Propose(c)
    BY <2>1 DEF Propose
  <2>2. CASE Review(c)
    BY <2>2 DEF Review, OpenRow
  <2>3. CASE Apply(c)
    BY <2>3 DEF Apply, OpenRow
  <2>4. CASE Withdraw(c)
    BY <2>4 DEF Withdraw, OpenRow
  <2> QED
    BY <1>1, <2>1, <2>2, <2>3, <2>4
<1>2. ASSUME NEW c \in Slots,
             \/ Lock(c) \/ StaleBase(c) \/ Insert(c) \/ Collided(c) \/ Crash(c)
             \/ LockSet(c) \/ LockReceipts(c) \/ Original(c) \/ Save(c) \/ Create(c)
      PROVE  UNCHANGED proposal
  BY <1>2 DEF Lock, StaleBase, Insert, Collided, Crash, LockSet, LockReceipts, Original, Save,
              Create, Refuse, Answer
<1>3. CASE Edit \/ PurgeBegin \/ PurgeLock \/ PurgeCommit \/ UNCHANGED vars
  BY <1>3 DEF Edit, PurgeBegin, PurgeLock, PurgeCommit, vars
<1> QED
  BY <1>1, <1>2, <1>3 DEF Next, Step

(* A commit leaves every other row; a proposal's commit fills an absent one.*)
LEMMA RowsAfter ==
    ASSUME IndInv, NEW c \in Slots, Commit(c) \/ CommitPropose(c), NEW p \in Ids
    PROVE  \/ proposal'[p] = proposal[p]
           \/ CommitPropose(c) /\ proposal[p] = Absent /\ proposal'[p].state = "proposed"
           \/ Commit(c) /\ p = cmd[c].id /\ proposal'[p] = Decided(c)
<1>1. proposal \in [Ids -> Proposals]
  BY DEF IndInv, TypeOK
<1>2. CASE Commit(c)
  BY <1>1, <1>2 DEF Commit
<1>3. CASE CommitPropose(c)
  <2>1. proposal[cmd[c].id] = Absent
    BY <1>3 DEF IndInv, CmdInv, CommitPropose, At
  <2> QED
    BY <1>1, <1>3, <2>1 DEF CommitPropose
<1> QED
  BY <1>2, <1>3

(* A verdict, once given, stands, and a proposal that is over stays as it   *)
(* ended, whatever else is sent about it (Review, Apply, Withdraw).         *)
THEOREM VerdictIsFinal == Spec => VerdictStands
<1> DEFINE Stands(p) ==
      /\ proposal[p].verdict # "" =>
           <<proposal'[p].verdict, proposal'[p].reviewer>> = <<proposal[p].verdict, proposal[p].reviewer>>
      /\ proposal[p] # Absent /\ ~Open(p) => proposal'[p] = proposal[p]
<1>1. IndInv /\ [Next]_vars => [\A p \in Ids : Stands(p)]_vars
  <2> SUFFICES ASSUME IndInv, [Next]_vars, NEW p \in Ids PROVE Stands(p)
    OBVIOUS
  <2>1. CASE proposal'[p] = proposal[p]
    BY <2>1
  <2>2. CASE proposal[p] = Absent
    <3>1. Absent.verdict = ""
      BY DEF Absent
    <3> QED
      BY <2>2, <3>1
  <2>3. ASSUME NEW c \in Slots, Commit(c), p = cmd[c].id, proposal'[p] = Decided(c)
        PROVE  Stands(p)
    <3>1. cmd[c].pc = "commit" /\ cmd[c].op # "propose"
      BY <2>3 DEF Commit
    <3>2. /\ Open(p)
          /\ cmd[c].op = "review" => proposal[p].state = "proposed"
          /\ cmd[c].op # "review" => /\ Decided(c).verdict = proposal[p].verdict
                                     /\ Decided(c).reviewer = proposal[p].reviewer
      BY <2>3, <3>1, Decides
    <3>3. proposal[p].state = "proposed" => proposal[p].verdict = ""
      BY DEF IndInv, RowInv
    <3> QED
      BY <2>3, <3>2, <3>3
  <2> QED
    BY <2>1, <2>2, <2>3, RowsMove, RowsAfter
<1> QED
  BY <1>1, Inductive, PTL DEF Spec, VerdictStands

(* A proposal made against a row is applied on the revision it was made     *)
(* against, as the one thing added to its document, and only when somebody  *)
(* who is not its author approved it (Apply, Subject.Lock, Subject.Save).   *)
THEOREM AppliesWhatWasReviewed == Spec => AppliedAsReviewed
<1>1. IndInv /\ [Next]_vars =>
        [\A p \in Ids : proposal[p].base > 0 /\ BecomesApplied(p) => AppliesAsReviewed(p)]_vars
  <2> SUFFICES ASSUME IndInv, [Next]_vars, NEW p \in Ids,
                      proposal[p].base > 0, BecomesApplied(p)
               PROVE  AppliesAsReviewed(p)
    OBVIOUS
  <2>1. PICK c \in Slots : Commit(c) /\ p = cmd[c].id /\ proposal'[p] = Decided(c)
    BY RowsMove, RowsAfter DEF BecomesApplied
  <2>2. /\ cmd[c].op \in {"review", "apply", "withdraw"}
        /\ cmd[c].op = "apply" => proposal[p].state = "approved"
        /\ cmd[c].op = "review" => Decided(c).state \in {"approved", "declined"}
        /\ cmd[c].op = "withdraw" => Decided(c).state = "withdrawn"
    BY <2>1, Decides DEF Commit
  <2>3. cmd[c].op = "apply" /\ cmd[c].pc = "commit" /\ proposal[p].state = "approved"
    BY <2>1, <2>2 DEF BecomesApplied, Commit
  <2>4. subject.revision = proposal[p].base /\ cmd[c].doc = subject.doc
    BY <2>1, <2>3 DEF IndInv, ApplyInv
  <2>5. proposal[p].reviewer # proposal[p].proposer
    BY <2>3 DEF IndInv, RowInv
  <2>6. subject'.doc = subject.doc \cup proposal[p].diff
    <3> DEFINE doc == Merged(c)
    <3>1. doc = subject.doc \cup proposal[p].diff
      BY <2>1, <2>4 DEF Merged
    <3>2. doc \in SUBSET Diffs
      BY <3>1, RowShape DEF IndInv, TypeOK
    <3>3. subject' = Saved(doc)
      BY <2>1, <2>3 DEF Commit
    <3> HIDE DEF doc
    <3>4. Saved(doc).doc = doc
      BY <3>2, Saves DEF IndInv
    <3> QED
      BY <3>1, <3>3, <3>4
  <2> QED
    BY <2>3, <2>4, <2>5, <2>6 DEF AppliesAsReviewed
<1> QED
  BY <1>1, Inductive, PTL DEF Spec, AppliedAsReviewed

----------------------------------------------------------------------------
(* Who holds which lock, and why nobody waits for ever.                     *)

Deciding == {"review", "apply", "withdraw"}
Holding == {"receipts", "save", "create", "commit"}   \* past the set lock

(* What a transaction may hold at its place.                                *)
HoldsInOrder(c) ==
    /\ subjectLock = c =>
          \/ cmd[c].op = "propose" /\ cmd[c].pc # "lock"
          \/ cmd[c].op = "apply" /\ cmd[c].pc \in {"set", "receipts", "save", "commit"}
    /\ subjectLock = c /\ ~subject.exists => cmd[c].pc = "commit"
    /\ setLock = c => cmd[c].op \in Deciding /\ cmd[c].pc \in Holding
    /\ \A r \in Refs : receiptLock[r] = c =>
          cmd[c].op \in Deciding /\ cmd[c].pc \in Holding /\ r \in RefsOf(c)
    /\ cmd[c].pc = "receipts" /\ Cardinality(RefsOf(c)) > 1 => setLock = c

(* What the purge holds.                                                    *)
PurgeHolds ==
    /\ setLock = Purger <=> purge # {}
    /\ \A r \in Refs : receiptLock[r] = Purger => r \in purge

LockInv == PurgeHolds /\ \A c \in Slots : HoldsInOrder(c)

Present == {p \in Ids : proposal[p] # Absent}
Proposing == {o \in Slots : cmd[o].op = "propose"}

(* There is an id for every proposal under way.                             *)
FitInv ==
    /\ Cardinality(Present) + Cardinality(Proposing) <= MaxProposals
    /\ \A c \in Slots : cmd[c].op = "propose" /\ cmd[c].pc # "commit" => cmd[c].id = NoId

(* The holders are slots, the purge or nobody. *)
LEMMA Lockers ==
    ASSUME NEW c \in Slots
    PROVE  c # Nobody /\ c # Purger /\ Nobody # Purger
  BY PeopleAssumption

(* A transaction that moves on stays the command it is. *)
LEMMA MovesOn ==
    ASSUME IndInv, NEW c \in Slots, cmd[c].op # "none",
           NEW pc \in {"lock", "insert", "collided", "set", "receipts", "save", "create", "commit"},
           Goto(c, pc)
    PROVE  /\ cmd'[c].op = cmd[c].op /\ cmd'[c].id = cmd[c].id /\ cmd'[c].own = cmd[c].own
           /\ cmd'[c].pc = pc /\ \A o \in Slots \ {c} : cmd'[o] = cmd[o]
<1> DEFINE n == [cmd[c] EXCEPT !.pc = pc]
<1>1. cmd[c] \in Commands /\ cmd \in [Slots -> Commands]
  BY DEF IndInv, TypeOK
<1>2. n.op = cmd[c].op /\ n.own = cmd[c].own /\ n.id = cmd[c].id /\ n.pc = pc
  <2>1. cmd[c] \in Commands \ {Idle}
    BY <1>1, CommandShape
  <2> QED
    BY <2>1 DEF Commands
<1>3. cmd' = [cmd EXCEPT ![c] = n]
  BY <1>1 DEF Goto
<1> HIDE DEF n
<1>4. cmd'[c] = n /\ \A o \in Slots \ {c} : cmd'[o] = cmd[o]
  BY <1>1, <1>3
<1> QED
  BY <1>2, <1>4

(* The receipts a decision locks. *)
LEMMA Receipts ==
    ASSUME IndInv, NEW c \in Slots, cmd[c].op \in Deciding
    PROVE  /\ cmd[c].id \in Ids /\ RefsOf(c) \subseteq Refs
           /\ RefsOf(c) \subseteq {proposal[cmd[c].id].origin, cmd[c].own}
           /\ IsFiniteSet(RefsOf(c)) /\ Cardinality(RefsOf(c)) \in Nat
           /\ \A r, o \in RefsOf(c) : r # o => Cardinality(RefsOf(c)) > 1
<1> DEFINE x == proposal[cmd[c].id].origin
           y == cmd[c].own
<1>1. cmd[c].id \in Ids /\ cmd[c] \in Commands
  BY DEF IndInv, CmdInv, Deciding, TypeOK
<1>2. x \in 0..MaxCommands /\ y \in 0..MaxCommands
  <2>1. proposal[cmd[c].id] \in Proposals
    BY <1>1 DEF IndInv, TypeOK
  <2>2. proposal[cmd[c].id].origin \in 0..MaxCommands
    BY <2>1, RowShape
  <2>3. cmd[c].own \in 0..MaxCommands
    BY <1>1, CommandShape
  <2> QED
    BY <2>2, <2>3
<1>3. RefsOf(c) \subseteq {x, y} /\ NoRef \notin RefsOf(c)
  BY DEF RefsOf
<1>4. RefsOf(c) \subseteq Refs
  BY <1>2, <1>3, Numbers DEF Refs, NoRef
<1>5. IsFiniteSet({x, y})
  <2> HIDE DEF x, y
  <2>1. IsFiniteSet({x})
    BY FS_Singleton
  <2>2. IsFiniteSet({x} \cup {y})
    BY <2>1, FS_AddElement
  <2>3. {x, y} = {x} \cup {y}
    OBVIOUS
  <2> QED
    BY <2>2, <2>3
<1>6. IsFiniteSet(RefsOf(c)) /\ Cardinality(RefsOf(c)) \in Nat
  BY <1>3, <1>5, FS_Subset, FS_CardinalityType
<1>7. ASSUME NEW r \in RefsOf(c), NEW o \in RefsOf(c), r # o
      PROVE  Cardinality(RefsOf(c)) > 1
  <2>1. Cardinality(RefsOf(c)) # 0
    BY <1>6, FS_EmptySet
  <2>2. Cardinality(RefsOf(c)) # 1
    <3>1. ASSUME Cardinality(RefsOf(c)) = 1 PROVE FALSE
      <4>1. PICK z : RefsOf(c) = {z}
        BY <1>6, <3>1, FS_Singleton
      <4> QED
        BY <4>1, <1>7
    <3> QED
      BY <3>1
  <2> QED
    BY <1>6, <2>1, <2>2
<1> HIDE DEF x, y
<1> QED
  BY <1>1, <1>3, <1>4, <1>6, <1>7 DEF x, y

(* The next receipt of one that does not hold them all. *)
LEMMA NextInOrder ==
    ASSUME IndInv, NEW c \in Slots, cmd[c].op \in Deciding,
           ~(\A r \in RefsOf(c) : receiptLock[r] = c)
    PROVE  \E r \in RefsOf(c) :
              receiptLock[r] # c /\ \A o \in RefsOf(c) : receiptLock[o] = c \/ r <= o
<1> DEFINE x == proposal[cmd[c].id].origin
           y == cmd[c].own
<1>1. RefsOf(c) \subseteq {x, y} /\ RefsOf(c) \subseteq Nat
  BY Receipts, Numbers DEF Refs
<1>2. PICK r \in RefsOf(c) : receiptLock[r] # c
  OBVIOUS
<1>3. CASE \A o \in RefsOf(c) : receiptLock[o] = c \/ r <= o
  BY <1>2, <1>3
<1>4. ASSUME NEW o \in RefsOf(c), receiptLock[o] # c, ~(r <= o)
      PROVE  \A z \in RefsOf(c) : receiptLock[z] = c \/ o <= z
  <2>1. r # o /\ o < r
    BY <1>1, <1>4
  <2>2. {x, y} = {r, o}
    BY <1>1, <2>1
  <2> HIDE DEF x, y
  <2> QED
    BY <1>1, <2>1, <2>2
<1> HIDE DEF x, y
<1> QED
  BY <1>2, <1>3, <1>4

(* A commit leaves the rows the others decide about. *)
LEMMA DecidedRowsStay ==
    ASSUME IndInv, NEW c \in Slots, NEW o \in Slots \ {c}, cmd[o].op \in Deciding,
           UNCHANGED proposal \/ Commit(c) \/ CommitPropose(c)
    PROVE  proposal'[cmd[o].id] = proposal[cmd[o].id]
<1>1. /\ cmd[o].id \in Ids /\ rowLock[cmd[o].id] = o
      /\ proposal[cmd[o].id].state \in {"proposed", "approved"}
  BY DEF IndInv, CmdInv, Deciding, Open, OpenStates
<1>2. Absent.state = "absent"
  BY DEF Absent
<1>3. proposal[cmd[o].id] # Absent
  BY <1>1, <1>2
<1>4. ASSUME Commit(c) PROVE rowLock[cmd[c].id] = c
  <2>1. cmd[c].pc = "commit" /\ cmd[c].op # "propose"
    BY <1>4 DEF Commit
  <2>2. cmd[c].op \notin {"none", "propose"}
    BY <2>1, Command
  <2> QED
    BY <2>2 DEF IndInv, CmdInv
<1>5. ASSUME Commit(c) \/ CommitPropose(c) PROVE proposal'[cmd[o].id] = proposal[cmd[o].id]
  BY <1>1, <1>3, <1>4, <1>5, RowsAfter
<1> QED
  BY <1>5

(* What a step of one transaction must leave alone for the others' sake.    *)
Apart(c) ==
    /\ \A o \in Slots \ {c} :
          /\ cmd'[o] = cmd[o]
          /\ subjectLock' = o => subjectLock = o
          /\ setLock' = o <=> setLock = o
          /\ \A r \in Refs : receiptLock'[r] = o => receiptLock[r] = o
          /\ cmd[o].op \in Deciding => proposal'[cmd[o].id] = proposal[cmd[o].id]
    /\ setLock' = Purger <=> setLock = Purger
    /\ \A r \in Refs : receiptLock'[r] = Purger <=> receiptLock[r] = Purger
    /\ purge' = purge
    /\ subject.exists => subject'.exists

LEMMA LocksKept ==
    ASSUME IndInv, LockInv, NEW c \in Slots, Apart(c), HoldsInOrder(c)'
    PROVE  LockInv'
<1>1. PurgeHolds'
  BY DEF LockInv, PurgeHolds, Apart
<1>2. ASSUME NEW o \in Slots \ {c} PROVE HoldsInOrder(o)'
  <2>1. /\ cmd'[o] = cmd[o]
        /\ subjectLock' = o => subjectLock = o
        /\ setLock' = o <=> setLock = o
        /\ \A r \in Refs : receiptLock'[r] = o => receiptLock[r] = o
        /\ cmd[o].op \in Deciding => proposal'[cmd[o].id] = proposal[cmd[o].id]
        /\ subject.exists => subject'.exists
    BY DEF Apart
  <2>2. cmd[o].op \in Deciding => RefsOf(o)' = RefsOf(o)
    BY <2>1 DEF RefsOf
  <2>3. cmd[o].pc = "receipts" => cmd[o].op \in Deciding
    BY DecidingOp DEF Deciding
  <2>4. HoldsInOrder(o)
    BY DEF LockInv
  <2> QED
    BY <2>1, <2>2, <2>3, <2>4 DEF HoldsInOrder
<1> QED
  BY <1>1, <1>2 DEF LockInv

(* A request that begins, or is answered at once, holds none of these locks.*)
LEMMA EnteringLocks ==
    ASSUME IndInv, LockInv, NEW c \in Slots, cmd[c] = Idle, cmd'[c].pc # "receipts",
           \A o \in Slots \ {c} : cmd'[o] = cmd[o],
           UNCHANGED <<proposal, subject, purge, subjectLock, setLock, receiptLock>>
    PROVE  LockInv'
<1>1. Apart(c)
  BY DEF Apart
<1>2. HoldsInOrder(c)'
  <2>1. cmd[c].op = "none" /\ HoldsInOrder(c)
    BY IdleShape DEF LockInv
  <2>2. subjectLock # c /\ setLock # c /\ \A r \in Refs : receiptLock[r] # c
    BY <2>1 DEF HoldsInOrder, Deciding
  <2> QED
    BY <2>2 DEF HoldsInOrder
<1> QED
  BY <1>1, <1>2, LocksKept

(* A transaction that ends holds nothing. *)
LEMMA EndingLocks ==
    ASSUME IndInv, LockInv, NEW c \in Slots, Release(c), purge' = purge,
           UNCHANGED proposal \/ Commit(c) \/ CommitPropose(c),
           subject.exists => subject'.exists
    PROVE  LockInv'
<1>1. /\ cmd' = [cmd EXCEPT ![c] = Idle]
      /\ subjectLock' = IF subjectLock = c THEN Nobody ELSE subjectLock
      /\ setLock' = IF setLock = c THEN Nobody ELSE setLock
      /\ receiptLock' = [r \in Refs |-> IF receiptLock[r] = c THEN Nobody ELSE receiptLock[r]]
  BY DEF Release
<1>2. cmd'[c] = Idle /\ \A o \in Slots \ {c} : cmd'[o] = cmd[o]
  BY <1>1 DEF IndInv, TypeOK
<1>3. Apart(c)
  <2>1. \A o \in Slots \ {c} : cmd[o].op \in Deciding => proposal'[cmd[o].id] = proposal[cmd[o].id]
    BY DecidedRowsStay
  <2>2. \A o \in Slots \ {c} :
           /\ subjectLock' = o => subjectLock = o
           /\ setLock' = o <=> setLock = o
           /\ \A r \in Refs : receiptLock'[r] = o => receiptLock[r] = o
    BY <1>1, Lockers
  <2>3. /\ setLock' = Purger <=> setLock = Purger
        /\ \A r \in Refs : receiptLock'[r] = Purger <=> receiptLock[r] = Purger
    BY <1>1, Lockers
  <2> QED
    BY <1>2, <2>1, <2>2, <2>3 DEF Apart
<1>4. HoldsInOrder(c)'
  <2>1. subjectLock' # c /\ setLock' # c /\ \A r \in Refs : receiptLock'[r] # c
    BY <1>1, Lockers
  <2>2. cmd'[c].pc = "idle"
    BY <1>2, IdleShape
  <2> QED
    BY <2>1, <2>2 DEF HoldsInOrder
<1> QED
  BY <1>3, <1>4, LocksKept

(* A transaction that moves on, and takes no lock another one holds. *)
LEMMA MovingLocks ==
    ASSUME IndInv, LockInv, NEW c \in Slots, UNCHANGED <<proposal, subject, purge>>,
           \A o \in Slots \ {c} : cmd'[o] = cmd[o],
           subjectLock' \in {subjectLock, c},
           setLock' = setLock \/ (setLock = Nobody /\ setLock' = c),
           \A r \in Refs : \/ receiptLock'[r] = receiptLock[r]
                           \/ receiptLock[r] = Nobody /\ receiptLock'[r] = c,
           HoldsInOrder(c)'
    PROVE  LockInv'
<1>1. /\ setLock' = Purger <=> setLock = Purger
      /\ \A r \in Refs : receiptLock'[r] = Purger <=> receiptLock[r] = Purger
  BY Lockers
<1>2. ASSUME NEW o \in Slots \ {c}
      PROVE  /\ subjectLock' = o => subjectLock = o
             /\ setLock' = o <=> setLock = o
             /\ \A r \in Refs : receiptLock'[r] = o => receiptLock[r] = o
  BY Lockers
<1>3. Apart(c)
  BY <1>1, <1>2 DEF Apart
<1> QED
  BY <1>3, LocksKept

(* The receipts of a decision are the same as long as its command and its row are. *)
LEMMA SameReceipts ==
    ASSUME NEW c \in Slots, UNCHANGED proposal,
           cmd'[c].id = cmd[c].id, cmd'[c].own = cmd[c].own
    PROVE  RefsOf(c)' = RefsOf(c)
  BY DEF RefsOf

(* Under the subject's lock, if there is a row. *)
LEMMA LockLocks ==
    ASSUME IndInv, LockInv, NEW c \in Slots, Lock(c)
    PROVE  /\ LockInv' /\ cmd'[c].op = cmd[c].op /\ cmd'[c].id = cmd[c].id
           /\ \A o \in Slots \ {c} : cmd'[o] = cmd[o]
<1> DEFINE pc == IF cmd[c].op = "propose" THEN "insert" ELSE "set"
           n == [[cmd[c] EXCEPT !.revision = subject.revision, !.doc = subject.doc] EXCEPT !.pc = pc]
<1>1. /\ cmd[c].pc = "lock" /\ cmd[c].op \in {"propose", "apply"}
      /\ cmd' = [cmd EXCEPT ![c] = n]
      /\ subjectLock' = IF subject.exists THEN c ELSE subjectLock
      /\ UNCHANGED <<proposal, subject, purge, setLock, receiptLock>>
  BY DEF Lock
<1>2. cmd[c] \in Commands /\ cmd[c].op # "none" /\ cmd \in [Slots -> Commands]
  BY <1>1, Command DEF IndInv, TypeOK
<1>3. n.op = cmd[c].op /\ n.id = cmd[c].id /\ n.pc = pc
  <2>1. cmd[c] \in Commands \ {Idle}
    BY <1>2, CommandShape
  <2> HIDE DEF pc
  <2> QED
    BY <2>1 DEF Commands
<1> HIDE DEF n
<1>4. cmd'[c] = n /\ \A o \in Slots \ {c} : cmd'[o] = cmd[o]
  BY <1>1, <1>2
<1>5. HoldsInOrder(c)'
  <2>1. HoldsInOrder(c)
    BY DEF LockInv
  <2>2. subjectLock # c /\ setLock # c /\ \A r \in Refs : receiptLock[r] # c
    BY <1>1, <2>1 DEF HoldsInOrder, Holding
  <2>3. \/ cmd'[c].op = "propose" /\ cmd'[c].pc = "insert"
        \/ cmd'[c].op = "apply" /\ cmd'[c].pc = "set"
    BY <1>1, <1>3, <1>4
  <2>4. subjectLock' = c => subject'.exists
    BY <1>1, <2>2
  <2> QED
    BY <1>1, <2>2, <2>3, <2>4 DEF HoldsInOrder
<1>6. LockInv'
  BY <1>1, <1>4, <1>5, MovingLocks
<1> QED
  BY <1>3, <1>4, <1>6

(* The insert waits with the subject's lock, and takes none. *)
LEMMA InsertLocks ==
    ASSUME IndInv, LockInv, NEW c \in Slots, Insert(c)
    PROVE  /\ LockInv' /\ cmd'[c].op = "propose"
           /\ cmd'[c].pc # "commit" => cmd'[c].id = cmd[c].id
           /\ \A o \in Slots \ {c} : cmd'[o] = cmd[o]
<1>1. /\ cmd[c].op = "propose" /\ cmd[c].pc = "insert"
      /\ UNCHANGED <<proposal, subject, purge, subjectLock, setLock, receiptLock>>
  BY DEF Insert, At, locks
<1>2. /\ cmd'[c].op = "propose" /\ cmd'[c].pc \in {"collided", "commit"}
      /\ cmd'[c].pc # "commit" => cmd'[c].id = cmd[c].id
      /\ \A o \in Slots \ {c} : cmd'[o] = cmd[o]
  <2>1. CASE Goto(c, "collided")
    BY <1>1, <2>1, MovesOn
  <2>2. CASE \E p \in Ids : cmd' = [cmd EXCEPT ![c].pc = "commit", ![c].id = p]
    <3>1. PICK p \in Ids : cmd' = [cmd EXCEPT ![c].pc = "commit", ![c].id = p]
      BY <2>2
    <3> DEFINE n == [cmd[c] EXCEPT !.pc = "commit", !.id = p]
    <3>2. cmd[c] \in Commands /\ cmd \in [Slots -> Commands]
      BY DEF IndInv, TypeOK
    <3>3. n.op = "propose" /\ n.pc = "commit"
      <4>1. cmd[c] \in Commands \ {Idle}
        BY <1>1, <3>2, CommandShape
      <4> QED
        BY <1>1, <4>1 DEF Commands
    <3>4. cmd' = [cmd EXCEPT ![c] = n]
      BY <3>1, <3>2
    <3> HIDE DEF n
    <3> QED
      BY <3>2, <3>3, <3>4
  <2> QED
    BY <2>1, <2>2 DEF Insert
<1>3. HoldsInOrder(c)'
  <2>1. HoldsInOrder(c)
    BY DEF LockInv
  <2>2. setLock # c /\ (\A r \in Refs : receiptLock[r] # c) /\ (subjectLock = c => subject.exists)
    BY <1>1, <2>1 DEF HoldsInOrder, Deciding
  <2> QED
    BY <1>1, <1>2, <2>2 DEF HoldsInOrder
<1>4. LockInv'
  BY <1>1, <1>2, <1>3, MovingLocks
<1> QED
  BY <1>2, <1>4

(* The set lock, when there are two receipts. *)
LEMMA LockSetLocks ==
    ASSUME IndInv, LockInv, NEW c \in Slots, LockSet(c)
    PROVE  LockInv' /\ cmd'[c].op \in Deciding /\ \A o \in Slots \ {c} : cmd'[o] = cmd[o]
<1>1. /\ cmd[c].pc = "set" /\ Goto(c, "receipts")
      /\ IF Cardinality(RefsOf(c)) > 1 THEN setLock = Nobody /\ setLock' = c ELSE UNCHANGED setLock
      /\ UNCHANGED <<proposal, subject, purge, subjectLock, receiptLock>>
  BY DEF LockSet
<1>2. cmd[c].op \in Deciding /\ cmd[c].op # "none"
  BY <1>1, DecidingOp DEF Deciding
<1>3. /\ cmd'[c].op = cmd[c].op /\ cmd'[c].id = cmd[c].id /\ cmd'[c].own = cmd[c].own
      /\ cmd'[c].pc = "receipts" /\ \A o \in Slots \ {c} : cmd'[o] = cmd[o]
  BY <1>1, <1>2, MovesOn
<1>4. HoldsInOrder(c)'
  <2>1. HoldsInOrder(c) /\ RefsOf(c)' = RefsOf(c)
    BY <1>1, <1>3, SameReceipts DEF LockInv
  <2>2. /\ setLock # c /\ \A r \in Refs : receiptLock[r] # c
        /\ subjectLock = c => cmd[c].op = "apply" /\ subject.exists
    BY <1>1, <1>2, <2>1 DEF HoldsInOrder, Holding, Deciding
  <2>3. Cardinality(RefsOf(c)) > 1 => setLock' = c
    BY <1>1
  <2> QED
    BY <1>1, <1>2, <1>3, <2>1, <2>2, <2>3 DEF HoldsInOrder, Holding
<1>5. setLock' = setLock \/ (setLock = Nobody /\ setLock' = c)
  BY <1>1
<1>6. LockInv'
  BY <1>1, <1>3, <1>4, <1>5, MovingLocks
<1> QED
  BY <1>2, <1>3, <1>6

(* One receipt more. *)
LEMMA ReceiptLocks ==
    ASSUME IndInv, LockInv, NEW c \in Slots, LockReceipts(c)
    PROVE  LockInv' /\ cmd' = cmd
<1>1. /\ cmd[c].pc = "receipts"
      /\ UNCHANGED <<proposal, subject, cmd, purge, subjectLock, setLock>>
  BY DEF LockReceipts
<1>2. PICK q \in RefsOf(c) :
         receiptLock[q] = Nobody /\ receiptLock' = [receiptLock EXCEPT ![q] = c]
  BY DEF LockReceipts
<1>3. cmd[c].op \in Deciding
  BY <1>1, DecidingOp DEF Deciding
<1>4. q \in Refs /\ DOMAIN receiptLock = Refs
  BY <1>3, Receipts DEF IndInv, TypeOK
<1>5. \A r \in Refs : IF r = q THEN receiptLock'[r] = c ELSE receiptLock'[r] = receiptLock[r]
  BY <1>2, <1>4
<1>6. HoldsInOrder(c)'
  <2>1. HoldsInOrder(c) /\ RefsOf(c)' = RefsOf(c)
    BY <1>1, SameReceipts DEF LockInv
  <2>2. cmd[c].pc \in Holding
    BY <1>1 DEF Holding
  <2> QED
    BY <1>1, <1>3, <1>5, <2>1, <2>2 DEF HoldsInOrder
<1>7. LockInv'
  BY <1>1, <1>2, <1>5, <1>6, MovingLocks
<1> QED
  BY <1>1, <1>7

(* From the receipts to the save: no lock is taken but the subject's. *)
LEMMA SavingLocks ==
    ASSUME IndInv, LockInv, NEW c \in Slots,
           Original(c) \/ Save(c) \/ Create(c), cmd'[c] # Idle
    PROVE  LockInv' /\ cmd'[c].op \in Deciding /\ \A o \in Slots \ {c} : cmd'[o] = cmd[o]
<1>1. /\ cmd[c].pc \in {"receipts", "save", "create"} /\ cmd[c].op \in Deciding
      /\ cmd[c].op # "none"
      /\ cmd[c].pc \in {"save", "create"} => cmd[c].op = "apply"
  <2>1. cmd[c].pc \in {"receipts", "save", "create"}
    BY DEF Original, Save, Create, At
  <2> QED
    BY <2>1, DecidingOp DEF Deciding
<1>2. Refuse(c) => cmd'[c] = Idle
  BY DEF Refuse, Answer, Release, IndInv, TypeOK
<1>3. PICK pc \in {"save", "create", "commit"} :
        /\ Goto(c, pc)
        /\ UNCHANGED <<proposal, subject, purge, setLock, receiptLock>>
        /\ subjectLock' \in {subjectLock, c}
        /\ subjectLock' = c /\ subjectLock # c =>
              cmd[c].op = "apply" /\ pc = "commit"
        /\ subjectLock' = c /\ subjectLock = c =>
              (subject.exists /\ cmd[c].op = "apply" => pc \in {"save", "commit"})
  <2>1. CASE Original(c)
    BY <1>1, <1>2, <2>1 DEF Original, locks
  <2>2. CASE Save(c)
    BY <1>1, <2>2 DEF Save, At
  <2>3. CASE Create(c)
    BY <1>1, <1>2, <2>3 DEF Create, At
  <2> QED
    BY <2>1, <2>2, <2>3
<1>4. /\ cmd'[c].op = cmd[c].op /\ cmd'[c].id = cmd[c].id /\ cmd'[c].own = cmd[c].own
      /\ cmd'[c].pc = pc /\ \A o \in Slots \ {c} : cmd'[o] = cmd[o]
  BY <1>1, <1>3, MovesOn
<1>5. HoldsInOrder(c)'
  <2>1. HoldsInOrder(c) /\ RefsOf(c)' = RefsOf(c)
    BY <1>3, <1>4, SameReceipts DEF LockInv
  <2>2. subjectLock = c => cmd[c].op = "apply" /\ subject.exists
    BY <1>1, <2>1 DEF HoldsInOrder, Deciding
  <2>3. cmd'[c].pc \in Holding /\ cmd'[c].pc # "receipts" /\ cmd'[c].op \in Deciding
    BY <1>1, <1>3, <1>4 DEF Holding
  <2>4. subjectLock' = c => /\ cmd'[c].op = "apply" /\ cmd'[c].pc \in {"save", "commit"}
                            /\ subject'.exists \/ cmd'[c].pc = "commit"
    BY <1>3, <1>4, <2>2
  <2> QED
    BY <1>3, <2>1, <2>3, <2>4 DEF HoldsInOrder
<1>6. LockInv'
  BY <1>3, <1>4, <1>5, MovingLocks
<1> QED
  BY <1>1, <1>4, <1>6

(* A write that needs no proposal leaves a row, and its lock free. *)
LEMMA EditLocks ==
    ASSUME IndInv, LockInv, Edit
    PROVE  LockInv'
<1>1. UNCHANGED <<proposal, cmd, purge, subjectLock, setLock, receiptLock>>
  BY DEF Edit, locks
<1>2. subjectLock = Nobody
  BY DEF Edit
<1>3. ASSUME NEW c \in Slots PROVE HoldsInOrder(c)'
  <2>1. HoldsInOrder(c) /\ RefsOf(c)' = RefsOf(c)
    BY <1>1, SameReceipts DEF LockInv
  <2>2. subjectLock # c
    BY <1>2, Lockers
  <2> QED
    BY <1>1, <2>1, <2>2 DEF HoldsInOrder
<1>4. PurgeHolds'
  BY <1>1 DEF LockInv, PurgeHolds
<1> QED
  BY <1>3, <1>4 DEF LockInv

(* The purge takes the set lock when nobody has it. *)
LEMMA PurgeLocks ==
    ASSUME IndInv, LockInv, PurgeBegin \/ PurgeLock \/ PurgeCommit
    PROVE  LockInv'
<1>1. UNCHANGED <<proposal, subject, cmd, subjectLock>>
  BY DEF PurgeBegin, PurgeLock, PurgeCommit
<1>2. PurgeHolds /\ receiptLock \in [Refs -> Holders \cup {Purger}] /\ purge \subseteq Refs
  BY DEF LockInv, IndInv, TypeOK
<1>3. Purger # Nobody /\ \A c \in Slots : c # Purger /\ c # Nobody
  BY PeopleAssumption
<1>4. /\ PurgeHolds'
      /\ \A c \in Slots : /\ setLock' = c <=> setLock = c
                          /\ \A r \in Refs : receiptLock'[r] = c => receiptLock[r] = c
  <2>1. CASE PurgeBegin
    <3>1. purge = {} /\ setLock = Nobody /\ setLock' = Purger /\ receiptLock' = receiptLock
      BY <2>1 DEF PurgeBegin
    <3>2. purge' # {}
      BY <2>1 DEF PurgeBegin
    <3> QED
      BY <1>2, <1>3, <3>1, <3>2 DEF PurgeHolds
  <2>2. CASE PurgeLock
    <3>1. PICK q \in purge :
             receiptLock[q] = Nobody /\ receiptLock' = [receiptLock EXCEPT ![q] = Purger]
      BY <2>2 DEF PurgeLock
    <3>2. purge' = purge /\ setLock' = setLock
      BY <2>2 DEF PurgeLock
    <3>3. \A r \in Refs : receiptLock'[r] = IF r = q THEN Purger ELSE receiptLock[r]
      BY <1>2, <3>1
    <3> QED
      BY <1>2, <1>3, <3>1, <3>2, <3>3 DEF PurgeHolds
  <2>3. CASE PurgeCommit
    <3>1. /\ purge # {} /\ purge' = {} /\ setLock' = Nobody
          /\ \A r \in Refs : receiptLock'[r] = IF r \in purge THEN Nobody ELSE receiptLock[r]
      BY <2>3 DEF PurgeCommit
    <3> QED
      BY <1>2, <1>3, <3>1 DEF PurgeHolds
  <2> QED
    BY <2>1, <2>2, <2>3
<1>5. ASSUME NEW c \in Slots PROVE HoldsInOrder(c)'
  <2>1. HoldsInOrder(c) /\ RefsOf(c)' = RefsOf(c)
    BY <1>1, SameReceipts DEF LockInv
  <2> QED
    BY <1>1, <1>4, <2>1 DEF HoldsInOrder
<1> QED
  BY <1>4, <1>5 DEF LockInv

(* Every proposal that is proposed for has an id left: the purge and the    *)
(* decisions take none, and a transaction that ends gives its claim back.   *)
LEMMA FitKept ==
    ASSUME FitInv, Present' = Present,
           \A o \in Slots : cmd'[o].op = "propose" =>
              cmd[o].op = "propose" /\ (cmd'[o].pc # "commit" => cmd'[o].id = NoId)
    PROVE  FitInv'
<1>1. IsFiniteSet(Present) /\ IsFiniteSet(Proposing)
  <2>1. IsFiniteSet(Ids) /\ IsFiniteSet(Slots)
    BY FS_Interval, Numbers, SlotsAssumption DEF Ids
  <2> QED
    BY <2>1, FS_Subset DEF Present, Proposing
<1>2. Proposing' \subseteq Proposing
  BY DEF Proposing
<1>3. Cardinality(Proposing') <= Cardinality(Proposing)
  BY <1>1, <1>2, FS_Subset
<1>4. /\ Cardinality(Proposing) \in Nat /\ Cardinality(Proposing') \in Nat
      /\ Cardinality(Present) \in Nat
  <2>1. IsFiniteSet(Proposing')
    BY <1>1, <1>2, FS_Subset
  <2> QED
    BY <1>1, <2>1, FS_CardinalityType
<1>5. Cardinality(Present) + Cardinality(Proposing) <= MaxProposals
  BY DEF FitInv
<1>6. Cardinality(Present') + Cardinality(Proposing') <= MaxProposals
  BY ONLY <1>3, <1>4, <1>5, Numbers, Present' = Present
<1>7. \A o \in Slots : cmd'[o].op = "propose" /\ cmd'[o].pc # "commit" => cmd'[o].id = NoId
  OBVIOUS
<1> QED
  BY <1>6, <1>7 DEF FitInv

(* A request begins, if it proposes, when there is an id for it. *)
LEMMA Entering ==
    ASSUME IndInv, LockInv, FitInv, NEW c \in Slots,
           Propose(c) \/ Review(c) \/ Apply(c) \/ Withdraw(c)
    PROVE  LockInv' /\ FitInv'
<1>1. /\ cmd[c] = Idle
      /\ UNCHANGED <<proposal, subject, purge, subjectLock, setLock, receiptLock>>
  <2>0. ASSUME NEW fields, NEW entitled, NEW allowed, NEW repeated,
               OpenRow(c, fields, entitled, allowed, repeated)
        PROVE  /\ cmd[c] = Idle
               /\ UNCHANGED <<proposal, subject, purge, subjectLock, setLock, receiptLock>>
    BY <2>0 DEF OpenRow, Admits
  <2>1. CASE Propose(c)
    BY <2>1 DEF Propose, Admits
  <2>2. CASE Review(c)
    BY <2>0, <2>2 DEF Review
  <2>3. CASE Apply(c)
    BY <2>0, <2>3 DEF Apply
  <2>4. CASE Withdraw(c)
    BY <2>0, <2>4 DEF Withdraw
  <2> QED
    BY <2>1, <2>2, <2>3, <2>4
<1>2. cmd \in [Slots -> Commands] /\ cmd[c].op = "none" /\ cmd[c].pc = "idle"
  BY <1>1, IdleShape DEF IndInv, TypeOK
<1>3. \/ cmd' = cmd
      \/ \E n : /\ cmd' = [cmd EXCEPT ![c] = n] /\ n.pc \in {"lock", "set", "commit"}
                /\ \/ n.op \in Deciding
                   \/ n.op = "propose" /\ n.pc = "lock" /\ n.id = NoId /\ Propose(c)
  <2>1. CASE Propose(c)
    <3>1. PICK who \in Persons, d \in Diffs :
             \/ UNCHANGED cmd
             \/ Enter(c, [Idle EXCEPT !.op = "propose", !.pc = "lock", !.who = who, !.diff = {d}])
      BY <2>1 DEF Propose, Reply
    <3> DEFINE n == [[Idle EXCEPT !.op = "propose", !.pc = "lock", !.who = who, !.diff = {d}]
                       EXCEPT !.own = Admission]
    <3>2. n.op = "propose" /\ n.pc = "lock" /\ n.id = NoId
      BY DEF Idle
    <3>3. UNCHANGED cmd \/ cmd' = [cmd EXCEPT ![c] = n]
      BY <3>1 DEF Enter
    <3> HIDE DEF n
    <3> QED
      BY <2>1, <3>2, <3>3
  <2>2. CASE Review(c)
    <3>1. PICK who \in Persons, p \in Ids, v \in {"approved", "declined"} :
             \/ UNCHANGED cmd
             \/ Enter(c, [Idle EXCEPT !.op = "review", !.who = who, !.id = p, !.verdict = v,
                                      !.pc = IF v = "approved" THEN "commit" ELSE "set"])
      <4>1. PICK who \in Persons, p \in Ids, v \in {"approved", "declined"} :
               OpenRow(c, [Idle EXCEPT !.op = "review", !.who = who, !.id = p, !.verdict = v,
                                       !.pc = IF v = "approved" THEN "commit" ELSE "set"],
                       who # proposal[p].proposer, proposal[p].state = "proposed",
                       proposal[p].verdict = v /\ proposal[p].reviewer = who)
        BY <2>2 DEF Review
      <4> DEFINE k == [Idle EXCEPT !.op = "review", !.who = who, !.id = p, !.verdict = v,
                                   !.pc = IF v = "approved" THEN "commit" ELSE "set"]
                 allowed == proposal[p].state = "proposed"
                 repeated == proposal[p].verdict = v /\ proposal[p].reviewer = who
      <4>2. OpenRow(c, k, who # proposal[p].proposer, allowed, repeated)
        BY <4>1
      <4> HIDE DEF k, allowed, repeated
      <4>3. UNCHANGED cmd \/ Enter(c, k)
        BY <4>2 DEF OpenRow, Reply
      <4> QED
        BY <4>3 DEF k
    <3> DEFINE n == [[Idle EXCEPT !.op = "review", !.who = who, !.id = p, !.verdict = v,
                                  !.pc = IF v = "approved" THEN "commit" ELSE "set"]
                       EXCEPT !.own = Admission]
    <3>2. n.op = "review" /\ n.pc \in {"set", "commit"}
      BY DEF Idle
    <3>3. UNCHANGED cmd \/ cmd' = [cmd EXCEPT ![c] = n]
      BY <3>1 DEF Enter
    <3> HIDE DEF n
    <3> QED
      BY <3>2, <3>3 DEF Deciding
  <2>3. CASE Apply(c)
    <3>1. PICK who \in Persons, p \in Ids :
             \/ UNCHANGED cmd
             \/ Enter(c, [Idle EXCEPT !.op = "apply", !.who = who, !.id = p, !.pc = "lock"])
      BY <2>3 DEF Apply, OpenRow, Reply
    <3> DEFINE n == [[Idle EXCEPT !.op = "apply", !.who = who, !.id = p, !.pc = "lock"]
                       EXCEPT !.own = Admission]
    <3>2. n.op = "apply" /\ n.pc = "lock"
      BY DEF Idle
    <3>3. UNCHANGED cmd \/ cmd' = [cmd EXCEPT ![c] = n]
      BY <3>1 DEF Enter
    <3> HIDE DEF n
    <3> QED
      BY <3>2, <3>3 DEF Deciding
  <2>4. CASE Withdraw(c)
    <3>1. PICK who \in Persons, p \in Ids :
             \/ UNCHANGED cmd
             \/ Enter(c, [Idle EXCEPT !.op = "withdraw", !.who = who, !.id = p, !.pc = "set"])
      BY <2>4 DEF Withdraw, OpenRow, Reply
    <3> DEFINE n == [[Idle EXCEPT !.op = "withdraw", !.who = who, !.id = p, !.pc = "set"]
                       EXCEPT !.own = Admission]
    <3>2. n.op = "withdraw" /\ n.pc = "set"
      BY DEF Idle
    <3>3. UNCHANGED cmd \/ cmd' = [cmd EXCEPT ![c] = n]
      BY <3>1 DEF Enter
    <3> HIDE DEF n
    <3> QED
      BY <3>2, <3>3 DEF Deciding
  <2> QED
    BY <2>1, <2>2, <2>3, <2>4
<1>4. Present' = Present
  BY <1>1 DEF Present
<1>5. CASE cmd' = cmd
  <2>1. LockInv'
    BY <1>1, <1>2, <1>5, EnteringLocks
  <2>2. FitInv'
    BY <1>4, <1>5, FitKept DEF FitInv
  <2> QED
    BY <2>1, <2>2
<1>6. ASSUME NEW n, cmd' = [cmd EXCEPT ![c] = n], n.pc \in {"lock", "set", "commit"},
             \/ n.op \in Deciding
             \/ n.op = "propose" /\ n.pc = "lock" /\ n.id = NoId /\ Propose(c)
      PROVE  LockInv' /\ FitInv'
  <2>1. cmd'[c] = n /\ \A o \in Slots \ {c} : cmd'[o] = cmd[o]
    BY <1>2, <1>6
  <2>2. LockInv'
    BY <1>1, <1>6, <2>1, EnteringLocks
  <2>3. CASE n.op \in Deciding
    <3>1. n.op # "propose"
      BY <2>3 DEF Deciding
    <3>2. \A o \in Slots : cmd'[o].op = "propose" =>
             cmd[o].op = "propose" /\ (cmd'[o].pc # "commit" => cmd'[o].id = NoId)
      BY <2>1, <3>1 DEF FitInv
    <3>3. FitInv'
      BY <1>4, <3>2, FitKept
    <3> QED
      BY <2>2, <3>3
  <2>4. CASE n.op = "propose" /\ n.pc = "lock" /\ n.id = NoId /\ Propose(c)
    <3>1. Cardinality(Present) + Cardinality(Proposing) < MaxProposals
      BY <2>4 DEF Propose, Present, Proposing
    <3>2. IsFiniteSet(Present) /\ IsFiniteSet(Proposing)
      <4>1. IsFiniteSet(Ids) /\ IsFiniteSet(Slots)
        BY FS_Interval, Numbers, SlotsAssumption DEF Ids
      <4> QED
        BY <4>1, FS_Subset DEF Present, Proposing
    <3>3. c \notin Proposing /\ Proposing' = Proposing \cup {c}
      BY <1>2, <2>1, <2>4 DEF Proposing
    <3>4. Cardinality(Proposing') = Cardinality(Proposing) + 1
      BY <3>2, <3>3, FS_AddElement
    <3>5. Cardinality(Present) \in Nat /\ Cardinality(Proposing) \in Nat
      BY <3>2, FS_CardinalityType
    <3>6. Cardinality(Present') + Cardinality(Proposing') <= MaxProposals
      BY ONLY <1>4, <3>1, <3>4, <3>5, Numbers
    <3>7. \A o \in Slots : cmd'[o].op = "propose" /\ cmd'[o].pc # "commit" => cmd'[o].id = NoId
      BY <2>1, <2>4 DEF FitInv
    <3> QED
      BY <2>2, <3>6, <3>7 DEF FitInv
  <2> QED
    BY <1>6, <2>2, <2>3, <2>4
<1> QED
  BY <1>3, <1>5, <1>6

(* A transaction that ends gives back its claim on an id, or uses it. *)
LEMMA EndingFits ==
    ASSUME IndInv, FitInv, NEW c \in Slots, Release(c),
           UNCHANGED proposal \/ Commit(c) \/ CommitPropose(c)
    PROVE  FitInv'
<1>1. cmd'[c].op = "none" /\ \A o \in Slots \ {c} : cmd'[o] = cmd[o]
  BY IdleShape DEF Release, IndInv, TypeOK
<1>2. \A o \in Slots : cmd'[o].op = "propose" =>
         cmd[o].op = "propose" /\ (cmd'[o].pc # "commit" => cmd'[o].id = NoId)
  BY <1>1 DEF FitInv
<1>3. proposal \in [Ids -> Proposals] /\ Absent.state = "absent"
  BY DEF IndInv, TypeOK, Absent
<1>4. CASE UNCHANGED proposal
  <2>1. Present' = Present
    BY <1>4 DEF Present
  <2> QED
    BY <1>2, <2>1, FitKept
<1>5. CASE Commit(c)
  <2> DEFINE id == cmd[c].id
             new == Decided(c)
  <2>1. proposal' = [proposal EXCEPT ![id] = new] /\ cmd[c].pc = "commit" /\ cmd[c].op # "propose"
    BY <1>5 DEF Commit
  <2>2. id \in Ids /\ Open(id) /\ new.state \in {"approved", "declined", "withdrawn", "applied"}
    BY <2>1, Decides
  <2> HIDE DEF new
  <2>3. proposal[id] # Absent /\ new # Absent
    BY <1>3, <2>2 DEF Open, OpenStates
  <2>4. \A p \in Ids : proposal'[p] = IF p = id THEN new ELSE proposal[p]
    BY <1>3, <2>1
  <2>5. Present' = Present
    BY <2>3, <2>4 DEF Present
  <2> QED
    BY <1>2, <2>5, FitKept
<1>6. CASE CommitPropose(c)
  <2> DEFINE id == cmd[c].id
  <2>1. cmd[c].op = "propose" /\ cmd[c].pc = "commit"
    BY <1>6 DEF CommitPropose, At
  <2>2. id \in Ids /\ proposal[id] = Absent
    BY <2>1 DEF IndInv, CmdInv
  <2>3. /\ proposal'[id].state = "proposed"
        /\ \A p \in Ids \ {id} : proposal'[p] = proposal[p]
    BY <1>3, <1>6, <2>2 DEF CommitPropose
  <2>4. Present' = Present \cup {id} /\ id \notin Present
    BY <1>3, <2>2, <2>3 DEF Present
  <2>5. Proposing' = Proposing \ {c} /\ c \in Proposing
    BY <1>1, <2>1 DEF Proposing
  <2>6. IsFiniteSet(Present) /\ IsFiniteSet(Proposing)
    <3>1. IsFiniteSet(Ids) /\ IsFiniteSet(Slots)
      BY FS_Interval, Numbers, SlotsAssumption DEF Ids
    <3> QED
      BY <3>1, FS_Subset DEF Present, Proposing
  <2>7. Cardinality(Present') = Cardinality(Present) + 1
    BY <2>4, <2>6, FS_AddElement
  <2>8. Cardinality(Proposing') = Cardinality(Proposing) - 1
    BY <2>5, <2>6, FS_RemoveElement
  <2>9. Cardinality(Present) \in Nat /\ Cardinality(Proposing) \in Nat
    BY <2>6, FS_CardinalityType
  <2>10. Cardinality(Present) + Cardinality(Proposing) <= MaxProposals
    BY DEF FitInv
  <2>11. Cardinality(Present') + Cardinality(Proposing') <= MaxProposals
    BY ONLY <2>7, <2>8, <2>9, <2>10, Numbers
  <2> QED
    BY <1>2, <2>11 DEF FitInv
<1> QED
  BY <1>4, <1>5, <1>6

(* A step that moves transactions on, without a new request or a commit. *)
LEMMA MovingFits ==
    ASSUME FitInv, UNCHANGED proposal, NEW c \in Slots,
           \A o \in Slots \ {c} : cmd'[o] = cmd[o],
           cmd'[c].op = "propose" =>
              cmd[c].op = "propose" /\ (cmd'[c].pc # "commit" => cmd'[c].id = NoId)
    PROVE  FitInv'
<1>1. Present' = Present
  BY DEF Present
<1>2. \A o \in Slots : cmd'[o].op = "propose" =>
         cmd[o].op = "propose" /\ (cmd'[o].pc # "commit" => cmd'[o].id = NoId)
  BY DEF FitInv
<1> QED
  BY <1>1, <1>2, FitKept

(* Nobody holds anything at first. *)
LEMMA InitLocks == Init => LockInv /\ FitInv
<1> SUFFICES ASSUME Init PROVE LockInv /\ FitInv
  OBVIOUS
<1>1. /\ \A c \in Slots : cmd[c].op = "none" /\ cmd[c].pc = "idle"
      /\ subjectLock = Nobody /\ setLock = Nobody /\ purge = {}
      /\ \A r \in Refs : receiptLock[r] = Nobody
  BY IdleShape DEF Init
<1>2. LockInv
  BY <1>1, Lockers, PeopleAssumption DEF LockInv, PurgeHolds, HoldsInOrder
<1>3. Present = {} /\ Proposing = {}
  BY <1>1 DEF Init, Present, Proposing
<1>4. Cardinality(Present) = 0 /\ Cardinality(Proposing) = 0
  BY <1>3, FS_EmptySet
<1>5. Cardinality(Present) + Cardinality(Proposing) <= MaxProposals
  BY ONLY <1>4, Numbers
<1> QED
  BY <1>1, <1>2, <1>5 DEF FitInv

(* Every step keeps the order of the locks and the ids in reach. *)
LEMMA NextLocks == IndInv /\ LockInv /\ FitInv /\ [Next]_vars => LockInv' /\ FitInv'
<1> SUFFICES ASSUME IndInv, LockInv, FitInv, [Next]_vars
             PROVE  LockInv' /\ FitInv'
  OBVIOUS
<1>1. ASSUME NEW c \in Slots, Propose(c) \/ Review(c) \/ Apply(c) \/ Withdraw(c)
      PROVE  LockInv' /\ FitInv'
  BY <1>1, Entering
<1>2. ASSUME NEW c \in Slots, Release(c), purge' = purge, subject.exists => subject'.exists,
             UNCHANGED proposal \/ Commit(c) \/ CommitPropose(c)
      PROVE  LockInv' /\ FitInv'
  BY <1>2, EndingLocks, EndingFits
<1>3. ASSUME NEW c \in Slots, StaleBase(c) \/ Collided(c) \/ Crash(c)
      PROVE  LockInv' /\ FitInv'
  BY <1>2, <1>3 DEF StaleBase, Collided, Crash, Refuse, Answer
<1>4. ASSUME NEW c \in Slots, CommitPropose(c) PROVE LockInv' /\ FitInv'
  BY <1>2, <1>4 DEF CommitPropose
<1>5. ASSUME NEW c \in Slots, Commit(c) PROVE LockInv' /\ FitInv'
  <2>1. Release(c) /\ purge' = purge /\ (subject' = subject \/ subject' = Saved(Merged(c)))
    BY <1>5 DEF Commit
  <2>2. subject.exists => Saved(Merged(c)).exists
    BY DEF Saved
  <2> QED
    BY <1>2, <1>5, <2>1, <2>2
<1>6. ASSUME NEW c \in Slots, Lock(c) PROVE LockInv' /\ FitInv'
  <2>1. /\ LockInv' /\ cmd'[c].op = cmd[c].op /\ cmd'[c].id = cmd[c].id
        /\ \A o \in Slots \ {c} : cmd'[o] = cmd[o]
    BY <1>6, LockLocks
  <2>2. UNCHANGED proposal /\ cmd[c].pc # "commit"
    BY <1>6 DEF Lock
  <2> QED
    BY <2>1, <2>2, MovingFits DEF FitInv
<1>7. ASSUME NEW c \in Slots, Insert(c) PROVE LockInv' /\ FitInv'
  <2>1. /\ LockInv' /\ (cmd'[c].pc # "commit" => cmd'[c].id = cmd[c].id)
        /\ \A o \in Slots \ {c} : cmd'[o] = cmd[o]
    BY <1>7, InsertLocks
  <2>2. UNCHANGED proposal /\ cmd[c].op = "propose" /\ cmd[c].pc # "commit"
    BY <1>7 DEF Insert, At
  <2> QED
    BY <2>1, <2>2, MovingFits DEF FitInv
<1>8. ASSUME NEW c \in Slots, UNCHANGED proposal, LockInv', cmd'[c].op \in Deciding,
             \A o \in Slots \ {c} : cmd'[o] = cmd[o]
      PROVE  LockInv' /\ FitInv'
  BY <1>8, MovingFits DEF Deciding
<1>9. ASSUME NEW c \in Slots, LockSet(c) \/ LockReceipts(c) PROVE LockInv' /\ FitInv'
  <2>1. CASE LockSet(c)
    <3>1. UNCHANGED proposal
      BY <2>1 DEF LockSet
    <3> QED
      BY <1>8, <2>1, <3>1, LockSetLocks
  <2>2. CASE LockReceipts(c)
    <3>1. LockInv' /\ cmd' = cmd /\ UNCHANGED proposal /\ cmd[c].pc = "receipts"
      BY <2>2, ReceiptLocks DEF LockReceipts
    <3>2. cmd'[c].op \in Deciding
      BY <3>1, DecidingOp DEF Deciding
    <3> QED
      BY <1>8, <3>1, <3>2
  <2> QED
    BY <1>9, <2>1, <2>2
<1>10. ASSUME NEW c \in Slots, Original(c) \/ Save(c) \/ Create(c) PROVE LockInv' /\ FitInv'
  <2>1. UNCHANGED <<proposal, subject, purge>>
    BY <1>10 DEF Original, Save, Create, Refuse, Answer
  <2>2. CASE Release(c)
    BY <1>2, <2>1, <2>2
  <2>3. CASE cmd'[c] # Idle
    BY <1>8, <1>10, <2>1, <2>3, SavingLocks
  <2>4. ASSUME NEW pc \in {"save", "create", "commit"}, Goto(c, pc) PROVE cmd'[c] # Idle
    <3>1. cmd'[c].pc = pc
      BY <2>4 DEF Goto, IndInv, TypeOK
    <3> QED
      BY <3>1, IdleShape
  <2>5. Release(c) \/ \E pc \in {"save", "create", "commit"} : Goto(c, pc)
    BY <1>10 DEF Original, Save, Create, Refuse, Answer
  <2> QED
    BY <2>2, <2>3, <2>4, <2>5
<1>11. CASE Edit
  <2>1. UNCHANGED <<proposal, cmd>>
    BY <1>11 DEF Edit
  <2>2. Present' = Present
    BY <2>1 DEF Present
  <2>3. FitInv'
    BY <2>1, <2>2, FitKept DEF FitInv
  <2> QED
    BY <1>11, <2>3, EditLocks
<1>12. CASE PurgeBegin \/ PurgeLock \/ PurgeCommit
  <2>1. UNCHANGED <<proposal, cmd>>
    BY <1>12 DEF PurgeBegin, PurgeLock, PurgeCommit
  <2>2. Present' = Present
    BY <2>1 DEF Present
  <2>3. FitInv'
    BY <2>1, <2>2, FitKept DEF FitInv
  <2> QED
    BY <1>12, <2>3, PurgeLocks
<1>13. CASE UNCHANGED vars
  <2>1. UNCHANGED <<proposal, subject, cmd, purge, subjectLock, setLock, receiptLock>>
    BY <1>13 DEF vars, locks
  <2>2. Present' = Present /\ Proposing' = Proposing
    BY <2>1 DEF Present, Proposing
  <2>3. FitInv'
    BY <2>1, <2>2 DEF FitInv
  <2>4. \A c \in Slots : HoldsInOrder(c)' = HoldsInOrder(c)
    BY <2>1 DEF HoldsInOrder, RefsOf
  <2> QED
    BY <2>1, <2>3, <2>4 DEF LockInv, PurgeHolds
<1> QED
  BY <1>1, <1>3, <1>4, <1>5, <1>6, <1>7, <1>9, <1>10, <1>11, <1>12, <1>13 DEF Next, Step

(* At every moment each transaction holds only the locks its place in the   *)
(* order gives it (the proposal's row, the subject, the set lock, the       *)
(* receipts), and there is an id for every proposal under way.              *)
THEOREM LocksInOrder == Spec => [](LockInv /\ FitInv)
<1>1. Init => IndInv /\ LockInv /\ FitInv
  BY InitInv, InitLocks
<1>2. (IndInv /\ LockInv /\ FitInv) /\ [Next]_vars => (IndInv /\ LockInv /\ FitInv)'
  BY NextInv, NextLocks
<1> QED
  BY <1>1, <1>2, PTL DEF Spec

----------------------------------------------------------------------------
(* Nobody waits for ever.                                                   *)

(* A proposal that reaches the index finds an id. *)
LEMMA IdLeft ==
    ASSUME IndInv, FitInv, NEW c \in Slots, At(c, "propose", "insert")
    PROVE  FreeIds # {}
<1> SUFFICES ASSUME FreeIds = {} PROVE FALSE
  OBVIOUS
<1> DEFINE Others == Proposing \ {c}
           Taken == {cmd[o].id : o \in Others}
           f == [o \in Others |-> cmd[o].id]
<1>1. c \in Proposing /\ cmd[c].id \notin Ids
  <2>1. cmd[c].op = "propose" /\ cmd[c].pc = "insert"
    BY DEF At
  <2>2. cmd[c].id = NoId
    BY <2>1 DEF FitInv
  <2> QED
    BY <2>1, <2>2 DEF Proposing, NoId, Ids
<1>2. IsFiniteSet(Present) /\ IsFiniteSet(Proposing)
  <2>1. IsFiniteSet(Ids) /\ IsFiniteSet(Slots)
    BY FS_Interval, Numbers, SlotsAssumption DEF Ids
  <2> QED
    BY <2>1, FS_Subset DEF Present, Proposing
<1>3. IsFiniteSet(Others) /\ Cardinality(Others) = Cardinality(Proposing) - 1
  BY <1>1, <1>2, FS_RemoveElement
<1>4. IsFiniteSet(Taken) /\ Cardinality(Taken) <= Cardinality(Others)
  <2>1. f \in Surjection(Others, Taken)
    BY DEF Surjection
  <2> HIDE DEF f, Others, Taken
  <2> QED
    BY <1>3, <2>1, FS_Surjection
<1>5. Ids \subseteq Present \cup Taken
  <2> SUFFICES ASSUME NEW p \in Ids, proposal[p] = Absent PROVE p \in Taken
    BY DEF Present
  <2>1. PICK o \in Slots : cmd[o].id = p
    BY DEF FreeIds
  <2>2. p # 0 /\ proposal[p].state = "absent"
    <3>1. p # 0
      BY ONLY p \in Ids, Numbers DEF Ids
    <3>2. Absent.state = "absent"
      BY DEF Absent
    <3> QED
      BY <3>1, <3>2
  <2>3. o # c
    BY <1>1, <2>1
  <2>4. cmd[o].op \in {"none", "propose", "review", "apply", "withdraw"}
    BY CommandShape DEF IndInv, TypeOK
  <2>5. CASE cmd[o].op = "none"
    <3>1. cmd[o] = Idle
      BY <2>5, CommandShape DEF IndInv, TypeOK
    <3> QED
      BY <2>1, <2>2, <3>1, IdleShape
  <2>6. CASE cmd[o].op \in {"review", "apply", "withdraw"}
    <3>1. proposal[p].state \in {"proposed", "approved"}
      BY <2>1, <2>6 DEF IndInv, CmdInv, Open, OpenStates
    <3> QED
      BY <2>2, <3>1
  <2>7. CASE cmd[o].op = "propose"
    BY <2>1, <2>3, <2>7 DEF Proposing
  <2> QED
    BY <2>4, <2>5, <2>6, <2>7
<1> HIDE DEF Others, Taken, f
<1>6. /\ IsFiniteSet(Present \cup Taken)
      /\ Cardinality(Present \cup Taken) <= Cardinality(Present) + Cardinality(Taken)
  <2>1. IsFiniteSet(Present \cap Taken)
    BY <1>2, FS_Subset
  <2>2. /\ IsFiniteSet(Present \cup Taken)
        /\ Cardinality(Present \cup Taken) =
             Cardinality(Present) + Cardinality(Taken) - Cardinality(Present \cap Taken)
    BY <1>2, <1>4, FS_Union
  <2>3. /\ Cardinality(Present) \in Nat /\ Cardinality(Taken) \in Nat
        /\ Cardinality(Present \cap Taken) \in Nat
    BY <1>2, <1>4, <2>1, FS_CardinalityType
  <2>4. Cardinality(Present \cup Taken) <= Cardinality(Present) + Cardinality(Taken)
    BY ONLY <2>2, <2>3
  <2> QED
    BY <2>2, <2>4
<1>7. MaxProposals <= Cardinality(Present \cup Taken)
  <2>1. Cardinality(Ids) = MaxProposals
    <3>1. Cardinality(1..MaxProposals) = IF 1 > MaxProposals THEN 0 ELSE MaxProposals - 1 + 1
      BY FS_Interval, Numbers
    <3> QED
      BY <3>1, Numbers DEF Ids
  <2> QED
    BY <1>5, <1>6, <2>1, FS_Subset
<1>8. /\ Cardinality(Present) \in Nat /\ Cardinality(Proposing) \in Nat
      /\ Cardinality(Taken) \in Nat /\ Cardinality(Others) \in Nat
      /\ Cardinality(Present \cup Taken) \in Nat
  BY <1>2, <1>3, <1>4, <1>6, FS_CardinalityType
<1>9. Cardinality(Present) + Cardinality(Proposing) <= MaxProposals
  BY DEF FitInv
<1> QED
  BY ONLY <1>3, <1>4, <1>6, <1>7, <1>8, <1>9, Numbers

(* As long as a transaction is open, one can go on: the purge waits for a   *)
(* receipt only of one that has all of its own, a transaction with two      *)
(* receipts waits only for one with one, and who waits for the index or the *)
(* subject waits for one that is past it.                                   *)
LEMMA NoCircle ==
    ASSUME IndInv, LockInv, FitInv
    PROVE  SomeoneGoesOn
<1> SUFFICES ASSUME \A c \in Slots : ~CanGo(c), ~PurgeCanGo, ~Overtaken
             PROVE  (\A c \in Slots : cmd[c] = Idle) /\ purge = {}
  BY DEF SomeoneGoesOn
<1>1. ASSUME NEW c \in Slots PROVE HoldsInOrder(c)
  BY DEF LockInv
<1>2. /\ \A c \in Slots : c # Nobody /\ c # Purger
      /\ subjectLock \in Slots \cup {Nobody} /\ setLock \in Slots \cup {Nobody, Purger}
      /\ \A r \in Refs : receiptLock[r] \in Slots \cup {Nobody, Purger}
      /\ purge \subseteq Refs
  BY Lockers DEF IndInv, TypeOK, Holders
<1>3. ASSUME NEW c \in Slots PROVE cmd[c].pc \notin {"collided", "commit"}
  BY DEF CanGo
<1>4. ASSUME NEW c \in Slots PROVE cmd[c].pc \notin {"save", "create"}
  <2>1. CASE cmd[c].pc = "save"
    <3>1. cmd[c].op = "apply"
      BY <2>1, DecidingOp
    <3>2. subject.exists /\ subjectLock # c
      BY <2>1, <3>1 DEF CanGo, At
    <3> QED
      BY <2>1, <3>2 DEF Overtaken
  <2>2. CASE cmd[c].pc = "create"
    <3>1. cmd[c].op = "apply"
      BY <2>2, DecidingOp
    <3>2. subjectLock # Nobody
      BY <2>2, <3>1 DEF CanGo, At
    <3>3. ~subject.exists
      <4>1. subjectLock # c
        BY <1>1, <2>2, <3>1 DEF HoldsInOrder
      <4> QED
        BY <2>2, <4>1 DEF Overtaken
    <3>4. PICK h \in Slots : subjectLock = h
      BY <1>2, <3>2
    <3> QED
      BY <1>1, <1>3, <3>3, <3>4 DEF HoldsInOrder
  <2> QED
    BY <2>1, <2>2
<1>5. ASSUME NEW h \in Slots, setLock = h \/ \E r \in Refs : receiptLock[r] = h
      PROVE  cmd[h].op \in Deciding /\ cmd[h].pc = "receipts"
  <2>1. cmd[h].op \in Deciding /\ cmd[h].pc \in Holding
    BY <1>1, <1>5 DEF HoldsInOrder
  <2> QED
    BY <1>3, <1>4, <2>1 DEF Holding
<1>6. ASSUME NEW h \in Slots, NEW r \in Refs, receiptLock[r] = h
      PROVE  setLock = h /\ cmd[h].op \in Deciding /\ cmd[h].pc = "receipts"
  <2>1. cmd[h].op \in Deciding /\ cmd[h].pc = "receipts" /\ r \in RefsOf(h)
    BY <1>1, <1>5, <1>6 DEF HoldsInOrder
  <2>2. PICK q \in RefsOf(h) : receiptLock[q] # h
    BY <2>1 DEF CanGo
  <2>3. Cardinality(RefsOf(h)) > 1
    BY <1>6, <2>1, <2>2, Receipts
  <2> QED
    BY <1>1, <2>1, <2>3 DEF HoldsInOrder
<1>7. purge = {}
  <2> SUFFICES ASSUME purge # {} PROVE FALSE
    OBVIOUS
  <2>1. setLock = Purger
    BY DEF LockInv, PurgeHolds
  <2>2. PICK r \in purge : receiptLock[r] # Purger /\ receiptLock[r] # Nobody
    BY DEF PurgeCanGo
  <2>3. receiptLock[r] \in Slots /\ r \in Refs
    BY <1>2, <2>2
  <2> QED
    BY <1>2, <1>6, <2>1, <2>3
<1>8. ASSUME NEW c \in Slots, cmd[c].op \in Deciding, cmd[c].pc = "receipts"
      PROVE  \E h \in Slots \ {c} : setLock = h /\ cmd[h].op \in Deciding /\ cmd[h].pc = "receipts"
  <2>1. ~(\A r \in RefsOf(c) : receiptLock[r] = c)
    BY <1>8 DEF CanGo
  <2>2. PICK r \in RefsOf(c) :
           receiptLock[r] # c /\ \A o \in RefsOf(c) : receiptLock[o] = c \/ r <= o
    BY <1>8, <2>1, NextInOrder
  <2>3. receiptLock[r] # Nobody
    BY <1>8, <2>2 DEF CanGo, NextReceipt
  <2>4. r \in Refs
    BY <1>8, Receipts
  <2>5. receiptLock[r] # Purger
    BY <1>7, <2>4 DEF LockInv, PurgeHolds
  <2>6. receiptLock[r] \in Slots \ {c}
    BY <1>2, <2>2, <2>3, <2>4, <2>5
  <2> QED
    BY <1>6, <2>4, <2>6
<1>9. ASSUME NEW c \in Slots PROVE cmd[c].pc # "receipts"
  <2> SUFFICES ASSUME cmd[c].pc = "receipts" PROVE FALSE
    OBVIOUS
  <2>1. cmd[c].op \in Deciding
    BY DecidingOp DEF Deciding
  <2>2. PICK h \in Slots : setLock = h /\ cmd[h].op \in Deciding /\ cmd[h].pc = "receipts"
    BY <1>8, <2>1
  <2>3. \E g \in Slots \ {h} : setLock = g
    BY <1>8, <2>2
  <2> QED
    BY <2>2, <2>3
<1>10. ASSUME NEW c \in Slots PROVE cmd[c].pc # "set"
  <2> SUFFICES ASSUME cmd[c].pc = "set" PROVE FALSE
    OBVIOUS
  <2>1. setLock # Nobody
    BY DEF CanGo
  <2>2. setLock # Purger
    BY <1>7 DEF LockInv, PurgeHolds
  <2>3. setLock \in Slots
    BY <1>2, <2>1, <2>2
  <2> QED
    BY <1>5, <1>9, <2>3
<1>11. ASSUME NEW c \in Slots PROVE cmd[c].pc # "insert"
  <2> SUFFICES ASSUME cmd[c].pc = "insert" PROVE FALSE
    OBVIOUS
  <2>1. At(c, "propose", "insert")
    BY Command DEF At, IndInv, CmdInv
  <2>2. Undecided(c, cmd[c].diff)
    BY <2>1, IdLeft DEF CanGo
  <2>3. \E o \in Slots : cmd[o].pc \in {"commit", "set", "receipts"}
    BY <2>2 DEF Undecided
  <2> QED
    BY <1>3, <1>9, <1>10, <2>3
<1>12. ASSUME NEW c \in Slots PROVE cmd[c].pc # "lock"
  <2> SUFFICES ASSUME cmd[c].pc = "lock" PROVE FALSE
    OBVIOUS
  <2>1. PICK h \in Slots : subjectLock = h
    BY <1>2 DEF CanGo
  <2>2. \/ cmd[h].op = "propose" /\ cmd[h].pc # "lock"
        \/ cmd[h].pc \in {"set", "receipts", "save", "commit"}
    BY <1>1, <2>1 DEF HoldsInOrder
  <2>3. cmd[h].op = "propose" => cmd[h].pc \in {"lock", "insert", "collided", "commit"}
    BY DEF IndInv, CmdInv
  <2> QED
    BY <1>3, <1>4, <1>9, <1>10, <1>11, <2>2, <2>3
<1>13. ASSUME NEW c \in Slots PROVE cmd[c] = Idle
  <2>1. cmd[c].op \in {"none", "propose", "review", "apply", "withdraw"}
        /\ (cmd[c] = Idle <=> cmd[c].op = "none")
    BY CommandShape DEF IndInv, TypeOK
  <2>2. cmd[c].op # "none" =>
           cmd[c].pc \in {"lock", "insert", "collided", "set", "receipts", "save", "create", "commit"}
    BY <2>1 DEF IndInv, CmdInv
  <2> QED
    BY <1>3, <1>4, <1>9, <1>10, <1>11, <1>12, <2>1, <2>2
<1> QED
  BY <1>7, <1>13

(* However many commands, submits and purges wait for one another, one of   *)
(* them can go on, unless an apply is overtaken by a first save             *)
(* (LockReceipts, PurgeAt, Subject.Lock, insert).                           *)
THEOREM NobodyWaitsForEver == Spec => []SomeoneGoesOn
<1>1. IndInv /\ LockInv /\ FitInv => SomeoneGoesOn
  BY NoCircle
<1> QED
  BY <1>1, Inductive, LocksInOrder, PTL

=============================================================================
