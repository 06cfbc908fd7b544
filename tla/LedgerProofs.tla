---------------------------- MODULE LedgerProofs ----------------------------
(* Proofs about Ledger, for any number of workers on either side.           *)
EXTENDS Ledger, TLAPS

(* A move has the tenant's key to itself.                                   *)
KeyInv ==
    /\ mover # "idle" => placer = "idle" /\ \A w \in BareWorkers : ~Declared(w)
    /\ placer = "placing" => ~named

(* A row a move has deleted is still the bare row it read, and the copy it  *)
(* made is beside no other.                                                 *)
MoveInv ==
    /\ src.claim => /\ mover \in {"claims", "letters", "checked"}
                    /\ named /\ claims["bare"].live
    /\ twin.claim => src.claim /\ ~claims["scoped"].live /\ open["scoped"] = None
    /\ src.letter => mover \in {"letters", "checked"} /\ letters["bare"]
    /\ src.letter /\ ~twin.letter => letters["scoped"]
    /\ mover \in {"owing", "claims", "letters", "checked"} /\ named /\ claims["bare"].live =>
          claims["bare"].owed = 0
    /\ mover = "checked" /\ named => /\ claims["bare"].live => src.claim
                                     /\ letters["bare"] => src.letter

(* An uncommitted claim is one worker's, under a name nobody has finished.  *)
OpenInv ==
    /\ \A w \in Workers : pc[w] = "running" <=> open[Own(w)] = w
    /\ \A n \in Names : open[n] # None => Own(open[n]) = n /\ ~claims[n].live

(* Between a handler's commit and its claim's last mark the claim is the    *)
(* worker's own, owing the one effect.                                      *)
Owing == {"effects", "marking", "releasing"}
OwedInv ==
    /\ \A w \in Workers : pc[w] \in Owing =>
          /\ claims[Own(w)].live /\ claims[Own(w)].owed = 1
          /\ pc[w] = "effects" => claims[Own(w)].due = 1
          /\ pc[w] = "marking" => claims[Own(w)].due = 0
    /\ \A v, w \in Workers : pc[v] \in Owing /\ pc[w] \in Owing /\ Own(v) = Own(w) => v = w

(* Who may act under the scoped name, and when.                             *)
Taking == {"claiming", "conflict", "locking", "retaking", "running"}
ScopedInv ==
    /\ \A w \in ScopedWorkers : /\ pc[w] # "idle" => consuming
                                /\ pc[w] \in Taking \cup Owing => named
                                /\ pc[w] \notin {"declaring", "reading", "naming"}
                                /\ target[w] = "scoped"
    /\ claims["scoped"].live /\ claims["scoped"].owed > 0 => named /\ consuming

(* Once the app consumes for its tenant nothing is written under the bare   *)
(* name any more, unless the one window was met.                            *)
HandoverInv ==
    ~window =>
      /\ named /\ consuming => \A w \in BareWorkers :
            /\ pc[w] \notin Taking
            /\ pc[w] = "burying" => target[w] = "scoped"
      /\ (\E w \in ScopedWorkers : pc[w] = "running") => ~claims["bare"].live
      /\ claims["scoped"].live /\ claims["scoped"].owed > 0 => ~claims["bare"].live
      /\ src.claim /\ ~twin.claim => claims["scoped"].live /\ claims["scoped"].owed = 0

(* A run has left a claim that every later delivery finds.                  *)
RunInv ==
    ~window =>
      /\ runs <= 1
      /\ (\E w \in Workers : pc[w] = "running") => runs <= 0
      /\ runs > 0 => \/ claims["bare"].live
                     \/ named /\ consuming /\ claims["scoped"].live

IndInv ==
    /\ TypeOK
    /\ KeyInv
    /\ MoveInv
    /\ OpenInv
    /\ OwedInv
    /\ ScopedInv
    /\ HandoverInv
    /\ RunInv
    /\ DebtNotMoved

ClaimType == [live : BOOLEAN, owed : 0..1, due : 0..1]

(* An empty ledger satisfies all of it.                                     *)
LEMMA IndInit == Init => IndInv
<1> SUFFICES ASSUME Init PROVE IndInv
  OBVIOUS
<1>1. TypeOK
  <2>1. claims \in [Names -> ClaimType] /\ letters \in [Names -> BOOLEAN]
    BY DEF Init, NoClaim, ClaimType
  <2>2. pc \in [Workers -> Phases] /\ seen \in [Workers -> SUBSET Names]
    BY DEF Init, Phases
  <2>3. target \in [Workers -> Names] /\ open \in [Names -> Workers \cup {None}]
    BY DEF Init, Own, Names
  <2>4. src \in [claim : BOOLEAN, letter : BOOLEAN] /\ twin \in [claim : BOOLEAN, letter : BOOLEAN]
    BY DEF Init
  <2>5. /\ named \in BOOLEAN /\ from \in BOOLEAN /\ serving \in BOOLEAN
        /\ consuming \in BOOLEAN /\ window \in BOOLEAN
    BY DEF Init
  <2>6. placer \in {"idle", "placing"} /\ mover \in MovePhases /\ runs \in Int
    BY DEF Init, MovePhases
  <2> QED
    BY ONLY <2>1, <2>2, <2>3, <2>4, <2>5, <2>6 DEF TypeOK, ClaimType
<1>2. KeyInv /\ MoveInv /\ OpenInv
  BY WorkersAssumption
     DEF Init, KeyInv, MoveInv, OpenInv, NoClaim, Declared, Workers, Own, Names
<1>3. OwedInv /\ ScopedInv /\ HandoverInv
  BY WorkersAssumption
     DEF Init, OwedInv, ScopedInv, HandoverInv, NoClaim, Workers, Own, Names, Owing, Taking
<1>4. RunInv /\ DebtNotMoved
  BY DEF Init, RunInv, DebtNotMoved, NoClaim
<1> QED
  BY <1>1, <1>2, <1>3, <1>4 DEF IndInv

(* A worker goes on, or gives up, without a word to the ledgers.            *)
LEMMA WorkerGoes ==
    ASSUME IndInv, NEW w \in Workers, NEW phase \in Phases \ ({"running"} \cup Owing),
           Goto(w, phase),
           UNCHANGED <<named, placer, serving, consuming, window, claims, letters, mover, from,
                       src, twin, runs>>,
           open' \in [Names -> Workers \cup {None}],
           \A n \in Names : open'[n] = IF open[n] = w THEN None ELSE open[n],
           target' \in [Workers -> Names],
           \A v \in Workers \ {w} : target'[v] = target[v],
           seen' \in [Workers -> SUBSET Names],
           w \in ScopedWorkers => target'[w] = "scoped",
           w \in ScopedWorkers /\ phase # "idle" => consuming,
           w \in ScopedWorkers => phase \notin {"declaring", "reading", "naming"},
           w \in ScopedWorkers /\ phase \in Taking => named,
           w \in BareWorkers /\ phase \in Taking => pc[w] \in Taking \/ ~named,
           w \in BareWorkers /\ phase \in Taking \cup {"reading", "naming", "burying"} =>
               mover = "idle" \/ Declared(w),
           w \in BareWorkers /\ phase = "burying" /\ named => target'[w] = "scoped"
    PROVE  IndInv'
<1> USE DEF IndInv
<1>1. /\ pc' = [pc EXCEPT ![w] = phase] /\ pc \in [Workers -> Phases]
      /\ pc' \in [Workers -> Phases]
      /\ pc'[w] = phase
      /\ \A v \in Workers \ {w} : pc'[v] = pc[v]
  BY DEF Goto, TypeOK
<1>2. phase \in Phases /\ phase # "running" /\ phase \notin Owing
  OBVIOUS
<1>3. TypeOK'
  BY <1>1 DEF TypeOK
<1>4. KeyInv'
  <2> SUFFICES ASSUME mover # "idle", NEW v \in BareWorkers, Declared(v)'
               PROVE  Declared(v)
    BY DEF KeyInv
  <2>1. CASE v = w
    BY <2>1, <1>1 DEF Declared, Taking
  <2>2. CASE v # w
    BY <2>2, <1>1 DEF Declared, Workers
  <2> QED
    BY <2>1, <2>2
<1>5. MoveInv'
  BY WorkersAssumption DEF MoveInv, Names, TypeOK
<1>6. OpenInv'
  <2>1. \A v \in Workers : pc'[v] = "running" <=> pc[v] = "running" /\ v # w
    BY <1>1, <1>2
  <2>2. \A v \in Workers : Own(v) \in Names /\ v # None
    BY WorkersAssumption DEF Own, Names, Workers
  <2> QED
    BY <2>1, <2>2 DEF OpenInv
<1>7. OwedInv'
  <2>1. \A v \in Workers : pc'[v] \in Owing => pc'[v] = pc[v]
    BY <1>1, <1>2
  <2> QED
    BY <2>1 DEF OwedInv
<1>8. ScopedInv'
  BY <1>1, <1>2 DEF ScopedInv, Workers
<1>9. HandoverInv' /\ RunInv'
  <2>1. \A v \in Workers : pc'[v] = "running" => pc[v] = "running"
    BY <1>1, <1>2
  <2>2. ASSUME NEW v \in BareWorkers, named, ~window, consuming
        PROVE  /\ pc'[v] \notin Taking
               /\ pc'[v] = "burying" => target'[v] = "scoped"
    BY <2>2, <1>1 DEF HandoverInv, Workers
  <2>3. HandoverInv'
    BY <2>1, <2>2 DEF HandoverInv, Workers
  <2>4. RunInv'
    BY <2>1 DEF RunInv
  <2> QED
    BY <2>3, <2>4
<1>10. DebtNotMoved'
  BY DEF DebtNotMoved
<1> QED
  BY <1>3, <1>4, <1>5, <1>6, <1>7, <1>8, <1>9, <1>10

(* Every step of a delivery that writes neither ledger.                     *)
LEMMA QuietStep ==
    ASSUME IndInv, NEW w \in Workers,
           \/ \E exhausted \in BOOLEAN : Receive(w, exhausted)
           \/ HoldsTenant(w) \/ DeclareTenant(w) \/ HoldsUnscoped(w)
           \/ InsertClaim(w) /\ ~Free(w)
           \/ ReadConflict(w) \/ LockConflict(w)
           \/ DeclareDead(w) \/ TerminalDurable(w) \/ Abandon(w)
    PROVE  IndInv'
<1> USE DEF IndInv
<1>1. /\ open \in [Names -> Workers \cup {None}] /\ target \in [Workers -> Names]
      /\ seen \in [Workers -> SUBSET Names] /\ pc \in [Workers -> Phases]
      /\ w \in BareWorkers \/ w \in ScopedWorkers
      /\ ~(w \in BareWorkers /\ w \in ScopedWorkers)
      /\ w \in ScopedWorkers => Own(w) = "scoped"
      /\ Own(w) \in Names
  BY WorkersAssumption DEF TypeOK, Workers, Own, Names
<1>2. ASSUME UNCHANGED open, pc[w] # "running"
      PROVE  /\ open' \in [Names -> Workers \cup {None}]
             /\ \A n \in Names : open'[n] = IF open[n] = w THEN None ELSE open[n]
  BY <1>1, <1>2 DEF OpenInv
<1>3. ASSUME UNCHANGED <<target, seen>>
      PROVE  /\ target' \in [Workers -> Names] /\ seen' \in [Workers -> SUBSET Names]
             /\ \A v \in Workers \ {w} : target'[v] = target[v]
             /\ w \in ScopedWorkers => target'[w] = "scoped"
  BY <1>1, <1>3 DEF ScopedInv
<1>4. ASSUME Forget(w)
      PROVE  /\ target' \in [Workers -> Names] /\ seen' \in [Workers -> SUBSET Names]
             /\ \A v \in Workers \ {w} : target'[v] = target[v]
             /\ w \in ScopedWorkers => target'[w] = "scoped"
  BY <1>1, <1>4 DEF Forget
<1>5. /\ w \in ScopedWorkers /\ pc[w] # "idle" => consuming
      /\ w \in ScopedWorkers /\ pc[w] \in Taking => named
  BY DEF ScopedInv
<1>6. ASSUME NEW exhausted \in BOOLEAN, Receive(w, exhausted)
      PROVE  IndInv'
  BY <1>1, <1>2, <1>3, <1>6, WorkerGoes DEF Receive, tenant, local, move, Phases, Owing, Taking
<1>7. CASE HoldsTenant(w)
  BY <1>1, <1>2, <1>3, <1>5, <1>7, WorkerGoes
     DEF HoldsTenant, tenant, local, move, Phases, Owing, Taking
<1>8. CASE DeclareTenant(w)
  <2>1. w \in BareWorkers
    BY <1>1, <1>8 DEF DeclareTenant, ScopedInv
  <2> QED
    BY <2>1, <1>1, <1>2, <1>3, <1>5, <1>8, WorkerGoes
       DEF DeclareTenant, Exclusive, tenant, local, move, Phases, Owing, Taking
<1>9. CASE HoldsUnscoped(w)
  <2>1. w \in BareWorkers /\ Declared(w)
    BY <1>1, <1>9 DEF HoldsUnscoped, ScopedInv, Declared
  <2> QED
    BY <2>1, <1>1, <1>2, <1>3, <1>5, <1>9, WorkerGoes
       DEF HoldsUnscoped, tenant, local, move, Phases, Owing, Taking
<1>10. CASE InsertClaim(w) /\ ~Free(w)
  <2>1. w \in BareWorkers => Declared(w)
    BY <1>10 DEF InsertClaim, Declared
  <2>2. pc[w] \in Taking \ {"running"}
    BY <1>10 DEF InsertClaim, Taking
  <2> QED
    BY <2>1, <2>2, <1>1, <1>2, <1>3, <1>5, <1>10, WorkerGoes
       DEF InsertClaim, tenant, local, move, Phases, Owing, Taking
<1>11. CASE ReadConflict(w)
  <2>1. w \in BareWorkers => Declared(w)
    BY <1>11 DEF ReadConflict, Declared
  <2>2. /\ seen' \in [Workers -> SUBSET Names] /\ target' \in [Workers -> Names]
        /\ \A v \in Workers \ {w} : target'[v] = target[v]
        /\ w \in ScopedWorkers => target'[w] = "scoped"
    BY <1>1, <1>11 DEF ReadConflict, Asked, Names, ScopedInv
  <2> QED
    BY <2>1, <2>2, <1>1, <1>2, <1>5, <1>11, WorkerGoes
       DEF ReadConflict, tenant, move, Phases, Owing, Taking
<1>12. CASE LockConflict(w)
  <2>1. w \in BareWorkers => Declared(w)
    BY <1>12 DEF LockConflict, Declared
  <2> QED
    BY <2>1, <1>1, <1>2, <1>4, <1>5, <1>12, WorkerGoes
       DEF LockConflict, tenant, move, Phases, Owing, Taking
<1>13. CASE DeclareDead(w)
  <2>1. /\ seen' \in [Workers -> SUBSET Names] /\ target' \in [Workers -> Names]
        /\ \A v \in Workers \ {w} : target'[v] = target[v]
        /\ w \in ScopedWorkers => target'[w] = "scoped"
    BY <1>1, <1>13 DEF DeclareDead
  <2> QED
    BY <2>1, <1>1, <1>2, <1>5, <1>13, WorkerGoes
       DEF DeclareDead, Exclusive, tenant, move, Phases, Owing, Taking
<1>14. CASE TerminalDurable(w)
  <2>1. w \in BareWorkers /\ Declared(w)
    BY <1>1, <1>14 DEF TerminalDurable, ScopedInv, Declared
  <2>2. /\ seen' \in [Workers -> SUBSET Names] /\ target' \in [Workers -> Names]
        /\ \A v \in Workers \ {w} : target'[v] = target[v]
        /\ named => target'[w] = "scoped"
    BY <1>1, <1>14 DEF TerminalDurable, Names
  <2> QED
    BY <2>1, <2>2, <1>1, <1>2, <1>14, WorkerGoes
       DEF TerminalDurable, tenant, move, Phases, Owing, Taking
<1>15. CASE Abandon(w)
  <2>1. /\ open' \in [Names -> Workers \cup {None}]
        /\ \A n \in Names : open'[n] = IF open[n] = w THEN None ELSE open[n]
    BY <1>1, <1>15 DEF Abandon
  <2> QED
    BY <2>1, <1>1, <1>4, <1>15, WorkerGoes
       DEF Abandon, tenant, move, Phases, Owing, Taking
<1> QED
  BY <1>6, <1>7, <1>8, <1>9, <1>10, <1>11, <1>12, <1>13, <1>14, <1>15

(* A claim is inserted where no name the delivery asks has one: nobody else *)
(* is inside a handler, and nobody has been.                                *)
LEMMA InsertStep ==
    ASSUME IndInv, NEW w \in Workers, InsertClaim(w), Free(w)
    PROVE  IndInv'
<1> USE DEF IndInv
<1> DEFINE n == Own(w)
<1>1. /\ UNCHANGED <<named, placer, serving, consuming, window, claims, letters, target, seen,
                     mover, from, src, twin, runs>>
      /\ pc' = [pc EXCEPT ![w] = "running"] /\ open' = [open EXCEPT ![n] = w]
      /\ pc[w] \in Taking \ {"running"} /\ open[n] = None
  <2>1. /\ UNCHANGED <<tenant, claims, letters, local, move, runs>>
        /\ pc[w] \in {"claiming", "retaking"} /\ open[n] = None
    BY DEF InsertClaim
  <2>2. open' = [open EXCEPT ![n] = w]
    BY DEF InsertClaim
  <2>3. pc' = [pc EXCEPT ![w] = "running"]
    BY DEF InsertClaim, Goto
  <2> QED
    BY <2>1, <2>2, <2>3 DEF tenant, local, move, Taking
<1>2. /\ n \in Names /\ (n = "bare" <=> w \in BareWorkers) /\ w # None
      /\ \A v \in Workers : Own(v) \in Names /\ v # None
  BY WorkersAssumption DEF Own, Names, Workers
<1>3. /\ pc'[w] = "running" /\ open'[n] = w
      /\ \A v \in Workers \ {w} : pc'[v] = pc[v]
      /\ \A m \in Names \ {n} : open'[m] = open[m]
  BY <1>1, <1>2 DEF TypeOK
<1>4. ~claims[n].live /\ ~claims["bare"].live /\ ~letters["bare"]
  BY <1>2 DEF Free, Asked, Own, Names
<1>5. ~claims["scoped"].live \/ w \in BareWorkers
  BY <1>2 DEF Free, Asked, Names
<1>6. TypeOK'
  <2>1. pc' \in [Workers -> Phases]
    BY <1>1 DEF TypeOK, Phases
  <2> QED
    BY <2>1, <1>1, <1>2 DEF TypeOK
<1>7. KeyInv'
  <2>1. \A v \in BareWorkers : Declared(v)' => Declared(v)
    BY <1>1, <1>3 DEF Declared, Taking, Workers
  <2> QED
    BY <2>1, <1>1 DEF KeyInv
<1>8. MoveInv'
  <2>1. ~src.claim /\ ~twin.claim
    BY <1>4 DEF MoveInv
  <2> QED
    BY <2>1, <1>1 DEF MoveInv
<1>9. OpenInv'
  <2>1. \A v \in Workers \ {w} : pc[v] = "running" => Own(v) # n
    BY <1>1, <1>2 DEF OpenInv
  <2>2. ASSUME NEW v \in Workers PROVE pc'[v] = "running" <=> open'[Own(v)] = v
    <3>1. CASE v = w
      BY <3>1, <1>3
    <3>2. CASE v # w
      BY <3>2, <2>1, <1>2, <1>3 DEF OpenInv
    <3> QED
      BY <3>1, <3>2
  <2>3. ASSUME NEW m \in Names, open'[m] # None PROVE Own(open'[m]) = m /\ ~claims[m].live
    BY <2>3, <1>3, <1>4 DEF OpenInv
  <2> QED
    BY <2>2, <2>3, <1>1 DEF OpenInv
<1>10. OwedInv'
  <2>1. \A v \in Workers : pc'[v] \in Owing => pc'[v] = pc[v]
    BY <1>3 DEF Owing
  <2> QED
    BY <2>1, <1>1 DEF OwedInv
<1>11. ScopedInv'
  <2>1. w \in ScopedWorkers => named /\ consuming
    BY <1>1 DEF ScopedInv, Taking
  <2> QED
    BY <2>1, <1>1, <1>3 DEF ScopedInv, Workers, Taking, Owing
<1>12. HandoverInv'
  <2>1. \A v \in BareWorkers : pc'[v] \in Taking \cup {"burying"} => pc[v] \in Taking \/ pc'[v] = pc[v]
    BY <1>1, <1>3 DEF Workers
  <2>2. \A v \in BareWorkers : pc'[v] = "burying" => pc[v] = "burying"
    BY <1>3 DEF Workers
  <2>3. \A v \in BareWorkers : pc'[v] \in Taking => pc[v] \in Taking
    BY <2>1
  <2> QED
    BY <2>2, <2>3, <1>1, <1>4 DEF HandoverInv
<1>13. RunInv'
  <2> SUFFICES ASSUME ~window PROVE runs <= 0
    <3>1. runs \in Int
      BY DEF TypeOK
    <3> QED
      BY <3>1, <1>1, <1>4 DEF RunInv
  <2>1. w \in BareWorkers => ~(named /\ consuming)
    BY <1>1 DEF HandoverInv
  <2>2. ~(runs > 0)
    BY <2>1, <1>4, <1>5 DEF RunInv
  <2> QED
    BY <2>2 DEF TypeOK
<1>14. DebtNotMoved'
  BY <1>1 DEF DebtNotMoved
<1> QED
  BY <1>6, <1>7, <1>8, <1>9, <1>10, <1>11, <1>12, <1>13, <1>14

(* The one handler that runs commits: its claim is the first under its      *)
(* name, and nobody runs beside it.                                         *)
LEMMA CommitStep ==
    ASSUME IndInv, NEW w \in Workers, NEW effects \in Effects, CommitHandler(w, effects)
    PROVE  IndInv'
<1> USE DEF IndInv
<1> DEFINE n == Own(w)
           phase == IF effects = 0 THEN "idle" ELSE "effects"
<1>1. /\ UNCHANGED <<named, placer, serving, consuming, window, letters, target, seen, mover, from,
                     src, twin>>
      /\ pc' = [pc EXCEPT ![w] = phase]
      /\ open' = [open EXCEPT ![n] = None]
      /\ pc[w] = "running" /\ runs' = runs + 1
      /\ effects \in {0, 1}
  BY DEF CommitHandler, Goto, tenant, local, move, Effects
<1>2. /\ n \in Names /\ (n = "bare" <=> w \in BareWorkers) /\ w # None
      /\ \A v \in Workers : Own(v) \in Names /\ v # None
  BY WorkersAssumption DEF Own, Names, Workers
<1>3. /\ pc'[w] = phase /\ open'[n] = None
      /\ \A v \in Workers \ {w} : pc'[v] = pc[v]
      /\ \A m \in Names \ {n} : open'[m] = open[m]
  BY <1>1, <1>2 DEF TypeOK
<1>3a. phase \in {"idle", "effects"} /\ (phase = "effects" => effects = 1)
  BY <1>1
<1> HIDE DEF phase
<1>4. /\ claims' \in [Names -> ClaimType]
      /\ \A m \in Names \ {n} : claims'[m] = claims[m]
      /\ claims'[n].live /\ claims'[n].owed = effects /\ claims'[n].due = effects
  BY <1>1, <1>2 DEF CommitHandler, Claim, ClaimType, TypeOK
<1>5. open[n] = w /\ ~claims[n].live
  BY <1>1, <1>2 DEF OpenInv
<1>6. TypeOK'
  <2>1. pc' \in [Workers -> Phases]
    BY <1>1, <1>3a DEF TypeOK, Phases
  <2>2. open' \in [Names -> Workers \cup {None}]
    BY <1>1 DEF TypeOK
  <2>3. runs' \in Int
    <3>1. runs \in Int
      BY DEF TypeOK
    <3> QED
      BY <3>1, <1>1
  <2> QED
    BY <2>1, <2>2, <2>3, <1>1, <1>4 DEF TypeOK, ClaimType
<1>7. KeyInv'
  <2>1. \A v \in BareWorkers : Declared(v)' => Declared(v)
    BY <1>1, <1>3, <1>3a DEF Declared, Workers
  <2> QED
    BY <2>1, <1>1 DEF KeyInv
<1>8. MoveInv'
  <2>1. n = "bare" => mover = "idle"
    BY <1>1, <1>2 DEF KeyInv, Declared
  <2>2. ~src.claim \/ n = "scoped"
    BY <2>1, <1>2 DEF MoveInv, Names
  <2>3. ~twin.claim
    BY <2>2, <1>5, <1>2 DEF MoveInv
  <2>4. claims["bare"].live /\ n = "scoped" => claims'["bare"] = claims["bare"]
    BY <1>4 DEF Names
  <2> QED
    BY <2>1, <2>2, <2>3, <2>4, <1>1, <1>2, <1>4 DEF MoveInv, Names
<1>9. OpenInv'
  <2>1. ASSUME NEW v \in Workers PROVE pc'[v] = "running" <=> open'[Own(v)] = v
    <3>1. CASE v = w
      BY <3>1, <1>2, <1>3, <1>3a
    <3>2. CASE v # w
      BY <3>2, <1>2, <1>3, <1>5 DEF OpenInv
    <3> QED
      BY <3>1, <3>2
  <2>2. ASSUME NEW m \in Names, open'[m] # None PROVE Own(open'[m]) = m /\ ~claims'[m].live
    BY <2>2, <1>3, <1>4 DEF OpenInv
  <2> QED
    BY <2>1, <2>2 DEF OpenInv
<1>10. OwedInv'
  <2>1. \A v \in Workers \ {w} : pc'[v] \in Owing => pc[v] \in Owing /\ Own(v) # n
    BY <1>2, <1>3, <1>5 DEF OwedInv
  <2>2. ASSUME NEW v \in Workers, pc'[v] \in Owing
        PROVE  /\ claims'[Own(v)].live /\ claims'[Own(v)].owed = 1
               /\ pc'[v] = "effects" => claims'[Own(v)].due = 1
               /\ pc'[v] = "marking" => claims'[Own(v)].due = 0
    <3>1. CASE v = w
      BY <2>2, <3>1, <1>3, <1>3a, <1>4 DEF Owing
    <3>2. CASE v # w
      BY <2>1, <2>2, <3>2, <1>2, <1>3, <1>4 DEF OwedInv
    <3> QED
      BY <3>1, <3>2
  <2>3. ASSUME NEW u \in Workers, NEW v \in Workers, pc'[u] \in Owing, pc'[v] \in Owing,
               Own(u) = Own(v)
        PROVE  u = v
    BY <2>1, <2>3, <1>3 DEF OwedInv
  <2> QED
    BY <2>2, <2>3 DEF OwedInv
<1>11. w \in ScopedWorkers => named /\ consuming
  BY <1>1 DEF ScopedInv, Taking
<1>12. ScopedInv'
  <2>1. ASSUME NEW v \in ScopedWorkers
        PROVE  /\ pc'[v] # "idle" => consuming
               /\ pc'[v] \in Taking \cup Owing => named
               /\ pc'[v] \notin {"declaring", "reading", "naming"}
               /\ target[v] = "scoped"
    <3>1. CASE v = w
      BY <3>1, <1>3, <1>3a, <1>11 DEF ScopedInv
    <3>2. CASE v # w
      BY <3>2, <1>3 DEF ScopedInv, Workers
    <3> QED
      BY <3>1, <3>2
  <2>2. claims'["scoped"].live /\ claims'["scoped"].owed > 0 => named /\ consuming
    <3>1. CASE n = "scoped"
      BY <3>1, <1>2, <1>11 DEF Workers
    <3>2. CASE n = "bare"
      BY <3>2, <1>4 DEF ScopedInv, Names
    <3> QED
      BY <3>1, <3>2, <1>2 DEF Names
  <2> QED
    BY <2>1, <2>2, <1>1 DEF ScopedInv
<1>13. HandoverInv'
  <2> SUFFICES ASSUME ~window PROVE HandoverInv'
    BY <1>1 DEF HandoverInv
  <2>1. \A v \in BareWorkers : /\ pc'[v] \in Taking => pc[v] \in Taking
                               /\ pc'[v] = "burying" => pc[v] = "burying"
    BY <1>3, <1>3a DEF Workers, Taking
  <2>2. \A v \in ScopedWorkers : pc'[v] = "running" => pc[v] = "running"
    BY <1>3, <1>3a DEF Workers
  <2>3. CASE n = "bare"
    <3>1. ~(named /\ consuming)
      BY <2>3, <1>1, <1>2 DEF HandoverInv, Taking
    <3>2. /\ \A v \in ScopedWorkers : pc'[v] # "running"
          /\ ~(claims["scoped"].live /\ claims["scoped"].owed > 0)
      BY <3>1, <2>2 DEF ScopedInv, Taking
    <3>3. claims'["scoped"] = claims["scoped"] /\ ~src.claim
      <4>1. ~src.claim
        BY <2>3, <1>5 DEF MoveInv
      <4> QED
        BY <4>1, <2>3, <1>4 DEF Names
    <3> QED
      BY <3>1, <3>2, <3>3, <1>1 DEF HandoverInv
  <2>4. CASE n = "scoped"
    <3>1. ~claims["bare"].live /\ claims'["bare"] = claims["bare"]
      <4>1. w \in ScopedWorkers
        BY <2>4, <1>2 DEF Workers
      <4> QED
        BY <4>1, <2>4, <1>1, <1>4 DEF HandoverInv, Names
    <3>2. ~src.claim
      BY <3>1 DEF MoveInv
    <3> QED
      BY <3>1, <3>2, <2>1, <1>1 DEF HandoverInv
  <2> QED
    BY <2>3, <2>4, <1>2 DEF Names
<1>14. RunInv'
  <2> SUFFICES ASSUME ~window
               PROVE  /\ runs + 1 <= 1
                      /\ \A v \in Workers : pc'[v] # "running"
                      /\ \/ claims'["bare"].live
                         \/ named /\ consuming /\ claims'["scoped"].live
    BY <1>1 DEF RunInv
  <2>1. runs \in Int /\ runs <= 0
    BY <1>1 DEF RunInv, TypeOK
  <2>2. ASSUME NEW v \in Workers, pc'[v] = "running" PROVE FALSE
    <3>1. v # w /\ pc[v] = "running"
      BY <2>2, <1>3, <1>3a
    <3>2. Own(v) # n
      BY <3>1, <1>5, <1>2 DEF OpenInv
    <3>3. \/ w \in BareWorkers /\ v \in ScopedWorkers
          \/ v \in BareWorkers /\ w \in ScopedWorkers
      BY <3>2 DEF Own, Workers
    <3> QED
      BY <3>1, <3>3, <1>1 DEF ScopedInv, HandoverInv, Taking
  <2>3. \/ claims'["bare"].live
        \/ named /\ consuming /\ claims'["scoped"].live
    BY <1>2, <1>4, <1>11 DEF Names, Workers
  <2> QED
    BY <2>1, <2>2, <2>3
<1>15. DebtNotMoved'
  BY <1>1, <1>4 DEF DebtNotMoved
<1> QED
  BY <1>6, <1>7, <1>8, <1>9, <1>10, <1>12, <1>13, <1>14, <1>15

(* A worker pays, or gives back, the one effect of its own claim.           *)
LEMMA OwedStep ==
    ASSUME IndInv, NEW w \in Workers,
           \/ \E ok \in BOOLEAN : RunEffect(w, ok)
           \/ MarkEffectRun(w)
           \/ ReleaseClaim(w)
    PROVE  IndInv'
<1> USE DEF IndInv
<1> DEFINE n == Own(w)
           phase == pc'[w]
<1>1. /\ UNCHANGED <<named, placer, serving, consuming, window, letters, open, target, seen, mover,
                     from, src, twin>>
      /\ pc[w] \in Owing
  BY DEF RunEffect, MarkEffectRun, ReleaseClaim, tenant, local, move, Owing
<1>2. /\ n \in Names /\ (n = "bare" <=> w \in BareWorkers)
      /\ \A v \in Workers : Own(v) \in Names
  BY WorkersAssumption DEF Own, Names, Workers
<1>3. /\ claims[n] \in ClaimType /\ claims[n].live /\ claims[n].owed = 1
      /\ pc[w] = "effects" => claims[n].due = 1
      /\ pc[w] = "marking" => claims[n].due = 0
  BY <1>1, <1>2 DEF OwedInv, TypeOK, ClaimType
<1>4. /\ phase \in {"marking", "releasing", "idle"}
      /\ pc' = [pc EXCEPT ![w] = phase]
      /\ \A v \in Workers \ {w} : pc'[v] = pc[v]
  BY DEF RunEffect, MarkEffectRun, ReleaseClaim, Goto, TypeOK
<1> DEFINE Paid ==
             /\ \A m \in Names \ {n} : claims'[m] = claims[m]
             /\ claims' \in [Names -> ClaimType]
             /\ phase \in {"marking", "releasing"} => claims'[n].live /\ claims'[n].owed = 1
             /\ phase = "marking" => claims'[n].due = 0
             /\ claims'[n].live /\ claims'[n].owed <= 0 => claims'[n].due = 0
             /\ IF claims'[n].live THEN runs' = runs ELSE runs' = runs - 1
<1>5. Paid
  <2>0. claims \in [Names -> ClaimType] /\ pc \in [Workers -> Phases]
    BY DEF TypeOK, ClaimType
  <2>1. ASSUME NEW ok \in BOOLEAN, RunEffect(w, ok)
        PROVE  Paid
    <3>1. /\ pc[w] = "effects" /\ runs' = runs
          /\ claims' = IF ok THEN [claims EXCEPT ![n].due = @ - 1] ELSE claims
          /\ phase = IF ok THEN "marking" ELSE "releasing"
      BY <2>0, <2>1, <1>3 DEF RunEffect, Goto
    <3>2. CASE ok
      <4>1. claims' = [claims EXCEPT ![n] = [claims[n] EXCEPT !.due = claims[n].due - 1]]
        BY <3>1, <3>2
      <4>2. claims'[n].live /\ claims'[n].owed = 1 /\ claims'[n].due = 0
        BY <4>1, <3>1, <2>0, <1>2, <1>3 DEF ClaimType
      <4>3. claims' \in [Names -> ClaimType]
        BY <4>1, <3>1, <2>0, <1>2, <1>3 DEF ClaimType
      <4> QED
        BY <4>1, <4>2, <4>3, <3>1, <2>0, <1>2
    <3>3. CASE ~ok
      BY <3>1, <3>3, <2>0, <1>3
    <3> QED
      BY <3>2, <3>3
  <2>2. CASE MarkEffectRun(w)
    <3>1. /\ pc[w] = "marking" /\ runs' = runs /\ phase = "idle"
          /\ claims' = [claims EXCEPT ![n] = [claims[n] EXCEPT !.owed = claims[n].owed - 1]]
      BY <2>0, <2>2, <1>3 DEF MarkEffectRun, Goto
    <3>2. claims'[n].live /\ claims'[n].due = 0
      BY <3>1, <2>0, <1>2, <1>3 DEF ClaimType
    <3>3. claims' \in [Names -> ClaimType]
      BY <3>1, <2>0, <1>2, <1>3 DEF ClaimType
    <3> QED
      BY <3>1, <3>2, <3>3, <2>0, <1>2
  <2>3. CASE ReleaseClaim(w)
    <3>1. /\ runs' = runs - 1 /\ phase = "idle"
          /\ claims' = [claims EXCEPT ![n] = NoClaim]
      BY <2>0, <2>3, <1>3 DEF ReleaseClaim, Goto
    <3>2. NoClaim \in ClaimType /\ ~NoClaim.live
      BY DEF NoClaim, ClaimType
    <3> QED
      BY <3>1, <3>2, <2>0, <1>2
  <2> QED
    BY <2>1, <2>2, <2>3
<1> HIDE DEF phase
<1>6. TypeOK'
  <2>1. pc' \in [Workers -> Phases]
    BY <1>4 DEF TypeOK, Phases
  <2>2. runs' \in Int
    <3>1. runs \in Int
      BY DEF TypeOK
    <3> QED
      BY <3>1, <1>5
  <2> QED
    BY <2>1, <2>2, <1>1, <1>5 DEF TypeOK, ClaimType
<1>7. KeyInv'
  <2>1. \A v \in BareWorkers : Declared(v)' => Declared(v)
    BY <1>4 DEF Declared, Workers, phase
  <2> QED
    BY <2>1, <1>1 DEF KeyInv
<1>8. MoveInv'
  <2>1. n = "bare" => mover \notin {"owing", "claims", "letters", "checked"} \/ ~named
    BY <1>3 DEF MoveInv
  <2>2. n = "bare" => ~src.claim
    BY <2>1 DEF MoveInv
  <2>3. n = "scoped" => ~twin.claim /\ claims'["bare"] = claims["bare"]
    BY <1>3, <1>5 DEF MoveInv, Names
  <2>4. n = "bare" => claims'["scoped"] = claims["scoped"]
    BY <1>5 DEF Names
  <2>5. CASE n = "bare"
    <3>1. ~src.claim /\ ~twin.claim
      BY <2>2, <2>5 DEF MoveInv
    <3>2. mover = "checked" /\ named => FALSE
      BY <2>1, <2>5
    <3> QED
      BY <3>1, <3>2, <2>1, <2>5, <1>1 DEF MoveInv
  <2>6. CASE n = "scoped"
    BY <2>3, <2>6, <1>1 DEF MoveInv
  <2> QED
    BY <2>5, <2>6, <1>2 DEF Names
<1>9. OpenInv'
  <2>1. \A v \in Workers : pc'[v] = "running" <=> pc[v] = "running"
    BY <1>1, <1>4 DEF Owing, phase
  <2>2. open[n] = None
    BY <1>2, <1>3 DEF OpenInv
  <2> QED
    BY <2>1, <2>2, <1>1, <1>5 DEF OpenInv
<1>10. OwedInv'
  <2>1. \A v \in Workers \ {w} : pc'[v] \in Owing => pc[v] \in Owing /\ Own(v) # n
    BY <1>1, <1>4 DEF OwedInv
  <2>2. ASSUME NEW v \in Workers, pc'[v] \in Owing
        PROVE  /\ claims'[Own(v)].live /\ claims'[Own(v)].owed = 1
               /\ pc'[v] = "effects" => claims'[Own(v)].due = 1
               /\ pc'[v] = "marking" => claims'[Own(v)].due = 0
    <3>1. CASE v = w
      <4>1. phase \in {"marking", "releasing"}
        BY <2>2, <3>1, <1>4 DEF Owing, phase
      <4> QED
        BY <4>1, <3>1, <1>5 DEF phase
    <3>2. CASE v # w
      BY <2>1, <2>2, <3>2, <1>2, <1>4, <1>5 DEF OwedInv
    <3> QED
      BY <3>1, <3>2
  <2>3. ASSUME NEW u \in Workers, NEW v \in Workers, pc'[u] \in Owing, pc'[v] \in Owing,
               Own(u) = Own(v)
        PROVE  u = v
    BY <2>1, <2>3, <1>1 DEF OwedInv
  <2> QED
    BY <2>2, <2>3 DEF OwedInv
<1>11. w \in ScopedWorkers => named /\ consuming
  BY <1>1 DEF ScopedInv, Owing
<1>12. ScopedInv'
  <2>1. ASSUME NEW v \in ScopedWorkers
        PROVE  /\ pc'[v] # "idle" => consuming
               /\ pc'[v] \in Taking \cup Owing => named
               /\ pc'[v] \notin {"declaring", "reading", "naming"}
               /\ target[v] = "scoped"
    <3>1. CASE v = w
      BY <3>1, <1>4, <1>11 DEF ScopedInv, phase
    <3>2. CASE v # w
      BY <3>2, <1>4 DEF ScopedInv, Workers
    <3> QED
      BY <3>1, <3>2
  <2>2. claims'["scoped"].live /\ claims'["scoped"].owed > 0 => named /\ consuming
    <3>1. CASE n = "scoped"
      BY <3>1, <1>2, <1>11 DEF Workers
    <3>2. CASE n = "bare"
      BY <3>2, <1>5 DEF ScopedInv, Names
    <3> QED
      BY <3>1, <3>2, <1>2 DEF Names
  <2> QED
    BY <2>1, <2>2, <1>1 DEF ScopedInv
<1>13. \A v \in Workers : /\ pc'[v] \in Taking \cup {"burying"} => pc'[v] = pc[v]
                          /\ pc'[v] = "running" => pc[v] = "running"
  BY <1>4 DEF Taking, phase
<1>14. HandoverInv'
  <2> SUFFICES ASSUME ~window PROVE HandoverInv'
    BY <1>1 DEF HandoverInv
  <2>1. named /\ consuming => \A v \in BareWorkers :
            pc'[v] \notin Taking /\ (pc'[v] = "burying" => target[v] = "scoped")
    BY <1>13 DEF HandoverInv, Workers
  <2>2. claims'["bare"].live => claims["bare"].live
    BY <1>3, <1>5 DEF Names
  <2>3. claims'["scoped"].live /\ claims'["scoped"].owed > 0 =>
           claims["scoped"].live /\ claims["scoped"].owed > 0
    <3>1. CASE n = "scoped"
      BY <3>1, <1>3
    <3>2. CASE n = "bare"
      BY <3>2, <1>5 DEF Names
    <3> QED
      BY <3>1, <3>2, <1>2 DEF Names
  <2>4. src.claim /\ ~twin.claim => claims'["scoped"].live /\ claims'["scoped"].owed = 0
    <3>1. CASE n = "scoped"
      BY <3>1, <1>3 DEF HandoverInv
    <3>2. CASE n = "bare"
      BY <3>2, <1>5 DEF HandoverInv, Names
    <3> QED
      BY <3>1, <3>2, <1>2 DEF Names
  <2>5. (\E v \in ScopedWorkers : pc'[v] = "running") => ~claims'["bare"].live
    BY <2>2, <1>13 DEF HandoverInv, Workers
  <2>6. claims'["scoped"].live /\ claims'["scoped"].owed > 0 => ~claims'["bare"].live
    BY <2>2, <2>3 DEF HandoverInv
  <2> QED
    BY <2>1, <2>4, <2>5, <2>6, <1>1 DEF HandoverInv
<1>15. RunInv'
  <2> SUFFICES ASSUME ~window
               PROVE  /\ runs' <= 1
                      /\ (\E v \in Workers : pc'[v] = "running") => runs' <= 0
                      /\ runs' > 0 => \/ claims'["bare"].live
                                      \/ named /\ consuming /\ claims'["scoped"].live
    BY <1>1 DEF RunInv
  <2>1. runs \in Int /\ runs <= 1 /\ ((\E v \in Workers : pc[v] = "running") => runs <= 0)
        /\ (runs > 0 => \/ claims["bare"].live
                        \/ named /\ consuming /\ claims["scoped"].live)
    BY DEF RunInv, TypeOK
  <2>2. CASE claims'[n].live
    <3>1. runs' = runs
      BY <2>2, <1>5
    <3>2. \A m \in Names : claims[m].live => claims'[m].live
      BY <2>2, <1>5
    <3> QED
      BY <3>1, <3>2, <2>1, <1>13 DEF Names
  <2>3. CASE ~claims'[n].live
    <3>1. runs' = runs - 1
      BY <2>3, <1>5
    <3> QED
      BY ONLY <3>1, <2>1
  <2> QED
    BY <2>2, <2>3
<1>16. DebtNotMoved'
  BY <1>5 DEF DebtNotMoved
<1> QED
  BY <1>6, <1>7, <1>8, <1>9, <1>10, <1>12, <1>14, <1>15, <1>16

(* A letter, and the claim that goes with it, never overwrites a claim.     *)
LEMMA DeadStep ==
    ASSUME IndInv, NEW w \in Workers, DeadLetter(w)
    PROVE  IndInv'
<1> USE DEF IndInv
<1> DEFINE n == target[w]
<1>1. /\ UNCHANGED <<named, placer, serving, consuming, window, open, mover, from, src, twin, runs>>
      /\ pc[w] = "burying" /\ pc' = [pc EXCEPT ![w] = "idle"] /\ open[n] = None
      /\ n = "scoped" => ~twin.claim
      /\ claims' = IF claims[n].live THEN claims ELSE [claims EXCEPT ![n] = Claim(0)]
      /\ letters' = [letters EXCEPT ![n] = @ \/ ~claims[n].live \/ claims[n].owed > 0]
      /\ Forget(w)
  BY DEF DeadLetter, Goto, tenant, move
<1>2. /\ n \in Names
      /\ w \in BareWorkers \/ w \in ScopedWorkers
      /\ w \in ScopedWorkers => n = "scoped"
      /\ w \in BareWorkers => mover = "idle"
      /\ \A v \in Workers : Own(v) \in Names
  BY <1>1 DEF TypeOK, Workers, ScopedInv, KeyInv, Declared, Own, Names
<1>3. /\ pc'[w] = "idle"
      /\ \A v \in Workers \ {w} : pc'[v] = pc[v] /\ target'[v] = target[v]
  BY <1>1 DEF TypeOK, Forget
<1>4. /\ claims' \in [Names -> ClaimType]
      /\ \A m \in Names : claims[m].live => claims'[m] = claims[m]
      /\ \A m \in Names \ {n} : claims'[m] = claims[m]
      /\ claims'[n].live
      /\ ~claims[n].live => claims'[n].owed = 0 /\ claims'[n].due = 0
  <2>1. claims \in [Names -> ClaimType]
    BY DEF TypeOK, ClaimType
  <2>2. CASE claims[n].live
    BY <1>1, <2>1, <2>2
  <2>3. CASE ~claims[n].live
    <3>1. Claim(0) \in ClaimType /\ Claim(0).live /\ Claim(0).owed = 0 /\ Claim(0).due = 0
      BY DEF Claim, ClaimType
    <3>2. claims' = [claims EXCEPT ![n] = Claim(0)]
      BY <1>1, <2>3
    <3> QED
      BY <2>1, <2>3, <3>1, <3>2, <1>2
  <2> QED
    BY <2>2, <2>3
<1>5. /\ letters' \in [Names -> BOOLEAN]
      /\ \A m \in Names : letters[m] => letters'[m]
      /\ \A m \in Names \ {n} : letters'[m] = letters[m]
  <2>1. letters \in [Names -> BOOLEAN]
    BY DEF TypeOK
  <2>2. (letters[n] \/ ~claims[n].live \/ claims[n].owed > 0) \in BOOLEAN
    BY Zenon
  <2> QED
    BY <1>1, <1>2, <2>1, <2>2
<1>6. TypeOK'
  <2>1. pc' \in [Workers -> Phases] /\ target' \in [Workers -> Names]
        /\ seen' \in [Workers -> SUBSET Names]
    BY <1>1 DEF TypeOK, Phases, Forget, Own, Names
  <2> QED
    BY <2>1, <1>1, <1>4, <1>5 DEF TypeOK, ClaimType
<1>7. KeyInv'
  <2>1. \A v \in BareWorkers : Declared(v)' => Declared(v)
    BY <1>3 DEF Declared, Workers
  <2> QED
    BY <2>1, <1>1 DEF KeyInv
<1>8. MoveInv'
  <2>1. CASE mover = "idle"
    BY <2>1, <1>1 DEF MoveInv
  <2>2. CASE n = "scoped" /\ ~twin.claim
    <3>1. claims'["bare"] = claims["bare"] /\ letters'["bare"] = letters["bare"]
          /\ (letters["scoped"] => letters'["scoped"])
      BY <2>2, <1>4, <1>5 DEF Names
    <3> QED
      BY <2>2, <3>1, <1>1 DEF MoveInv
  <2> QED
    BY <2>1, <2>2, <1>1, <1>2
<1>9. OpenInv'
  <2>1. \A v \in Workers : pc'[v] = "running" <=> pc[v] = "running"
    BY <1>1, <1>3
  <2> QED
    BY <2>1, <1>1, <1>4 DEF OpenInv
<1>10. OwedInv'
  <2>1. \A v \in Workers : pc'[v] \in Owing => pc[v] \in Owing /\ pc'[v] = pc[v]
    BY <1>1, <1>3 DEF Owing
  <2> QED
    BY <2>1, <1>2, <1>4 DEF OwedInv
<1>11. ScopedInv'
  <2>1. ASSUME NEW v \in ScopedWorkers
        PROVE  /\ pc'[v] # "idle" => consuming
               /\ pc'[v] \in Taking \cup Owing => named
               /\ pc'[v] \notin {"declaring", "reading", "naming"}
               /\ target'[v] = "scoped"
    <3>1. CASE v = w
      <4>1. target'[w] = Own(w) /\ Own(w) = "scoped"
        BY <3>1, <1>1, WorkersAssumption DEF Forget, Own, TypeOK
      <4> QED
        BY <3>1, <4>1, <1>3 DEF Taking, Owing
    <3>2. CASE v # w
      BY <3>2, <1>3 DEF ScopedInv, Workers
    <3> QED
      BY <3>1, <3>2
  <2>2. claims'["scoped"].live /\ claims'["scoped"].owed > 0 => named /\ consuming
    BY <1>4 DEF ScopedInv, Names
  <2> QED
    BY <2>1, <2>2, <1>1 DEF ScopedInv
<1>12. HandoverInv'
  <2> SUFFICES ASSUME ~window PROVE HandoverInv'
    BY <1>1 DEF HandoverInv
  <2>1. named /\ consuming => \A v \in BareWorkers :
            pc'[v] \notin Taking /\ (pc'[v] = "burying" => target'[v] = "scoped")
    <3> SUFFICES ASSUME named, consuming, NEW v \in BareWorkers
                 PROVE  pc'[v] \notin Taking /\ (pc'[v] = "burying" => target'[v] = "scoped")
      OBVIOUS
    <3>1. CASE v = w
      BY <3>1, <1>3 DEF Taking
    <3>2. CASE v # w
      BY <3>2, <1>3 DEF HandoverInv, Workers
    <3> QED
      BY <3>1, <3>2
  <2>2. n = "bare" => ~(named /\ consuming)
    BY <1>1, <1>2 DEF HandoverInv
  <2>3. n = "bare" => /\ \A v \in ScopedWorkers : pc[v] # "running"
                      /\ ~(claims["scoped"].live /\ claims["scoped"].owed > 0)
    BY <2>2 DEF ScopedInv, Taking
  <2>4. n = "bare" => claims'["scoped"] = claims["scoped"]
    BY <1>4 DEF Names
  <2>5. n # "bare" => claims'["bare"] = claims["bare"]
    BY <1>4 DEF Names
  <2>6. \A v \in ScopedWorkers : pc'[v] = "running" => pc[v] = "running"
    BY <1>3 DEF Workers
  <2>7. (\E v \in ScopedWorkers : pc'[v] = "running") => ~claims'["bare"].live
    BY <2>3, <2>5, <2>6 DEF HandoverInv
  <2>8. claims'["scoped"].live /\ claims'["scoped"].owed > 0 =>
           claims["scoped"].live /\ claims["scoped"].owed > 0
    BY <1>4 DEF Names
  <2>9. claims'["scoped"].live /\ claims'["scoped"].owed > 0 => ~claims'["bare"].live
    BY <2>3, <2>5, <2>8 DEF HandoverInv
  <2>10. src.claim /\ ~twin.claim => claims'["scoped"].live /\ claims'["scoped"].owed = 0
    BY <1>4 DEF HandoverInv, Names
  <2> QED
    BY <2>1, <2>7, <2>9, <2>10, <1>1 DEF HandoverInv
<1>13. RunInv'
  <2>1. \A v \in Workers : pc'[v] = "running" => pc[v] = "running"
    BY <1>3
  <2>2. \A m \in Names : claims[m].live => claims'[m].live
    BY <1>4
  <2> QED
    BY <2>1, <2>2, <1>1 DEF RunInv, Names
<1>14. DebtNotMoved'
  BY <1>4 DEF DebtNotMoved
<1> QED
  BY <1>6, <1>7, <1>8, <1>9, <1>10, <1>11, <1>12, <1>13, <1>14

(* The placement: no move is under way, and the one window is recorded.     *)
LEMMA PlaceStep ==
    ASSUME IndInv, Place \/ BareStops \/ \E commits \in BOOLEAN : PlaceEnds(commits)
    PROVE  IndInv'
<1> USE DEF IndInv
<1>1. /\ UNCHANGED <<consuming, claims, letters, open, pc, target, seen, mover, from, src, twin,
                     runs>>
  BY DEF Place, BareStops, PlaceEnds, local, move
<1>2. CASE Place \/ BareStops
  <2>1. /\ UNCHANGED <<named, window>> /\ serving' \in BOOLEAN
        /\ placer' \in {"idle", "placing"}
        /\ placer' = placer \/ (placer' = "placing" /\ mover = "idle" /\ ~named)
    BY <1>2 DEF Place, BareStops, Exclusive, TypeOK
  <2>2. TypeOK' /\ KeyInv' /\ MoveInv' /\ OpenInv'
    BY <1>1, <2>1 DEF TypeOK, KeyInv, Declared, MoveInv, OpenInv
  <2>3. OwedInv' /\ ScopedInv' /\ HandoverInv' /\ RunInv' /\ DebtNotMoved'
    BY <1>1, <2>1 DEF OwedInv, ScopedInv, HandoverInv, RunInv, DebtNotMoved
  <2> QED
    BY <2>2, <2>3
<1>3. ASSUME NEW commits \in BOOLEAN, PlaceEnds(commits)
      PROVE  IndInv'
  <2>1. /\ placer = "placing" /\ placer' = "idle" /\ named' = commits /\ serving' = serving
        /\ window' = (window \/ (commits /\ consuming /\
                         \E w \in BareWorkers : Declared(w) /\ pc[w] # "reading"))
    BY <1>3 DEF PlaceEnds
  <2>2. ~named /\ mover = "idle"
    BY <2>1 DEF KeyInv
  <2>3. ~src.claim /\ ~src.letter /\ ~twin.claim
    BY <2>2 DEF MoveInv
  <2>4. TypeOK'
    <3>1. window' \in BOOLEAN
      BY <2>1, Zenon DEF TypeOK
    <3> QED
      BY <1>1, <2>1, <3>1 DEF TypeOK
  <2>5. KeyInv' /\ MoveInv' /\ OpenInv' /\ OwedInv' /\ DebtNotMoved'
    BY <1>1, <2>1, <2>2, <2>3 DEF KeyInv, MoveInv, OpenInv, OwedInv, DebtNotMoved
  <2>6. ScopedInv'
    BY <1>1, <2>2 DEF ScopedInv
  <2>7. HandoverInv'
    <3> SUFFICES ASSUME ~window' PROVE HandoverInv'
      BY DEF HandoverInv
    <3>1. ~window
      BY <2>1
    <3>2. ASSUME named', consuming, NEW w \in BareWorkers
          PROVE  pc[w] \notin Taking /\ pc[w] # "burying"
      <4>1. ~(Declared(w) /\ pc[w] # "reading")
        BY <2>1, <3>2
      <4> QED
        BY <4>1 DEF Declared, Taking
    <3> QED
      BY <1>1, <3>1, <3>2 DEF HandoverInv
  <2>8. RunInv'
    <3>1. ~window' => ~window
      BY <2>1
    <3> QED
      BY <1>1, <2>2, <3>1 DEF RunInv
  <2> QED
    BY <2>4, <2>5, <2>6, <2>7, <2>8
<1> QED
  BY <1>2, <1>3

(* A statement of the move that does not commit writes only its own state.  *)
LEMMA MoverStep ==
    ASSUME IndInv,
           HoldTenants \/ LedgerDurables \/ ClaimsOwing \/ RenameClaims \/ RenameLetters
           \/ UnscopedRemains \/ MoveRefused
    PROVE  IndInv'
<1> USE DEF IndInv
<1>1. UNCHANGED <<named, placer, serving, consuming, window, claims, letters, open, pc, target,
                  seen, runs>>
  BY DEF HoldTenants, LedgerDurables, ClaimsOwing, RenameClaims, RenameLetters, UnscopedRemains,
         MoveRefused, tenant, local
<1>2. OpenInv' /\ OwedInv' /\ ScopedInv' /\ RunInv' /\ DebtNotMoved'
  BY <1>1 DEF OpenInv, OwedInv, ScopedInv, RunInv, DebtNotMoved
<1>3. KeyInv'
  <2>1. mover = "idle" => mover' = "idle" \/ ~Shared
    BY DEF HoldTenants, LedgerDurables, ClaimsOwing, RenameClaims, RenameLetters, UnscopedRemains,
           MoveRefused
  <2>2. placer \in {"idle", "placing"}
    BY DEF TypeOK
  <2> QED
    BY <1>1, <2>1, <2>2 DEF KeyInv, Shared, Declared
<1>4. CASE HoldTenants \/ LedgerDurables \/ ClaimsOwing
  <2>1. /\ UNCHANGED <<src, twin>> /\ mover' \in {"held", "found", "owing"}
        /\ mover \in {"idle", "held", "found"} /\ from' \in BOOLEAN
        /\ mover' = "owing" => ~(named /\ claims["bare"].live /\ claims["bare"].owed > 0)
    BY <1>4 DEF HoldTenants, LedgerDurables, ClaimsOwing, TypeOK
  <2>2. ~src.claim /\ ~src.letter /\ ~twin.claim
    BY <2>1 DEF MoveInv
  <2>3. TypeOK'
    BY <1>1, <2>1 DEF TypeOK, MovePhases
  <2>4. claims["bare"].owed \in 0..1
    BY DEF TypeOK, Names
  <2>5. MoveInv' /\ HandoverInv'
    BY <1>1, <2>1, <2>2, <2>4 DEF MoveInv, HandoverInv
  <2> QED
    BY <1>2, <1>3, <2>3, <2>5
<1>5. CASE RenameClaims
  <2> DEFINE moves == from /\ named /\ claims["bare"].live
  <2>1. /\ mover = "owing" /\ mover' = "claims" /\ from' = from
        /\ moves => open["scoped"] = None
        /\ src' = [src EXCEPT !.claim = moves]
        /\ twin' = [twin EXCEPT !.claim = moves /\ ~claims["scoped"].live]
    BY <1>5 DEF RenameClaims
  <2>2. /\ src' \in [claim : BOOLEAN, letter : BOOLEAN]
        /\ twin' \in [claim : BOOLEAN, letter : BOOLEAN]
        /\ src'.claim <=> moves
        /\ twin'.claim <=> moves /\ ~claims["scoped"].live
        /\ src'.letter = src.letter
    <3>1. moves \in BOOLEAN /\ (moves /\ ~claims["scoped"].live) \in BOOLEAN
      BY Zenon
    <3> QED
      BY <2>1, <3>1 DEF TypeOK
  <2>3. ~src.letter
    BY <2>1 DEF MoveInv
  <2>4. TypeOK'
    BY <1>1, <2>1, <2>2 DEF TypeOK, MovePhases
  <2>5. MoveInv'
    BY <1>1, <2>1, <2>2, <2>3 DEF MoveInv
  <2>6. HandoverInv'
    <3>1. claims["scoped"].owed \in 0..1
      BY DEF TypeOK, Names
    <3>2. ~window /\ moves /\ claims["scoped"].live => claims["scoped"].owed = 0
      BY <3>1 DEF HandoverInv
    <3> QED
      BY <1>1, <2>2, <3>2 DEF HandoverInv
  <2> QED
    BY <1>2, <1>3, <2>4, <2>5, <2>6
<1>6. CASE RenameLetters
  <2> DEFINE moves == from /\ named /\ letters["bare"]
  <2>1. /\ mover = "claims" /\ mover' = "letters" /\ from' = from
        /\ src' = [src EXCEPT !.letter = moves]
        /\ twin' = [twin EXCEPT !.letter = moves /\ ~letters["scoped"]]
    BY <1>6 DEF RenameLetters
  <2>2. /\ src' \in [claim : BOOLEAN, letter : BOOLEAN]
        /\ twin' \in [claim : BOOLEAN, letter : BOOLEAN]
        /\ src'.letter <=> moves
        /\ twin'.letter <=> moves /\ ~letters["scoped"]
        /\ src'.claim = src.claim /\ twin'.claim = twin.claim
    <3>1. moves \in BOOLEAN /\ (moves /\ ~letters["scoped"]) \in BOOLEAN
      BY Zenon
    <3> QED
      BY <2>1, <3>1 DEF TypeOK
  <2>3. TypeOK'
    BY <1>1, <2>1, <2>2 DEF TypeOK, MovePhases
  <2>4. MoveInv' /\ HandoverInv'
    BY <1>1, <2>1, <2>2 DEF MoveInv, HandoverInv
  <2> QED
    BY <1>2, <1>3, <2>3, <2>4
<1>7. CASE UnscopedRemains
  <2>1. /\ mover = "letters" /\ mover' = "checked" /\ UNCHANGED <<from, src, twin>>
        /\ named => /\ claims["bare"].live => src.claim
                    /\ letters["bare"] => src.letter
    BY <1>7 DEF UnscopedRemains
  <2>2. TypeOK' /\ MoveInv' /\ HandoverInv'
    BY <1>1, <2>1 DEF TypeOK, MovePhases, MoveInv, HandoverInv
  <2> QED
    BY <1>2, <1>3, <2>2
<1>8. CASE MoveRefused
  <2>1. /\ mover' = "idle" /\ from' = FALSE
        /\ src' \in [claim : BOOLEAN, letter : BOOLEAN]
        /\ twin' \in [claim : BOOLEAN, letter : BOOLEAN]
        /\ ~src'.claim /\ ~twin'.claim /\ ~src'.letter
    BY <1>8 DEF MoveRefused, NotMoving
  <2>2. TypeOK' /\ MoveInv' /\ HandoverInv'
    BY <1>1, <2>1 DEF TypeOK, MovePhases, MoveInv, HandoverInv
  <2> QED
    BY <1>2, <1>3, <2>2
<1> QED
  BY <1>4, <1>5, <1>6, <1>7, <1>8

(* What the move's COMMIT leaves of each row.                               *)
LEMMA Renamed ==
    ASSUME IndInv, MoveCommits
    PROVE  /\ claims'["scoped"] = IF twin.claim THEN claims["bare"] ELSE claims["scoped"]
           /\ IF src.claim THEN ~claims'["bare"].live /\ claims'["bare"].owed = 0
              ELSE claims'["bare"] = claims["bare"]
           /\ claims' \in [Names -> ClaimType]
           /\ letters' \in [Names -> BOOLEAN]
           /\ letters'["bare"] <=> letters["bare"] /\ ~src.letter
           /\ letters'["scoped"] <=> letters["scoped"] \/ twin.letter
           /\ twin.claim => src.claim /\ claims["bare"].live /\ claims["bare"].owed = 0
           /\ src.claim => claims["bare"].live /\ claims["bare"].owed = 0 /\ named
<1> USE DEF IndInv
<1>1. src.claim => claims["bare"].live /\ claims["bare"].owed = 0 /\ named
  BY DEF MoveInv
<1>2. twin.claim => src.claim
  BY DEF MoveInv
<1>3. claims["bare"] \in ClaimType /\ claims["scoped"] \in ClaimType
  BY DEF TypeOK, ClaimType, Names
<1>4. twin.claim => [claims["bare"] EXCEPT !.owed = 0] = claims["bare"]
  BY <1>1, <1>2, <1>3 DEF ClaimType
<1>5. claims' = [n \in Names |->
          CASE n = "bare" /\ src.claim    -> NoClaim
            [] n = "scoped" /\ twin.claim -> [claims["bare"] EXCEPT !.owed = 0]
            [] OTHER                      -> claims[n]]
  BY DEF MoveCommits
<1>6. claims'["bare"] = IF src.claim THEN NoClaim ELSE claims["bare"]
  BY <1>5 DEF Names
<1>7. claims'["scoped"] = IF twin.claim THEN claims["bare"] ELSE claims["scoped"]
  BY <1>4, <1>5 DEF Names
<1>8. NoClaim \in ClaimType /\ ~NoClaim.live /\ NoClaim.owed = 0
  BY DEF NoClaim, ClaimType
<1>9. claims' \in [Names -> ClaimType]
  <2>1. \A n \in Names : claims'[n] \in ClaimType
    BY <1>3, <1>6, <1>7, <1>8 DEF Names
  <2> QED
    BY <2>1, <1>5
<1>10. letters' = [n \in Names |-> IF n = "bare" THEN letters[n] /\ ~src.letter
                                   ELSE letters[n] \/ twin.letter]
  BY DEF MoveCommits
<1>11. letters' \in [Names -> BOOLEAN]
  <2>1. \A n \in Names : (IF n = "bare" THEN letters[n] /\ ~src.letter
                          ELSE letters[n] \/ twin.letter) \in BOOLEAN
    BY Zenon
  <2> QED
    BY <1>10, <2>1
<1>12. /\ letters'["bare"] <=> letters["bare"] /\ ~src.letter
       /\ letters'["scoped"] <=> letters["scoped"] \/ twin.letter
  BY <1>10 DEF Names
<1> QED
  BY <1>1, <1>2, <1>6, <1>7, <1>8, <1>9, <1>11, <1>12

(* The rename commits while no bare delivery is under way.                  *)
LEMMA CommitsStep ==
    ASSUME IndInv, MoveCommits
    PROVE  IndInv'
<1> USE DEF IndInv
<1>1. /\ UNCHANGED <<named, placer, serving, window, open, pc, target, seen, runs>>
      /\ mover = "checked" /\ mover' = "idle" /\ consuming' = TRUE /\ from' = FALSE
      /\ src' \in [claim : BOOLEAN, letter : BOOLEAN]
      /\ twin' \in [claim : BOOLEAN, letter : BOOLEAN]
      /\ ~src'.claim /\ ~twin'.claim /\ ~src'.letter
  BY DEF MoveCommits, NotMoving, local
<1>2. \A w \in BareWorkers : ~Declared(w)
  BY <1>1 DEF KeyInv
<1>3. /\ claims'["scoped"] = IF twin.claim THEN claims["bare"] ELSE claims["scoped"]
      /\ IF src.claim THEN ~claims'["bare"].live /\ claims'["bare"].owed = 0
         ELSE claims'["bare"] = claims["bare"]
      /\ claims' \in [Names -> ClaimType]
      /\ letters' \in [Names -> BOOLEAN]
      /\ twin.claim => src.claim /\ claims["bare"].live /\ claims["bare"].owed = 0
      /\ src.claim => claims["bare"].live /\ claims["bare"].owed = 0 /\ named
  BY Renamed
<1>4. twin.claim => ~claims["scoped"].live /\ open["scoped"] = None
  BY DEF MoveInv
<1>5. TypeOK'
  BY <1>1, <1>3 DEF TypeOK, ClaimType, MovePhases
<1>6. KeyInv' /\ MoveInv'
  BY <1>1 DEF KeyInv, MoveInv
<1>7. OpenInv'
  <2>1. ASSUME NEW n \in Names, open[n] # None
        PROVE  Own(open[n]) = n /\ ~claims'[n].live
    <3>1. Own(open[n]) = n /\ ~claims[n].live
      BY <2>1 DEF OpenInv
    <3>2. CASE n = "bare"
      BY <3>1, <3>2, <1>3
    <3>3. CASE n = "scoped"
      BY <3>1, <3>3, <2>1, <1>3, <1>4
    <3> QED
      BY <3>1, <3>2, <3>3 DEF Names
  <2> QED
    BY <2>1, <1>1 DEF OpenInv
<1>8. OwedInv'
  <2>1. ASSUME NEW w \in Workers, pc[w] \in Owing
        PROVE  claims'[Own(w)] = claims[Own(w)]
    <3>1. claims[Own(w)].live /\ claims[Own(w)].owed = 1 /\ Own(w) \in Names
      BY <2>1 DEF OwedInv, Own, Names
    <3>2. CASE Own(w) = "bare"
      BY <3>1, <3>2, <1>3
    <3>3. CASE Own(w) = "scoped"
      BY <3>1, <3>3, <1>3, <1>4
    <3> QED
      BY <3>1, <3>2, <3>3 DEF Names
  <2> QED
    BY <2>1, <1>1 DEF OwedInv
<1>9. ScopedInv'
  <2>1. claims'["scoped"].live /\ claims'["scoped"].owed > 0 => named
    BY <1>3 DEF ScopedInv
  <2> QED
    BY <2>1, <1>1 DEF ScopedInv
<1>10. HandoverInv'
  <2> SUFFICES ASSUME ~window PROVE HandoverInv'
    BY <1>1 DEF HandoverInv
  <2>1. \A w \in BareWorkers : pc[w] \notin Taking /\ pc[w] # "burying"
    BY <1>2 DEF Declared, Taking
  <2>2. claims'["bare"].live => claims["bare"].live /\ claims'["scoped"] = claims["scoped"]
    BY <1>3
  <2> QED
    BY <2>1, <2>2, <1>1 DEF HandoverInv
<1>11. RunInv'
  <2> SUFFICES ASSUME ~window
               PROVE  runs > 0 => \/ claims'["bare"].live
                                  \/ named /\ claims'["scoped"].live
    BY <1>1 DEF RunInv
  <2>1. runs > 0 => claims["bare"].live \/ (named /\ claims["scoped"].live)
    BY DEF RunInv
  <2>2. CASE src.claim
    BY <2>2, <1>3 DEF HandoverInv
  <2>3. CASE ~src.claim
    BY <2>1, <2>3, <1>3
  <2> QED
    BY <2>2, <2>3
<1>12. DebtNotMoved'
  BY <1>3 DEF DebtNotMoved, Names
<1> QED
  BY <1>5, <1>6, <1>7, <1>8, <1>9, <1>10, <1>11, <1>12

(* Every step keeps the strengthened invariant.                             *)
LEMMA IndStep == IndInv /\ [Next]_vars => IndInv'
<1> SUFFICES ASSUME IndInv, [Next]_vars PROVE IndInv'
  OBVIOUS
<1>1. CASE UNCHANGED vars
  <2>1. TypeOK' /\ KeyInv' /\ MoveInv' /\ OpenInv' /\ OwedInv'
    BY <1>1 DEF IndInv, vars, TypeOK, KeyInv, Declared, MoveInv, OpenInv, OwedInv
  <2>2. ScopedInv' /\ HandoverInv' /\ RunInv' /\ DebtNotMoved'
    BY <1>1 DEF IndInv, vars, ScopedInv, HandoverInv, RunInv, DebtNotMoved
  <2> QED
    BY <2>1, <2>2 DEF IndInv
<1>2. CASE Moves
  BY <1>2, MoverStep, CommitsStep DEF Moves
<1>3. ASSUME NEW w \in Workers,
             Step(w) \/ \E exhausted \in BOOLEAN : Receive(w, exhausted)
      PROVE  IndInv'
  BY <1>3, QuietStep, InsertStep, CommitStep, OwedStep, DeadStep DEF Step
<1> QED
  BY <1>1, <1>2, <1>3, PlaceStep DEF Next

(* The strengthened invariant holds in every reachable state.               *)
THEOREM Inductive == Spec => []IndInv
BY IndInit, IndStep, PTL DEF Spec

(* Type correctness, the effect counts of markEffectRun included.           *)
THEOREM TypeCorrect == Spec => []TypeOK
<1>1. IndInv => TypeOK
  BY DEF IndInv
<1> QED
  BY <1>1, Inductive, PTL

(* Nothing can be claimed under the bare name any more.                     *)
BareOver == named /\ \A w \in BareWorkers : pc[w] \notin Taking

(* In the window, too, each name is good for one run: the bare one until it *)
(* has a claim and, once no delivery is left that could make one, for good. *)
WindowInv ==
    /\ runs <= 2
    /\ ~claims["scoped"].live => runs <= 1
    /\ ~claims["bare"].live /\ ~BareOver => runs <= 1
    /\ ~claims["bare"].live /\ ~BareOver /\ ~claims["scoped"].live => runs <= 0

(* What costs a name its run keeps the count.                               *)
LEMMA CountKept ==
    ASSUME WindowInv, runs' = runs,
           claims["scoped"].live => claims'["scoped"].live,
           claims["bare"].live \/ BareOver => claims'["bare"].live \/ BareOver'
    PROVE  WindowInv'
  BY DEF WindowInv

(* Under the bare name nobody starts once the tenant is the app's.          *)
LEMMA OverForGood ==
    ASSUME IndInv, NEW w \in Workers, NEW phase, Goto(w, phase), named' = named,
           w \in BareWorkers /\ phase \in Taking => pc[w] \in Taking \/ ~named
    PROVE  BareOver => BareOver'
  BY DEF IndInv, TypeOK, Goto, BareOver, Workers

(* A delivery's or a terminal record's step.                                *)
LEMMA WindowWorker ==
    ASSUME IndInv, WindowInv, NEW w \in Workers,
           Step(w) \/ \E exhausted \in BOOLEAN : Receive(w, exhausted)
    PROVE  WindowInv'
<1> USE DEF Taking
<1>0. /\ pc \in [Workers -> Phases] /\ claims \in [Names -> ClaimType] /\ runs \in Int
      /\ Own(w) \in Names /\ "bare" \in Names /\ "scoped" \in Names
      /\ w \in ScopedWorkers => w \notin BareWorkers
  BY WorkersAssumption DEF IndInv, TypeOK, ClaimType, Own, Names
<1>1. ASSUME NEW exhausted \in BOOLEAN, Receive(w, exhausted)
      PROVE  WindowInv'
  BY <1>1, OverForGood, CountKept DEF Receive, tenant
<1>2. CASE HoldsTenant(w)
  BY <1>0, <1>2, OverForGood, CountKept DEF HoldsTenant, tenant, Workers
<1>3. CASE DeclareTenant(w)
  BY <1>3, OverForGood, CountKept DEF DeclareTenant, tenant
<1>4. CASE HoldsUnscoped(w)
  BY <1>4, OverForGood, CountKept DEF HoldsUnscoped, tenant
<1>5. CASE InsertClaim(w)
  BY <1>5, OverForGood, CountKept DEF InsertClaim, tenant
<1>6. CASE ReadConflict(w)
  BY <1>6, OverForGood, CountKept DEF ReadConflict, tenant
<1>7. CASE LockConflict(w)
  BY <1>7, OverForGood, CountKept DEF LockConflict, tenant
<1>8. ASSUME NEW effects \in Effects, CommitHandler(w, effects)
      PROVE  WindowInv'
  <2>1. /\ pc[w] = "running" /\ runs' = runs + 1 /\ named' = named
        /\ claims'[Own(w)].live /\ ~claims[Own(w)].live
        /\ \A n \in Names : n # Own(w) => claims'[n] = claims[n]
    <3>1. open[Own(w)] = w
      BY <1>8 DEF CommitHandler, IndInv, OpenInv
    <3>2. ~claims[Own(w)].live
      BY <1>0, <3>1, WorkersAssumption DEF IndInv, OpenInv, Workers
    <3> QED
      BY <1>0, <1>8, <3>2 DEF CommitHandler, Claim, tenant
  <2>2. CASE w \in BareWorkers
    <3>1. Own(w) = "bare" /\ ~BareOver
      BY <2>1, <2>2 DEF Own, BareOver
    <3> QED
      BY <1>0, <2>1, <3>1 DEF WindowInv
  <2>3. CASE w \notin BareWorkers
    <3>1. Own(w) = "scoped" /\ (BareOver => BareOver')
      BY <1>0, <1>8, <2>1, <2>3, OverForGood DEF Own, CommitHandler
    <3> QED
      BY <1>0, <2>1, <3>1 DEF WindowInv
  <2> QED
    BY <2>2, <2>3
<1>9. ASSUME NEW ok \in BOOLEAN, RunEffect(w, ok)
      PROVE  WindowInv'
  <2>1. \A n \in Names : claims'[n].live = claims[n].live
    BY <1>0, <1>9 DEF RunEffect, ClaimType
  <2> QED
    BY <1>0, <1>9, <2>1, OverForGood, CountKept DEF RunEffect, tenant
<1>10. CASE MarkEffectRun(w)
  <2>1. \A n \in Names : claims'[n].live = claims[n].live
    BY <1>0, <1>10 DEF MarkEffectRun, ClaimType
  <2> QED
    BY <1>0, <1>10, <2>1, OverForGood, CountKept DEF MarkEffectRun, tenant
<1>11. CASE ReleaseClaim(w)
  <2>1. claims[Own(w)].live
    BY <1>11 DEF ReleaseClaim, IndInv, OwedInv, Owing
  <2>2. /\ runs' = runs - 1
        /\ \A n \in Names : n # Own(w) => claims'[n] = claims[n]
        /\ BareOver => BareOver'
    BY <1>0, <1>11, <2>1, OverForGood DEF ReleaseClaim, tenant
  <2>3. Own(w) = "bare" \/ Own(w) = "scoped"
    BY <1>0 DEF Names
  <2> QED
    BY <1>0, <2>1, <2>2, <2>3 DEF WindowInv
<1>12. CASE DeclareDead(w)
  BY <1>12, OverForGood, CountKept DEF DeclareDead, tenant
<1>13. CASE TerminalDurable(w)
  BY <1>13, OverForGood, CountKept DEF TerminalDurable, tenant
<1>14. CASE DeadLetter(w)
  <2>1. \A n \in Names : claims[n].live => claims'[n].live
    BY <1>0, <1>14 DEF DeadLetter, Claim
  <2> QED
    BY <1>0, <1>14, <2>1, OverForGood, CountKept DEF DeadLetter, tenant
<1>15. CASE Abandon(w)
  BY <1>15, OverForGood, CountKept DEF Abandon, tenant
<1> QED
  BY <1>1, <1>2, <1>3, <1>4, <1>5, <1>6, <1>7, <1>8, <1>9, <1>10, <1>11, <1>12, <1>13, <1>14,
     <1>15 DEF Step

(* Placements only end what can be claimed, and a move that deletes the     *)
(* bare claim has met no delivery that could make another.                  *)
LEMMA WindowStep == IndInv /\ WindowInv /\ [Next]_vars => WindowInv'
<1> SUFFICES ASSUME IndInv, WindowInv, [Next]_vars PROVE WindowInv'
  OBVIOUS
<1>1. CASE UNCHANGED vars
  BY <1>1 DEF vars, WindowInv, BareOver
<1>2. CASE Place \/ BareStops
  BY <1>2, CountKept DEF Place, BareStops, BareOver
<1>3. ASSUME NEW commits \in BOOLEAN, PlaceEnds(commits)
      PROVE  WindowInv'
  <2>1. ~BareOver
    BY <1>3 DEF PlaceEnds, IndInv, KeyInv, BareOver
  <2> QED
    BY <1>3, <2>1, CountKept DEF PlaceEnds
<1>4. CASE Moves /\ ~MoveCommits
  BY <1>4, CountKept
     DEF Moves, HoldTenants, LedgerDurables, ClaimsOwing, RenameClaims, RenameLetters,
         UnscopedRemains, MoveRefused, tenant, BareOver
<1>5. CASE MoveCommits
  <2>1. /\ runs' = runs /\ named' = named /\ pc' = pc
        /\ claims'["bare"] = IF src.claim THEN NoClaim ELSE claims["bare"]
        /\ twin.claim \/ claims'["scoped"] = claims["scoped"]
        /\ twin.claim => claims'["scoped"].live = claims["bare"].live
    BY <1>5 DEF MoveCommits, Names, IndInv, TypeOK
  <2>2. src.claim => BareOver'
    BY <1>5, <2>1 DEF MoveCommits, IndInv, KeyInv, MoveInv, Declared, BareOver, Taking
  <2>3. claims["scoped"].live => claims'["scoped"].live
    BY <2>1 DEF IndInv, MoveInv
  <2>4. BareOver => BareOver'
    BY <2>1 DEF BareOver
  <2> QED
    BY <2>1, <2>2, <2>3, <2>4, CountKept
<1>6. ASSUME NEW w \in Workers,
             Step(w) \/ \E exhausted \in BOOLEAN : Receive(w, exhausted)
      PROVE  WindowInv'
  BY <1>6, WindowWorker
<1> QED
  BY <1>1, <1>2, <1>3, <1>4, <1>5, <1>6 DEF Next

(* Taking an app name runs no handler twice, however deliveries under both  *)
(* names, placements and moves interleave, but for a bare claim that was    *)
(* still open when its tenant was placed under an app that already consumes *)
(* (declareTenant, holdsUnscoped, MoveLedger); and that costs one more run. *)
THEOREM HandledOnce == Spec => []HandledOnceUnderBothNames
<1>1. Init => WindowInv
  BY DEF Init, WindowInv
<1>2. IndInv /\ WindowInv => HandledOnceUnderBothNames
  BY DEF IndInv, RunInv, WindowInv, HandledOnceUnderBothNames
<1> QED
  BY <1>1, <1>2, WindowStep, Inductive, PTL DEF Spec

(* The rename pays no debt: a claim that owes nothing has nothing           *)
(* outstanding (claimsOwing under the tenant's key, markEffectRun).         *)
THEOREM DebtsStay == Spec => []DebtNotMoved
<1>1. IndInv => DebtNotMoved
  BY DEF IndInv
<1> QED
  BY <1>1, Inductive, PTL

(* Once the work is finished under some name, some name says so ever after, *)
(* moves and releases included, unless the window was met (renameLedger).   *)
THEOREM MarksAreKept == Spec => MarkKept
<1>1. IndInv /\ [Next]_vars => [Finished /\ ~window => Finished']_vars
  <2> SUFFICES ASSUME IndInv, Next, Finished, ~window PROVE Finished'
    OBVIOUS
  <2>1. PICK n \in Names : (claims[n].live /\ claims[n].owed <= 0) \/ letters[n]
    BY DEF Finished
  <2>2. claims \in [Names -> ClaimType] /\ letters \in [Names -> BOOLEAN]
    BY DEF IndInv, TypeOK, ClaimType
  <2>3. CASE UNCHANGED <<claims, letters>>
    BY <2>3 DEF Finished
  <2>4. ASSUME NEW w \in Workers, NEW effects \in Effects, CommitHandler(w, effects)
        PROVE  Finished'
    <3>1. ~claims[Own(w)].live /\ letters' = letters
      <4>1. pc[w] = "running" /\ letters' = letters
        BY <2>4 DEF CommitHandler
      <4>2. Own(w) \in Names /\ w # None
        BY WorkersAssumption DEF Own, Names, Workers
      <4> QED
        BY <4>1, <4>2 DEF IndInv, OpenInv
    <3>2. \A m \in Names : claims[m].live => claims'[m] = claims[m]
      BY <2>2, <2>4, <3>1 DEF CommitHandler
    <3> QED
      BY <2>1, <3>1, <3>2 DEF Finished
  <2>5. ASSUME NEW w \in Workers,
               (\E ok \in BOOLEAN : RunEffect(w, ok)) \/ MarkEffectRun(w) \/ ReleaseClaim(w)
        PROVE  Finished'
    <3>1. pc[w] \in Owing /\ letters' = letters
      BY <2>5 DEF RunEffect, MarkEffectRun, ReleaseClaim, Owing
    <3>2. claims[Own(w)].owed = 1
      BY <3>1 DEF IndInv, OwedInv
    <3>3. \A m \in Names \ {Own(w)} : claims'[m] = claims[m]
      BY <2>2, <2>5 DEF RunEffect, MarkEffectRun, ReleaseClaim
    <3> QED
      BY <2>1, <3>1, <3>2, <3>3 DEF Finished
  <2>6. ASSUME NEW w \in Workers, DeadLetter(w)
        PROVE  Finished'
    <3>1. \A m \in Names : claims[m].live => claims'[m] = claims[m]
      BY <2>2, <2>6 DEF DeadLetter
    <3>2. \A m \in Names : letters[m] => letters'[m]
      BY <2>2, <2>6 DEF DeadLetter
    <3> QED
      BY <2>1, <3>1, <3>2 DEF Finished
  <2>7. CASE MoveCommits
    <3>1. /\ claims'["scoped"] = IF twin.claim THEN claims["bare"] ELSE claims["scoped"]
          /\ IF src.claim THEN TRUE ELSE claims'["bare"] = claims["bare"]
          /\ letters'["bare"] <=> letters["bare"] /\ ~src.letter
          /\ letters'["scoped"] <=> letters["scoped"] \/ twin.letter
          /\ twin.claim => claims["bare"].live /\ claims["bare"].owed = 0
      BY <2>7, Renamed
    <3>2. /\ src.letter /\ ~twin.letter => letters["scoped"]
          /\ src.claim /\ ~twin.claim => claims["scoped"].live /\ claims["scoped"].owed = 0
      BY DEF IndInv, MoveInv, HandoverInv
    <3>3. (letters["bare"] \/ letters["scoped"]) => Finished'
      BY <3>1, <3>2 DEF Finished, Names
    <3>4. CASE twin.claim
      BY <3>1, <3>4 DEF Finished, Names
    <3>5. CASE ~twin.claim /\ src.claim
      BY <3>1, <3>2, <3>5 DEF Finished, Names
    <3>6. CASE ~twin.claim /\ ~src.claim
      BY <2>1, <3>1, <3>3, <3>6 DEF Finished, Names
    <3> QED
      BY <3>4, <3>5, <3>6
  <2>8. CASE Moves /\ ~MoveCommits
    BY <2>3, <2>8 DEF Moves, HoldTenants, LedgerDurables, ClaimsOwing, RenameClaims, RenameLetters,
                      UnscopedRemains, MoveRefused
  <2>9. CASE Place \/ BareStops \/ \E commits \in BOOLEAN : PlaceEnds(commits)
    BY <2>3, <2>9 DEF Place, BareStops, PlaceEnds
  <2>10. ASSUME NEW w \in Workers, Step(w) \/ \E exhausted \in BOOLEAN : Receive(w, exhausted)
         PROVE  Finished'
    BY <2>3, <2>4, <2>5, <2>6, <2>10
       DEF Step, Receive, HoldsTenant, DeclareTenant, HoldsUnscoped, InsertClaim, ReadConflict,
           LockConflict, DeclareDead, TerminalDurable, Abandon
  <2> QED
    BY <2>7, <2>8, <2>9, <2>10 DEF Next
<1> QED
  BY <1>1, Inductive, PTL DEF Spec, MarkKept

(* A move that goes through leaves the app's tenant nothing under the bare  *)
(* name (unscopedRemains, with the tenant's key held to the COMMIT).        *)
THEOREM BareIsEmptied == Spec => NothingLeftBare
<1>1. IndInv /\ [Next]_vars =>
         [MoveCommits /\ named => ~claims'["bare"].live /\ ~letters'["bare"]]_vars
  <2> SUFFICES ASSUME IndInv, MoveCommits, named
               PROVE  ~claims'["bare"].live /\ ~letters'["bare"]
    OBVIOUS
  <2>1. /\ IF src.claim THEN ~claims'["bare"].live ELSE claims'["bare"] = claims["bare"]
        /\ letters'["bare"] <=> letters["bare"] /\ ~src.letter
    BY Renamed
  <2>2. /\ claims["bare"].live => src.claim
        /\ letters["bare"] => src.letter
    BY DEF MoveCommits, IndInv, MoveInv
  <2> QED
    BY <2>1, <2>2
<1> QED
  BY <1>1, Inductive, PTL DEF Spec, NothingLeftBare

=============================================================================
