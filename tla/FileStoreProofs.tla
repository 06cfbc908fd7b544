--------------------------- MODULE FileStoreProofs ---------------------------
(* Proofs about FileStore, for any number of removers, records and ticks.   *)
EXTENDS FileStore, TLAPS

(* Until an upload is over it is alone with its bytes: nothing of it has    *)
(* aged, so no sweep means to remove it, and no width is being written.     *)
UploadInv ==
    /\ upload # "over" =>
          /\ file = "none"
          /\ \A t \in Ticks : enc[t] = "idle"
          /\ doomed = {}
          /\ objects["width"] = "absent"
          /\ \A k \in Keys : objects[k] # "old"
    /\ upload = "idle" => \A k \in Keys : objects[k] = "absent"
    /\ upload = "received" => "raw" \in Present
    /\ upload \in {"stored", "created"} => key \in Present

(* The transaction that holds the row's lock is alone with a row that is    *)
(* there, and a row that is gone was not held by anybody else.              *)
Holding == {"locked", "deleting", "ending", "keeping"}

LockInv ==
    /\ \A a \in Actors : pc[a] \in {"locked", "deleting", "keeping", "naming"} => file = "live"
    /\ \A a \in Actors : pc[a] = "ending" => file # "none"
    /\ file = "live" =>
          \A a, b \in Actors : pc[a] \in Holding /\ pc[b] \in Holding \cup {"naming"} => a = b

(* What a removal asked under the lock is still so when it commits.         *)
ClearedInv ==
    \A m \in Removers : pc[m] = "deleting" =>
        /\ ~hold
        /\ cause[m] \in {"caller", "unused"} => uses = {}

(* A width's row is finished by one tick at a time and behind no removal.    *)
FinishInv ==
    /\ \A t \in Ticks : enc[t] = "finishing" => width = "pending" /\ ~Deleting
    /\ \A t, u \in Ticks : enc[t] = "finishing" /\ enc[u] = "finishing" => t = u

(* While no two ticks met, a width that is served was finished by a tick    *)
(* that heard its COMMIT and let go; one about to be finished has its bytes. *)
EncInv ==
    ~overlap =>
        /\ \A t, u \in Ticks : enc[t] # "idle" /\ enc[u] # "idle" => t = u
        /\ \A t \in Ticks : enc[t] # "idle" /\ width = "ready" => lost
        /\ \A t \in Ticks : enc[t] \in {"written", "finishing"} /\ width = "pending" =>
               "width" \in Present

(* What the sweep means to remove is named by no row.                       *)
SweepInv ==
    sweep = "removing" => /\ file = "live" => key \notin doomed
                          /\ width # "none" => "width" \notin doomed

(* A picture without a planned width has nothing of it and no encode.       *)
PlanInv ==
    file # "gone" /\ width = "none" =>
        (\A t \in Ticks : enc[t] = "idle") /\ "width" \notin Present

(* A delivery follows an order and a proof follows a delivery; what the     *)
(* delivery deleted is not stored again, except a width by an encode that   *)
(* was overtaken.                                                           *)
EraseInv ==
    /\ erase # "idle" \/ proof # "none" => order.state # "none" /\ key \notin Present
    /\ (order.state # "none" /\ ~order.width) \/ erase = "widths" \/ proof # "none" =>
          ("width" \in Present => overtaken)

IndInv ==
    /\ TypeOK
    /\ UploadInv
    /\ LockInv
    /\ ClearedInv
    /\ FinishInv
    /\ EncInv
    /\ SweepInv
    /\ EraseInv
    /\ PlanInv
    /\ RowsNameBytes

(* What becomes of the store when keys are deleted, and when one is written. *)
LEMMA DeletedKeys ==
    ASSUME TypeOK, NEW gone, objects' = Deleted(gone)
    PROVE  /\ objects' \in [Keys -> {"absent", "fresh", "old"}]
           /\ \A k \in Keys \ gone : objects'[k] = objects[k]
           /\ \A k \in Keys : objects'[k] = objects[k] \/ objects'[k] = "absent"
           /\ \A k \in Keys \cap gone : objects'[k] = "absent"
  BY DEF Deleted, TypeOK

(* A Put makes one key fresh. *)
LEMMA StoredKey ==
    ASSUME TypeOK, NEW k \in Keys, objects' = Stored(k)
    PROVE  /\ objects' \in [Keys -> {"absent", "fresh", "old"}]
           /\ \A j \in Keys \ {k} : objects'[j] = objects[j]
           /\ objects'[k] = "fresh"
  BY DEF Stored, TypeOK

(* An idle store satisfies all of it.                                       *)
LEMMA IndInit == Init => IndInv
<1> SUFFICES ASSUME Init PROVE IndInv
  OBVIOUS
<1>1. TypeOK
  BY DEF Init, TypeOK, NoOrder, InFlight, Keys
<1>2. /\ UploadInv /\ LockInv /\ ClearedInv /\ FinishInv /\ EncInv /\ SweepInv
      /\ EraseInv /\ PlanInv /\ RowsNameBytes
  BY ActorsAssumption
     DEF Init, UploadInv, LockInv, ClearedInv, FinishInv, EncInv, SweepInv,
         EraseInv, PlanInv, RowsNameBytes, Deleting, NoOrder, Keys, Actors, Holding, Present
<1> QED
  BY <1>1, <1>2 DEF IndInv

(* Bytes before rows: an upload's own bytes are there when its row commits. *)
LEMMA UploadStep ==
    ASSUME IndInv, Upload
    PROVE  IndInv'
<1> USE DEF IndInv
<1>1. CASE UploadPut
  <2>1. /\ upload = "idle" /\ upload' = "received" /\ objects' = Stored("raw") /\ file = "none"
        /\ UNCHANGED <<crew, key, row, width, locks, encoding, erasing, sweeping>>
    BY <1>1 DEF UploadPut, UploadInv
  <2>2. /\ objects' \in [Keys -> {"absent", "fresh", "old"}]
        /\ \A j \in Keys \ {"raw"} : objects'[j] = objects[j]
        /\ objects'["raw"] = "fresh"
    BY <2>1, StoredKey DEF Keys
  <2>3. proof = "none"
    BY <2>1 DEF EraseInv, TypeOK
  <2> QED
    BY <2>1, <2>2, <2>3
       DEF TypeOK, UploadInv, LockInv, ClearedInv, FinishInv, EncInv, SweepInv, EraseInv, PlanInv,
           RowsNameBytes, InFlight, Keys, Present, Deleting, row, locks, encoding, history, erasing,
           sweeping
<1>2. ASSUME NEW image \in BOOLEAN, NEW ok \in BOOLEAN, UploadPassed(image, ok)
      PROVE  IndInv'
  <2>1. /\ upload = "received" /\ upload' = "stored" /\ file = "none" /\ proof = "none"
        /\ UNCHANGED <<crew, row, width, locks, encoding, erasing, sweeping>>
    BY <1>2 DEF UploadPassed, UploadInv, EraseInv, TypeOK
  <2>2. /\ objects' \in [Keys -> {"absent", "fresh", "old"}]
        /\ \A j \in Keys : objects'[j] # "old"
        /\ objects'["width"] = "absent"
        /\ key' \in {"raw", "frame"} /\ key' \in Present'
    BY <1>2, <2>1 DEF UploadPassed, Dropped, Deleted, TypeOK, UploadInv, Keys, Present
  <2> QED
    BY <2>1, <2>2
       DEF TypeOK, UploadInv, LockInv, ClearedInv, FinishInv, EncInv, SweepInv, EraseInv, PlanInv,
           RowsNameBytes, InFlight, Keys, Present, Deleting, row, locks, encoding, history, erasing,
           sweeping
<1>3. CASE UploadCreates
  BY <1>3
     DEF UploadCreates, TypeOK, UploadInv, LockInv, ClearedInv, FinishInv, EncInv, SweepInv,
         EraseInv, PlanInv, RowsNameBytes, Deleting, InFlight, Present, row, locks, encoding,
         history, erasing, sweeping
<1>4. CASE UploadCommits
  <2>1. /\ upload = "created" /\ upload' = "over" /\ file = "none" /\ file' = "live"
        /\ width' \in {"none", "pending"} /\ doomed = {} /\ key \in Present
        /\ \A t \in Ticks : enc[t] = "idle"
        /\ order.state = "none" /\ erase = "idle" /\ proof = "none"
        /\ UNCHANGED <<crew, key, stamp, expired, hold, uses, objects, locks, encoding, erasing,
                       sweeping>>
    BY <1>4 DEF UploadCommits, UploadInv, TypeOK, EraseInv
  <2> QED
    BY <2>1
       DEF TypeOK, UploadInv, LockInv, ClearedInv, FinishInv, EncInv, SweepInv, EraseInv, PlanInv,
           RowsNameBytes, InFlight, Present, Holding, Deleting, locks, encoding, history, erasing,
           sweeping
<1>5. ASSUME NEW ok \in BOOLEAN, UploadFails(ok)
      PROVE  IndInv'
  <2>1. /\ upload \in InFlight /\ upload' = "over" /\ file = "none" /\ proof = "none"
        /\ \A t \in Ticks : enc[t] = "idle"
        /\ doomed = {} /\ width = "none" /\ order.state = "none"
        /\ UNCHANGED <<crew, key, row, width, locks, encoding, erasing, sweeping>>
    BY <1>5 DEF UploadFails, UploadInv, EraseInv, TypeOK, InFlight
  <2>2. objects' \in [Keys -> {"absent", "fresh", "old"}] /\ objects'["width"] = "absent"
    <3>1. objects["width"] = "absent"
      BY <2>1 DEF UploadInv, InFlight
    <3> QED
      BY <1>5, <3>1, DeletedKeys DEF UploadFails, Dropped, Keys
  <2> QED
    BY <2>1, <2>2
       DEF TypeOK, UploadInv, LockInv, ClearedInv, FinishInv, EncInv, SweepInv, EraseInv, PlanInv,
           RowsNameBytes, InFlight, Keys, Present, Deleting, row, locks, encoding, history, erasing,
           sweeping
<1> QED
  BY <1>1, <1>2, <1>3, <1>4, <1>5 DEF Upload

(* A transaction moves on; the others stay where they are.                  *)
LEMMA Moved ==
    ASSUME TypeOK, NEW a \in Actors,
           NEW phase \in {"idle", "read", "locked", "deleting", "naming", "ending", "keeping"},
           pc' = [pc EXCEPT ![a] = phase]
    PROVE  /\ pc' \in [Actors -> {"idle", "read", "locked", "deleting", "naming", "ending",
                                  "keeping"}]
           /\ pc'[a] = phase
           /\ \A b \in Actors \ {a} : pc'[b] = pc[b]
  BY DEF TypeOK

(* Asking for the lock, and giving a removal up, write nothing.             *)
LEMMA LockStep ==
    ASSUME IndInv, NEW a \in Actors, NEW phase,
           Goto(a, phase),
           phase \in {"idle", "read", "locked", "naming", "ending", "keeping"},
           phase \in {"locked", "keeping"} => CanLock,
           phase = "ending" => CanLock \/ file = "gone",
           phase = "naming" => CanShare,
           cause' \in [Removers -> Asked \cup Batched \cup {None}],
           \A m \in Removers : pc[m] = "deleting" /\ m # a => cause'[m] = cause[m],
           UNCHANGED <<crew, uploading, row, width, objects, encoding, erasing, sweeping>>
    PROVE  IndInv'
<1> USE DEF IndInv
<1>1. /\ pc' = [pc EXCEPT ![a] = phase]
      /\ UNCHANGED <<crew, upload, key, file, stamp, expired, hold, uses, width, objects, enc, lost,
                     overlap, overtaken, order, erase, proof, sweep, doomed>>
  BY DEF Goto, uploading, row, encoding, history, erasing, sweeping
<1>2. /\ pc'[a] = phase
      /\ \A b \in Actors \ {a} : pc'[b] = pc[b]
  BY <1>1 DEF TypeOK
<1>3. TypeOK'
  BY <1>1 DEF TypeOK
<1>4. UploadInv' /\ SweepInv' /\ EraseInv' /\ PlanInv' /\ RowsNameBytes'
  BY <1>1 DEF UploadInv, SweepInv, EraseInv, PlanInv, RowsNameBytes, Present
<1>5. ClearedInv' /\ FinishInv' /\ EncInv'
  <2>1. \A m \in Removers : pc'[m] = "deleting" => m # a /\ pc[m] = "deleting"
    BY <1>2 DEF Actors
  <2> QED
    BY <2>1, <1>1 DEF ClearedInv, FinishInv, EncInv, Deleting, Present
<1>6. LockInv'
  <2>1. /\ phase \in {"locked", "keeping", "naming"} => file = "live"
        /\ phase = "ending" => file # "none"
    BY DEF CanLock, CanShare
  <2>2. file = "live" /\ phase \in Holding =>
           \A b \in Actors : pc[b] \notin Holding \cup {"naming"}
    BY DEF CanLock, Exclusive, Sharing, Holding
  <2>3. file = "live" /\ phase = "naming" => \A b \in Actors : pc[b] \notin Holding
    BY DEF CanShare, Exclusive, Holding
  <2>4. file = "live" =>
           \A b, c \in Actors : pc'[b] \in Holding /\ pc'[c] \in Holding \cup {"naming"} => b = c
    BY <2>2, <2>3, <1>2 DEF LockInv, Holding
  <2> QED
    BY <2>1, <2>4, <1>1, <1>2 DEF LockInv
<1> QED
  BY <1>3, <1>4, <1>5, <1>6

(* A removal: what it asked under the lock holds until its COMMIT, which    *)
(* takes the row and its widths together.                                   *)
LEMMA RemoveStep ==
    ASSUME IndInv, NEW m \in Removers, Remove(m)
    PROVE  IndInv'
<1> USE DEF IndInv
<1>0. m \in Actors /\ cause \in [Removers -> Asked \cup Batched \cup {None}]
  BY DEF Actors, TypeOK
<1>1. ASSUME NEW c \in Asked \cup Batched, cause' = [cause EXCEPT ![m] = c]
      PROVE  /\ cause' \in [Removers -> Asked \cup Batched \cup {None}]
             /\ \A n \in Removers : n # m => cause'[n] = cause[n]
  BY <1>0, <1>1
<1>2. ASSUME NEW c \in Batched, BatchReads(m, c)
      PROVE  IndInv'
  BY <1>0, <1>1, <1>2, LockStep DEF BatchReads
<1>3. CASE BatchLocks(m)
  BY <1>0, <1>3, LockStep DEF BatchLocks
<1>4. ASSUME NEW c \in Asked, RequestLocks(m, c)
      PROVE  IndInv'
  BY <1>0, <1>1, <1>4, LockStep DEF RequestLocks
<1>5. CASE Removes(m)
  <2>1. CASE ~Allowed(cause[m])
    BY <1>0, <1>5, <2>1, LockStep DEF Removes
  <2>2. CASE Allowed(cause[m])
    <3>1. /\ pc[m] = "locked" /\ pc' = [pc EXCEPT ![m] = "deleting"] /\ ~Finishing
          /\ UNCHANGED <<crew, upload, key, file, stamp, expired, hold, uses, width, objects, cause,
                         enc, lost, overlap, overtaken, order, erase, proof, sweep, doomed>>
      BY <1>5, <2>2 DEF Removes, Goto, uploading, row, encoding, history, erasing, sweeping
    <3>2. pc'[m] = "deleting" /\ \A b \in Actors \ {m} : pc'[b] = pc[b]
      BY <3>1, <1>0 DEF TypeOK
    <3>3. TypeOK'
      <4>1. pc' \in [Actors -> {"idle", "read", "locked", "deleting", "naming", "ending",
                               "keeping"}]
        BY <3>1, <1>0, Moved
      <4> QED
        BY <3>1, <4>1 DEF TypeOK
    <3>4. UploadInv' /\ SweepInv' /\ EraseInv' /\ PlanInv' /\ RowsNameBytes'
      BY <3>1 DEF UploadInv, SweepInv, EraseInv, PlanInv, RowsNameBytes, Present
    <3>7. FinishInv' /\ EncInv'
      BY <3>1 DEF FinishInv, EncInv, Finishing, Present
    <3>5. LockInv'
      BY <3>1, <3>2, <1>0 DEF LockInv, Holding
    <3>6. ClearedInv'
      BY <3>1, <3>2, <2>2 DEF ClearedInv, Allowed, Actors
    <3> QED
      BY <3>3, <3>4, <3>5, <3>6, <3>7
  <2> QED
    BY <2>1, <2>2
<1>6. CASE RemoveCommits(m)
  <2>1. /\ pc[m] = "deleting" /\ pc' = [pc EXCEPT ![m] = "idle"]
        /\ file' = "gone" /\ stamp' = "none" /\ width' = "none"
        /\ order' = [state |-> "due", cause |-> cause[m], width |-> width # "none"]
        /\ UNCHANGED <<crew, upload, key, expired, hold, uses, objects, cause, enc, lost, overlap,
                       overtaken, erase, proof, sweep, doomed>>
    BY <1>6 DEF RemoveCommits, Goto, uploading, encoding, history, sweeping
  <2>2. pc'[m] = "idle" /\ \A b \in Actors \ {m} : pc'[b] = pc[b]
    BY <2>1, <1>0 DEF TypeOK
  <2>3. file = "live" /\ \A b \in Actors \ {m} : pc[b] \notin Holding \cup {"naming"}
    BY <2>1, <1>0 DEF LockInv, Holding
  <2>4. order'.state = "due" /\ cause[m] \in Asked \cup Batched \cup {None}
    BY <2>1 DEF TypeOK
  <2>5. TypeOK'
    <3>1. pc' \in [Actors -> {"idle", "read", "locked", "deleting", "naming", "ending",
                             "keeping"}]
      BY <2>1, <1>0, Moved
    <3>2. order' \in [state : {"none", "due", "done"}, cause : Asked \cup Batched \cup {None},
                      width : BOOLEAN]
      BY <2>1, <2>4
    <3> QED
      BY <2>1, <3>1, <3>2 DEF TypeOK
  <2>6. UploadInv' /\ SweepInv' /\ EraseInv' /\ PlanInv' /\ RowsNameBytes'
    BY <2>1, <2>3, <2>4 DEF UploadInv, SweepInv, EraseInv, PlanInv, RowsNameBytes, Present
  <2>8. FinishInv' /\ EncInv'
    BY <2>1, <1>0 DEF FinishInv, EncInv, Deleting, Present
  <2>7. LockInv' /\ ClearedInv'
    BY <2>1, <2>2, <2>3 DEF LockInv, ClearedInv, Holding, Actors
  <2> QED
    BY <2>5, <2>6, <2>7, <2>8
<1> QED
  BY <1>2, <1>3, <1>4, <1>5, <1>6 DEF Remove

(* A use is filed beside no removal, and ended alone.                       *)
LEMMA UseStep ==
    ASSUME IndInv, NEW r \in Records, Use(r)
    PROVE  IndInv'
<1> USE DEF IndInv
<1>0. r \in Actors /\ cause \in [Removers -> Asked \cup Batched \cup {None}]
  BY DEF Actors, TypeOK
<1>1. CASE NameLocks(r)
  BY <1>0, <1>1, LockStep DEF NameLocks
<1>2. CASE EndLocks(r)
  BY <1>0, <1>2, LockStep DEF EndLocks
<1>3. CASE NameCommits(r) \/ EndCommits(r)
  <2>1. /\ pc' = [pc EXCEPT ![r] = "idle"]
        /\ uses' \in SUBSET Records /\ stamp' \in {"none", "young", "old"}
        /\ pc[r] = "naming" \/ uses' \subseteq uses
        /\ UNCHANGED <<crew, upload, key, file, expired, hold, width, objects, cause, enc, lost,
                       overlap, overtaken, order, erase, proof, sweep, doomed>>
    BY <1>3 DEF NameCommits, EndCommits, Goto, uploading, encoding, history, erasing, sweeping,
                TypeOK
  <2>2. pc'[r] = "idle" /\ \A b \in Actors \ {r} : pc'[b] = pc[b]
    BY <2>1, <1>0 DEF TypeOK
  <2>3. TypeOK'
    <3>1. pc' \in [Actors -> {"idle", "read", "locked", "deleting", "naming", "ending",
                             "keeping"}]
      BY <2>1, <1>0, Moved
    <3> QED
      BY <2>1, <3>1 DEF TypeOK
  <2>4. UploadInv' /\ SweepInv' /\ EraseInv' /\ PlanInv' /\ RowsNameBytes'
    BY <2>1 DEF UploadInv, SweepInv, EraseInv, PlanInv, RowsNameBytes, Present
  <2>5. LockInv'
    BY <2>1, <2>2 DEF LockInv, Holding
  <2>6. \A m \in Removers : pc'[m] = "deleting" => pc[m] = "deleting" /\ pc[r] # "naming"
    BY <2>2, <1>0 DEF LockInv, Holding, Actors
  <2>7. ClearedInv' /\ FinishInv' /\ EncInv'
    BY <2>1, <2>6 DEF ClearedInv, FinishInv, EncInv, Deleting, Present
  <2> QED
    BY <2>3, <2>4, <2>5, <2>7
<1> QED
  BY <1>1, <1>2, <1>3 DEF Use

(* A hold is placed and released with the row's lock held.                  *)
LEMMA HoldStep ==
    ASSUME IndInv, Hold
    PROVE  IndInv'
<1> USE DEF IndInv
<1>0. Keeper \in Actors /\ cause \in [Removers -> Asked \cup Batched \cup {None}]
  BY DEF Actors, TypeOK
<1>1. CASE HoldLocks
  BY <1>0, <1>1, LockStep DEF HoldLocks
<1>2. ASSUME NEW placed \in BOOLEAN, HoldCommits(placed)
      PROVE  IndInv'
  <2>1. /\ pc[Keeper] = "keeping" /\ pc' = [pc EXCEPT ![Keeper] = "idle"] /\ hold' = placed
        /\ UNCHANGED <<crew, upload, key, file, stamp, expired, uses, width, objects, cause, enc,
                       lost, overlap, overtaken, order, erase, proof, sweep, doomed>>
    BY <1>2 DEF HoldCommits, Goto, uploading, encoding, history, erasing, sweeping
  <2>2. pc'[Keeper] = "idle" /\ \A b \in Actors \ {Keeper} : pc'[b] = pc[b]
    BY <2>1, <1>0 DEF TypeOK
  <2>3. TypeOK'
    <3>1. pc' \in [Actors -> {"idle", "read", "locked", "deleting", "naming", "ending",
                             "keeping"}]
      BY <2>1, <1>0, Moved
    <3> QED
      BY <2>1, <3>1 DEF TypeOK
  <2>4. UploadInv' /\ SweepInv' /\ EraseInv' /\ PlanInv' /\ RowsNameBytes'
    BY <2>1 DEF UploadInv, SweepInv, EraseInv, PlanInv, RowsNameBytes, Present
  <2>5. LockInv'
    BY <2>1, <2>2 DEF LockInv, Holding
  <2>6. \A m \in Removers : pc'[m] # "deleting"
    BY <2>1, <2>2, <1>0 DEF LockInv, Holding, Actors
  <2>7. ClearedInv' /\ FinishInv' /\ EncInv'
    BY <2>1, <2>6 DEF ClearedInv, FinishInv, EncInv, Deleting, Present
  <2> QED
    BY <2>3, <2>4, <2>5, <2>7
<1> QED
  BY <1>1, <1>2 DEF Hold

(* A tick's step leaves alone what is not the width's, and keeps the         *)
(* invariant if the row is treated well and bytes appear only where an       *)
(* order would find them or the history says that they came late.            *)
LEMMA EncodeKeeps ==
    ASSUME IndInv, NEW t \in Ticks,
           NEW phase \in {"idle", "looked", "scaled", "cleared", "written", "finishing",
                          "undoing", "refused", "failing"},
           Moves(t, phase),
           width # "none" \/ enc[t] # "idle",
           UNCHANGED <<crew, uploading, row, locks, erasing, sweeping>>,
           width' = width \/ (width = "pending" /\ width' \in {"ready", "failed"}),
           lost' \in BOOLEAN, overlap' \in BOOLEAN, overtaken' \in BOOLEAN,
           overtaken => overtaken',
           objects' \in [Keys -> {"absent", "fresh", "old"}],
           \A k \in {"raw", "frame"} : objects'[k] = objects[k],
           "width" \in Present' => overtaken' \/ file = "live" \/ "width" \in Present,
           FinishInv', EncInv',
           width' = "ready" /\ ~lost' /\ ~overlap' => "width" \in Present'
    PROVE  IndInv'
<1> USE DEF IndInv
<1>1. /\ UNCHANGED <<crew, upload, key, file, stamp, expired, hold, uses, pc, cause, order, erase,
                     proof, sweep, doomed>>
      /\ upload = "over"
  BY DEF uploading, row, locks, erasing, sweeping, UploadInv, TypeOK
<1>2. /\ width' # "none" <=> width # "none"
      /\ width # "none" => file = "live"
      /\ width = "none" => file = "gone"
  BY <1>1 DEF TypeOK, UploadInv, PlanInv
<1>3. TypeOK'
  <2>1. enc' \in [Ticks -> {"idle", "looked", "scaled", "cleared", "written", "finishing",
                            "undoing", "refused", "failing"}]
    BY DEF Moves, TypeOK
  <2> QED
    BY <1>1, <1>2, <2>1 DEF TypeOK
<1>4. UploadInv' /\ LockInv' /\ ClearedInv' /\ SweepInv' /\ PlanInv'
  BY <1>1, <1>2 DEF UploadInv, LockInv, ClearedInv, SweepInv, PlanInv
<1>5. key \in Present' <=> key \in Present
  BY <1>1 DEF TypeOK, Present, Keys
<1>6. EraseInv'
  <2>1. erase # "idle" \/ proof # "none" \/ order.state # "none" => file = "gone"
    BY DEF EraseInv, TypeOK
  <2> QED
    BY <1>1, <1>5, <2>1 DEF EraseInv
<1>7. RowsNameBytes'
  BY <1>1, <1>5 DEF RowsNameBytes
<1> QED
  BY <1>3, <1>4, <1>6, <1>7

(* A width's bytes are there before its row says so, and go only when the   *)
(* row does not say so, a COMMIT went unheard or two ticks met.             *)
LEMMA EncodeStep ==
    ASSUME IndInv, NEW t \in Ticks, Encode(t)
    PROVE  IndInv'
<1> USE DEF IndInv
<1> DEFINE Phases == {"idle", "looked", "scaled", "cleared", "written", "finishing", "undoing",
                      "refused", "failing"}
<1>1. ASSUME NEW phase \in Phases, Moves(t, phase)
      PROVE  enc'[t] = phase /\ \A u \in Ticks \ {t} : enc'[u] = enc[u]
  BY <1>1 DEF Moves, TypeOK
<1>2. /\ objects \in [Keys -> {"absent", "fresh", "old"}] /\ "width" \in Keys
      /\ lost \in BOOLEAN /\ overlap \in BOOLEAN /\ overtaken \in BOOLEAN
      /\ Keys = {"raw", "frame", "width"}
  BY DEF TypeOK, Keys
<1>3. CASE Look(t)
  <2>1. /\ enc[t] = "idle" /\ width = "pending" /\ Moves(t, "looked")
        /\ overlap' = (overlap \/ \E u \in Ticks : enc[u] # "idle")
        /\ UNCHANGED <<crew, uploading, row, width, objects, locks, lost, overtaken, erasing,
                       sweeping>>
    BY <1>3 DEF Look
  <2>2. enc'[t] = "looked" /\ \A u \in Ticks \ {t} : enc'[u] = enc[u]
    BY <1>1, <2>1
  <2>3. FinishInv' /\ EncInv'
    BY <2>1, <2>2 DEF FinishInv, EncInv, Deleting, locks
  <2>4. overlap' \in BOOLEAN
    BY <2>1
  <2> QED
    BY <1>2, <2>1, <2>3, <2>4, EncodeKeeps DEF RowsNameBytes, Present
(* Steps that say nothing of the row and claim nothing of the bytes.        *)
<1>4. ASSUME NEW phase \in Phases \ {"written", "finishing"}, Moves(t, phase),
             enc[t] # "idle",
             UNCHANGED <<crew, uploading, row, width, locks, history, erasing, sweeping>>,
             objects' = objects \/ objects' = Deleted({"width"})
      PROVE  IndInv'
  <2>1. enc'[t] = phase /\ \A u \in Ticks \ {t} : enc'[u] = enc[u]
    BY <1>1, <1>4
  <2>2. /\ objects' \in [Keys -> {"absent", "fresh", "old"}]
        /\ \A k \in {"raw", "frame"} : objects'[k] = objects[k]
        /\ "width" \in Present' => "width" \in Present
    BY <1>2, <1>4 DEF Deleted, Present
  <2>3. FinishInv' /\ EncInv'
    BY <1>4, <2>1 DEF FinishInv, EncInv, Deleting, locks, history
  <2>4. width' = "ready" /\ ~lost' => overlap'
    BY <1>4 DEF EncInv, history
  <2> QED
    BY <1>2, <1>4, <2>2, <2>3, <2>4, EncodeKeeps DEF history
<1>5. ASSUME NEW b \in BOOLEAN, Scale(t, b) \/ FinishFails(t, b)
      PROVE  IndInv'
  BY <1>4, <1>5 DEF Scale, FinishFails
<1>6. CASE Clear(t) \/ PutFails(t) \/ EncodeStops(t)
  BY <1>4, <1>6 DEF Clear, PutFails, EncodeStops
<1>7. ASSUME NEW ok \in BOOLEAN, Undo(t, ok)
      PROVE  IndInv'
  <2>1. objects' = objects \/ objects' = Deleted({"width"})
    <3>1. Deleted({}) = objects
      BY <1>2 DEF Deleted
    <3> QED
      BY <1>7, <3>1 DEF Undo, Dropped
  <2> QED
    BY <1>4, <1>7, <2>1 DEF Undo
<1>8. CASE PutWidth(t)
  <2>1. /\ enc[t] = "cleared" /\ Moves(t, "written") /\ objects' = Stored("width")
        /\ overtaken' = (overtaken \/ file # "live")
        /\ UNCHANGED <<crew, uploading, row, width, locks, lost, overlap, erasing, sweeping>>
    BY <1>8 DEF PutWidth
  <2>2. enc'[t] = "written" /\ \A u \in Ticks \ {t} : enc'[u] = enc[u]
    BY <1>1, <2>1
  <2>3. /\ objects' \in [Keys -> {"absent", "fresh", "old"}]
        /\ \A k \in {"raw", "frame"} : objects'[k] = objects[k]
        /\ "width" \in Present'
    BY <1>2, <2>1 DEF Stored, Present
  <2>4. FinishInv' /\ EncInv'
    BY <2>1, <2>2, <2>3 DEF FinishInv, EncInv, Deleting, locks
  <2>5. overtaken' \in BOOLEAN /\ (overtaken => overtaken') /\ (overtaken' \/ file = "live")
    BY <2>1
  <2> QED
    BY <1>2, <2>1, <2>3, <2>4, <2>5, EncodeKeeps
<1>9. CASE FinishLocks(t)
  <2>1. /\ enc[t] = "written" /\ ~Deleting /\ ~Finishing
        /\ Moves(t, IF width = "pending" THEN "finishing" ELSE "idle")
        /\ UNCHANGED <<crew, uploading, row, width, objects, locks, history, erasing, sweeping>>
    BY <1>9 DEF FinishLocks
  <2>2. CASE width # "pending"
    BY <1>4, <2>1, <2>2
  <2>3. CASE width = "pending"
    <3>1. enc'[t] = "finishing" /\ \A u \in Ticks \ {t} : enc'[u] = enc[u]
      BY <1>1, <2>1, <2>3
    <3>2. FinishInv'
      BY <2>1, <2>3, <3>1 DEF FinishInv, Finishing, Deleting, locks
    <3>3. EncInv'
      BY <2>1, <2>3, <3>1 DEF EncInv, Present, history
    <3> QED
      BY <1>2, <2>1, <2>3, <3>2, <3>3, EncodeKeeps DEF RowsNameBytes, Present, history
  <2> QED
    BY <2>2, <2>3
<1>10. ASSUME NEW heard \in BOOLEAN, FinishCommits(t, heard)
       PROVE  IndInv'
  <2>1. /\ enc[t] = "finishing" /\ width' = "ready" /\ lost' = (lost \/ ~heard)
        /\ Moves(t, IF heard THEN "idle" ELSE "undoing")
        /\ UNCHANGED <<crew, uploading, row, objects, locks, overlap, overtaken, erasing, sweeping>>
    BY <1>10 DEF FinishCommits
  <2>2. PICK phase \in {"idle", "undoing"} : Moves(t, phase) /\ (phase = "idle" \/ ~heard)
    BY <2>1
  <2>3. enc'[t] = phase /\ \A u \in Ticks \ {t} : enc'[u] = enc[u]
    BY <1>1, <2>2
  <2>4. width = "pending" /\ \A u \in Ticks \ {t} : enc[u] # "finishing"
    BY <2>1 DEF FinishInv
  <2>5. lost' \in BOOLEAN /\ (phase = "idle" \/ lost')
    BY <2>1, <2>2
  <2>6. FinishInv' /\ EncInv'
    BY <2>1, <2>3, <2>4, <2>5 DEF FinishInv, EncInv, Deleting, locks
  <2>7. ~overlap' => "width" \in Present'
    BY <2>1, <2>4 DEF EncInv, Present
  <2> QED
    BY <1>2, <2>1, <2>2, <2>4, <2>5, <2>6, <2>7, EncodeKeeps DEF Present
<1>11. CASE FailRow(t)
  <2>1. /\ enc[t] = "failing" /\ ~Finishing /\ Moves(t, "idle")
        /\ width' = IF width = "pending" THEN "failed" ELSE width
        /\ UNCHANGED <<crew, uploading, row, objects, locks, history, erasing, sweeping>>
    BY <1>11 DEF FailRow
  <2>2. enc'[t] = "idle" /\ \A u \in Ticks \ {t} : enc'[u] = enc[u]
    BY <1>1, <2>1
  <2>3. FinishInv' /\ EncInv'
    BY <2>1, <2>2 DEF FinishInv, EncInv, Finishing, Present, history
  <2>4. width' = "ready" /\ ~lost' => overlap'
    BY <2>1 DEF EncInv, history
  <2> QED
    BY <1>2, <2>1, <2>3, <2>4, EncodeKeeps DEF Present, history
<1> QED
  BY <1>3, <1>5, <1>6, <1>7, <1>8, <1>9, <1>10, <1>11 DEF Encode

(* The erasure touches bytes only of a file whose row is gone.              *)
LEMMA EraseStep ==
    ASSUME IndInv, Erase
    PROVE  IndInv'
<1> USE DEF IndInv
<1>0. /\ UNCHANGED <<crew, upload, key, file, stamp, expired, hold, uses, width, pc, cause, enc,
                     lost, overlap, overtaken, sweep, doomed>>
      /\ order.state # "none" /\ file = "gone" /\ width = "none" /\ upload = "over"
  <2>1. /\ UNCHANGED <<crew, uploading, row, width, locks, encoding, sweeping>>
        /\ order.state = "due" \/ erase # "idle"
    BY DEF Erase, EraseFrame, EraseWidths, Certify, EraseFails
  <2>2. order.state # "none"
    BY <2>1 DEF EraseInv
  <2>3. file = "gone" /\ width = "none"
    BY <2>2 DEF TypeOK
  <2> QED
    BY <2>1, <2>2, <2>3 DEF uploading, row, locks, encoding, history, sweeping, UploadInv
<1>1. /\ objects' \in [Keys -> {"absent", "fresh", "old"}]
      /\ \A k \in Keys : objects'[k] = objects[k] \/ objects'[k] = "absent"
  <2>1. (\E gone : objects' = Deleted(gone)) \/ objects' = objects
    BY DEF Erase, EraseFrame, EraseWidths, Certify, EraseFails
  <2> QED
    BY <2>1, DeletedKeys DEF TypeOK
<1>2. /\ order'.state # "none" /\ erase' \in {"idle", "frame", "widths"}
      /\ order' \in [state : {"none", "due", "done"}, cause : Asked \cup Batched \cup {None},
                     width : BOOLEAN]
      /\ proof' \in {"none", "verified", "unverified"}
  BY <1>0 DEF Erase, EraseFrame, EraseWidths, Certify, EraseFails, TypeOK
<1>3. TypeOK' /\ UploadInv' /\ LockInv' /\ ClearedInv' /\ SweepInv'
  BY <1>0, <1>1, <1>2 DEF TypeOK, UploadInv, LockInv, ClearedInv, SweepInv
<1>4. FinishInv' /\ EncInv' /\ PlanInv' /\ RowsNameBytes'
  BY <1>0 DEF FinishInv, EncInv, Deleting, PlanInv, RowsNameBytes
<1>5. EraseInv'
  <2>1. \A k \in Keys : k \in Present' => k \in Present
    BY <1>1 DEF Present
  <2>2. key \in Keys /\ "width" \in Keys /\ key' = key /\ overtaken' = overtaken
    BY <1>0 DEF TypeOK, Keys
  <2>3. CASE EraseFrame
    <3>1. erase' = "frame" /\ order' = order /\ proof' = proof /\ key \notin Present'
      BY <2>2, <2>3, DeletedKeys DEF EraseFrame, Present
    <3> QED
      BY <1>0, <2>1, <2>2, <3>1 DEF EraseInv
  <2>4. CASE EraseWidths
    <3>1. /\ erase = "frame" /\ erase' = "widths" /\ order' = order
          /\ order.width => "width" \notin Present'
      BY <2>2, <2>4, DeletedKeys DEF EraseWidths, Present
    <3> QED
      BY <1>0, <2>1, <2>2, <3>1 DEF EraseInv
  <2>5. CASE Certify
    <3>1. erase = "widths" /\ erase' = "idle" /\ order'.width = order.width
      BY <2>5 DEF Certify, TypeOK
    <3> QED
      BY <1>0, <1>2, <2>1, <2>2, <3>1 DEF EraseInv
  <2>6. CASE EraseFails
    BY <1>0, <2>1, <2>2, <2>6 DEF EraseFails, EraseInv
  <2> QED
    BY <2>3, <2>4, <2>5, <2>6 DEF Erase
<1> QED
  BY <1>3, <1>4, <1>5

(* The sweep removes what it asked for and nothing else.                    *)
LEMMA SweepStep ==
    ASSUME IndInv, Sweep
    PROVE  IndInv'
<1> USE DEF IndInv
<1>0. UNCHANGED <<crew, upload, key, file, stamp, expired, hold, uses, width, pc, cause, enc, lost,
                  overlap, overtaken, order, erase, proof>>
  BY DEF Sweep, SweepLists, SweepAsks, RemoveBlob, SweepEnds, uploading, row, locks, encoding,
         history, erasing
<1>1. CASE SweepLists \/ SweepAsks \/ SweepEnds
  <2>1. /\ objects' = objects /\ sweep' \in {"idle", "listed", "removing"}
        /\ doomed' \in SUBSET Keys
        /\ upload # "over" => doomed' = {}
    BY <1>1 DEF SweepLists, SweepAsks, SweepEnds, TypeOK, UploadInv
  <2>2. SweepInv'
    BY <1>0, <1>1 DEF SweepLists, SweepAsks, SweepEnds, SweepInv, Named
  <2> QED
    BY <1>0, <2>1, <2>2
       DEF TypeOK, UploadInv, LockInv, ClearedInv, FinishInv, EncInv, EraseInv, PlanInv,
           RowsNameBytes, Deleting, Present
<1>2. ASSUME NEW k \in Keys, RemoveBlob(k)
      PROVE  IndInv'
  <2>1. /\ sweep = "removing" /\ sweep' = sweep /\ k \in doomed /\ doomed' = doomed \ {k}
        /\ objects' = Deleted({k}) /\ upload = "over"
    BY <1>2 DEF RemoveBlob, UploadInv
  <2>2. /\ objects' \in [Keys -> {"absent", "fresh", "old"}]
        /\ \A j \in Keys \ {k} : objects'[j] = objects[j]
        /\ \A j \in Keys : objects'[j] = objects[j] \/ objects'[j] = "absent"
    BY <2>1, DeletedKeys
  <2>3. /\ file = "live" => k # key
        /\ width # "none" => k # "width"
    BY <2>1 DEF SweepInv
  <2>4. TypeOK' /\ UploadInv' /\ LockInv' /\ ClearedInv' /\ SweepInv'
    <3>1. TypeOK'
      BY <1>0, <2>1, <2>2 DEF TypeOK
    <3>2. UploadInv'
      BY <1>0, <2>1 DEF UploadInv
    <3>3. LockInv' /\ ClearedInv'
      BY <1>0 DEF LockInv, ClearedInv
    <3>4. SweepInv'
      BY <1>0, <2>1 DEF SweepInv
    <3> QED
      BY <3>1, <3>2, <3>3, <3>4
  <2>5. \A j \in Keys : j \in Present' <=> j \in Present /\ j # k
    BY <2>1, <2>2, DeletedKeys DEF Present
  <2>6. key \in Keys /\ "width" \in Keys /\ (width = "pending" \/ width = "ready" => k # "width")
    BY <2>3 DEF TypeOK, Keys
  <2>7. FinishInv' /\ EncInv'
    BY <1>0, <2>5, <2>6 DEF FinishInv, EncInv, Deleting
  <2>8. PlanInv'
    BY <1>0, <2>5, <2>6 DEF PlanInv
  <2>9. RowsNameBytes'
    BY <1>0, <2>3, <2>5, <2>6 DEF RowsNameBytes
  <2>10. EraseInv'
    BY <1>0, <2>5, <2>6 DEF EraseInv
  <2> QED
    BY <2>4, <2>7, <2>8, <2>9, <2>10
<1> QED
  BY <1>1, <1>2 DEF Sweep

(* Time takes nothing away but a hold.                                      *)
LEMMA ClockStep ==
    ASSUME IndInv, Clock
    PROVE  IndInv'
<1> USE DEF IndInv
<1>0. UNCHANGED <<crew, upload, key, file, uses, width, pc, cause, enc, lost, overlap, overtaken,
                  order, erase, proof, sweep, doomed>>
  BY DEF Clock, Ages, GraceEnds, ClassRunsOut, HoldRunsOut, uploading, row, locks, encoding,
         history, erasing, sweeping
<1>1. /\ stamp' \in {"none", "young", "old"} /\ expired' \in BOOLEAN /\ hold' \in BOOLEAN
      /\ hold' => hold
  <2>1. /\ stamp' = stamp \/ stamp' = "old"
        /\ expired' = expired \/ expired' = TRUE
        /\ hold' = hold \/ (hold' = FALSE /\ hold)
    BY DEF Clock, Ages, GraceEnds, ClassRunsOut, HoldRunsOut, row
  <2>2. stamp \in {"none", "young", "old"} /\ expired \in BOOLEAN /\ hold \in BOOLEAN
    BY DEF TypeOK
  <2>3. stamp' \in {"none", "young", "old"}
    BY <2>1, <2>2
  <2>4. expired' \in BOOLEAN
    BY <2>1, <2>2
  <2>5. hold' \in BOOLEAN /\ (hold' => hold)
    <3>1. CASE hold' = hold
      BY <2>2, <3>1, Zenon
    <3>2. CASE hold' = FALSE /\ hold
      BY <3>2
    <3> QED
      BY <2>1, <3>1, <3>2, Zenon
  <2> QED
    BY <2>3, <2>4, <2>5
<1> DEFINE Older ==
              /\ objects' \in [Keys -> {"absent", "fresh", "old"}]
              /\ \A k \in Keys : objects'[k] = "absent" <=> objects[k] = "absent"
              /\ upload # "over" => objects' = objects
<1>2. Older
  <2>1. CASE objects' = objects
    BY <2>1 DEF TypeOK
  <2>2. ASSUME NEW k \in Keys, Ages(k)
        PROVE  Older
    <3>1. /\ objects[k] = "fresh" /\ objects' = [objects EXCEPT ![k] = "old"]
          /\ k = "width" \/ upload \notin InFlight
      BY <2>2 DEF Ages
    <3>2. upload = "over"
      <4>1. upload \in {"idle", "over"} \cup InFlight
        BY DEF TypeOK
      <4> QED
        BY <3>1, <4>1 DEF UploadInv, Keys
    <3> QED
      BY <3>1, <3>2 DEF TypeOK
  <2> QED
    BY <2>1, <2>2 DEF Clock, GraceEnds, ClassRunsOut, HoldRunsOut
<1>3. TypeOK' /\ UploadInv' /\ LockInv' /\ ClearedInv' /\ SweepInv'
  BY <1>0, <1>1, <1>2 DEF TypeOK, UploadInv, LockInv, ClearedInv, SweepInv, Present
<1>4. FinishInv' /\ EncInv' /\ EraseInv' /\ PlanInv' /\ RowsNameBytes'
  BY <1>0, <1>2 DEF FinishInv, EncInv, Deleting, EraseInv, PlanInv, RowsNameBytes, Present
<1> QED
  BY <1>3, <1>4

(* Every step keeps the strengthened invariant.                             *)
LEMMA IndStep == IndInv /\ [Next]_vars => IndInv'
<1> SUFFICES ASSUME IndInv, [Next]_vars PROVE IndInv'
  OBVIOUS
<1>1. CASE UNCHANGED vars
  BY <1>1
     DEF IndInv, vars, TypeOK, UploadInv, LockInv, ClearedInv, FinishInv, EncInv, SweepInv,
         EraseInv, PlanInv, RowsNameBytes, Deleting, Present
<1>2. ASSUME NEW a \in Actors, Abandon(a)
      PROVE  IndInv'
  <2>1. cause' = cause /\ cause \in [Removers -> Asked \cup Batched \cup {None}]
    BY <1>2 DEF Abandon, IndInv, TypeOK
  <2> QED
    BY <1>2, <2>1, LockStep DEF Abandon
<1> QED
  BY <1>1, <1>2, UploadStep, RemoveStep, UseStep, HoldStep, EncodeStep, EraseStep, SweepStep,
     ClockStep DEF Next

(* The strengthened invariant holds in every reachable state.               *)
THEOREM Inductive == Spec => []IndInv
BY IndInit, IndStep, PTL DEF Spec

(* Type correctness, and with it: a width has a row only while its picture  *)
(* has one (removeWidths), and a work order means a removed row.            *)
THEOREM TypeCorrect == Spec => []TypeOK
<1>1. IndInv => TypeOK
  BY DEF IndInv
<1> QED
  BY <1>1, Inductive, PTL

(* A file's own bytes are in the store while its row is, whatever uploads,  *)
(* encodes, removals, erasures and orphan sweeps go on (storing before the  *)
(* rows commit, and Reconcile asking the rows before it removes); and so    *)
(* are a ready width's, unless two ticks were at that width together or the *)
(* COMMIT of a finish went unheard.                                         *)
THEOREM ServedBytesExist == Spec => []RowsNameBytes
<1>1. IndInv => RowsNameBytes
  BY DEF IndInv
<1> QED
  BY <1>1, Inductive, PTL

(* No removal commits over a live hold, nor a person's delete or the        *)
(* release sweep over a record that shows the image (Delete, Sweep.run and  *)
(* Unused.run under the row's lock).                                        *)
THEOREM RemovalsAreAllowed == Spec => RemovalAllowed
<1>1. IndInv /\ [Next]_vars =>
         [file = "live" /\ file' = "gone" =>
             /\ ~hold
             /\ order'.cause \in {"caller", "unused"} => uses = {}]_vars
  <2> SUFFICES ASSUME IndInv, Next, file = "live", file' = "gone"
               PROVE  /\ ~hold
                      /\ order'.cause \in {"caller", "unused"} => uses = {}
    OBVIOUS
  <2>1. PICK m \in Removers : RemoveCommits(m)
    BY DEF Next, Upload, UploadPut, UploadPassed, UploadCreates, UploadCommits, UploadFails,
           Remove, BatchReads, BatchLocks, RequestLocks, Removes, Use, NameLocks, NameCommits,
           EndLocks, EndCommits, Hold, HoldLocks, HoldCommits, Abandon,
           Encode, Look, Scale, Clear, PutWidth, PutFails, FinishLocks, FinishCommits, FinishFails,
           Undo, FailRow, EncodeStops, Erase, EraseFrame, EraseWidths, Certify, EraseFails,
           Sweep, SweepLists, SweepAsks, RemoveBlob, SweepEnds,
           Clock, Ages, GraceEnds, ClassRunsOut, HoldRunsOut, row
  <2>2. pc[m] = "deleting" /\ order'.cause = cause[m]
    BY <2>1 DEF RemoveCommits
  <2> QED
    BY <2>2 DEF IndInv, ClearedInv
<1> QED
  BY <1>1, Inductive, PTL DEF Spec, RemovalAllowed

(* What EraseBlobs certified is gone and stays gone: the file's own key is  *)
(* not stored again, and its width only by an encode that read the frame    *)
(* before and stored after (encodeOne's Put, the window ErasedWhole shows). *)
THEOREM VerifiedMeansGone == Spec => []ErasedUnlessOvertaken
<1>1. IndInv => ErasedUnlessOvertaken
  BY DEF IndInv, EraseInv, ErasedUnlessOvertaken
<1> QED
  BY <1>1, Inductive, PTL

=============================================================================
