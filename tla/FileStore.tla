----------------------------- MODULE FileStore -----------------------------
(***************************************************************************)
(* One uploaded image, its bytes in the object store and the rows that name *)
(* them (modules/file).                                                     *)
(*                                                                         *)
(* Bytes and rows are never written in one transaction: an upload stores    *)
(* first and commits its rows after; a removal commits first and a          *)
(* subscription removes the bytes after; a job encodes the image at another *)
(* width with nothing open; and a sweep starts at the store and removes     *)
(* what no row names.                                                       *)
(*                                                                         *)
(* Keys are "raw" (what arrived), "frame" (what the image pass re-encoded)  *)
(* and "width" (the derived key of one planned width).  The lock on the     *)
(* file's row is read off the program counters of the transactions around   *)
(* it.  Quota is an outcome, other tenants, other apps' bytes and audiences *)
(* are not here.                                                            *)
(***************************************************************************)
EXTENDS FiniteSets, Naturals

CONSTANTS
    Removers,   \* transactions that may remove the row, one at a time each
    Records,    \* records that may show the image
    Keeper,     \* who places and releases the hold
    Ticks,      \* runs of the encode job, which may overlap
    Crews,      \* who may be at work in one behaviour
    None        \* no cause

ASSUME ActorsAssumption ==
    /\ Removers \cap Records = {}
    /\ Keeper \notin Removers \cup Records

ASSUME CrewAssumption ==
    Crews \subseteq SUBSET (Removers \cup Records \cup {Keeper} \cup Ticks)

VARIABLES
    crew,      \* who is at work in this behaviour, besides upload and sweep
    upload,    \* where the upload is
    key,       \* the key its row names or will name
    file,      \* the files row: "none", "live" or "gone"
    stamp,     \* unused_since: "none", "young" or "old" (past the grace)
    expired,   \* the file's retention class has run out
    hold,      \* a live hold is on the file
    uses,      \* file_uses: the records that show it
    width,     \* the file_variants row: "none", "pending", "ready", "failed"
    objects,   \* the store, per key: "absent", "fresh" or "old" (orphanAge)
    pc,        \* where each transaction on the row is
    cause,     \* why a remover removes
    enc,       \* where each tick of the encode job is
    order,     \* file.deleted: its state, its cause, whether it names a width
    erase,     \* where the delivery of that order is
    proof,     \* file_erasures: "none", "verified" or "unverified"
    sweep,     \* where the orphan sweep is
    doomed,    \* what it means to remove
    lost,      \* history: a COMMIT of the encode was carried out unheard
    overlap,   \* history: a tick took the width up while another was at it
    overtaken  \* history: the encode stored a width of a file that was gone

vars == <<crew, upload, key, file, stamp, expired, hold, uses, width, objects,
          pc, cause, enc, order, erase, proof, sweep, doomed, lost, overlap,
          overtaken>>
uploading == <<upload, key>>
row == <<file, stamp, expired, hold, uses>>
locks == <<pc, cause>>
history == <<lost, overlap, overtaken>>
encoding == <<enc, history>>
erasing == <<order, erase, proof>>
sweeping == <<sweep, doomed>>

Keys == {"raw", "frame", "width"}
Actors == Removers \cup Records \cup {Keeper}
Asked == {"caller", "subject"}       \* a person's delete, a subject's erasure
Batched == {"expired", "unused"}     \* the retention and the release sweep
NoOrder == [state |-> "none", cause |-> None, width |-> FALSE]

Init ==
    /\ crew \in Crews
    /\ upload = "idle"
    /\ key = "raw"
    /\ file = "none"
    /\ stamp = "none"
    /\ expired = FALSE
    /\ hold = FALSE
    /\ uses = {}
    /\ width = "none"
    /\ objects = [k \in Keys |-> "absent"]
    /\ pc = [a \in Actors |-> "idle"]
    /\ cause = [m \in Removers |-> None]
    /\ enc = [t \in Ticks |-> "idle"]
    /\ order = NoOrder
    /\ erase = "idle"
    /\ proof = "none"
    /\ sweep = "idle"
    /\ doomed = {}
    /\ lost = FALSE
    /\ overlap = FALSE
    /\ overtaken = FALSE

Present == {k \in Keys : objects[k] # "absent"}
Stored(k) == [objects EXCEPT ![k] = "fresh"]
Deleted(gone) == [k \in Keys |-> IF k \in gone THEN "absent" ELSE objects[k]]

(* A best-effort Delete, whose error is dropped.                            *)
Dropped(k, ok) == Deleted(IF ok THEN {k} ELSE {})

Goto(a, phase) == pc' = [pc EXCEPT ![a] = phase]
Moves(t, phase) == enc' = [enc EXCEPT ![t] = phase]

(* The lock on the width's row: a removal that deletes it, or a finish.     *)
Deleting == \E m \in Removers : pc[m] = "deleting"
Finishing == \E t \in Ticks : enc[t] = "finishing"

----------------------------------------------------------------------------
(* Upload: the bytes, the image pass, and only then a transaction.          *)

InFlight == {"received", "stored", "created"}

UploadPut ==
    /\ upload = "idle"
    /\ upload' = "received"
    /\ objects' = Stored("raw")
    /\ UNCHANGED <<crew, key, row, width, locks, encoding, erasing, sweeping>>

(* A file that is not read as an image is kept as it arrived; an image is   *)
(* stored again under a key of its own and what arrived is dropped.         *)
UploadPassed(image, ok) ==
    /\ upload = "received"
    /\ upload' = "stored"
    /\ key' = IF image THEN "frame" ELSE "raw"
    /\ objects' = IF image
                  THEN [Dropped("raw", ok) EXCEPT !["frame"] = "fresh"]
                  ELSE objects
    /\ UNCHANGED <<crew, row, width, locks, encoding, erasing, sweeping>>

(* The transaction opens, the quota is charged and the rows are written.    *)
UploadCreates ==
    /\ upload = "stored"
    /\ upload' = "created"
    /\ UNCHANGED <<crew, key, row, width, objects, locks, encoding, erasing,
                   sweeping>>

(* The row commits with the plan of its width.                              *)
UploadCommits ==
    /\ upload = "created"
    /\ upload' = "over"
    /\ file' = "live"
    /\ width' = IF key = "frame" THEN "pending" ELSE "none"
    /\ UNCHANGED <<crew, key, stamp, expired, hold, uses, objects, locks,
                   encoding, erasing, sweeping>>

(* A refusal on the way removes what was stored, if it can; a failed        *)
(* publish or COMMIT, or a death, removes nothing.                          *)
UploadFails(ok) ==
    /\ upload \in InFlight
    /\ upload' = "over"
    /\ objects' = Dropped(IF upload = "received" THEN "raw" ELSE key, ok)
    /\ UNCHANGED <<crew, key, row, width, locks, encoding, erasing, sweeping>>

----------------------------------------------------------------------------
(* Transactions on the file's row.                                          *)

Exclusive == {a \in Actors : pc[a] \in {"locked", "deleting", "ending",
                                        "keeping"}}
Sharing == {a \in Actors : pc[a] = "naming"}

(* FOR UPDATE is to be had, and FOR KEY SHARE.                              *)
CanLock == file = "live" /\ Exclusive = {} /\ Sharing = {}
CanShare == file = "live" /\ Exclusive = {}

Measured == key = "frame"

(* What a sweep's query asks of a file: its own columns, and the holds and  *)
(* uses of its snapshot.                                                    *)
Columns(c) == IF c = "expired" THEN expired ELSE Measured /\ stamp = "old"
Covered(c) == Columns(c) /\ ~hold /\ (c = "unused" => uses = {})

(* Sweep.run and Unused.run: the query's snapshot ...                       *)
BatchReads(m, c) ==
    /\ pc[m] = "idle"
    /\ file = "live"
    /\ Covered(c)
    /\ Goto(m, "read")
    /\ cause' = [cause EXCEPT ![m] = c]
    /\ UNCHANGED <<crew, uploading, row, width, objects, encoding, erasing,
                   sweeping>>

(* ... and its FOR UPDATE SKIP LOCKED, which asks a row that changed again  *)
(* for its own columns and for nothing else.                                *)
BatchLocks(m) ==
    /\ pc[m] = "read"
    /\ Goto(m, IF CanLock /\ Columns(cause[m]) THEN "locked" ELSE "idle")
    /\ UNCHANGED <<crew, uploading, row, width, objects, cause, encoding,
                   erasing, sweeping>>

(* Delete and EraseSubject wait for the row's lock.                         *)
RequestLocks(m, c) ==
    /\ pc[m] = "idle"
    /\ CanLock
    /\ Goto(m, "locked")
    /\ cause' = [cause EXCEPT ![m] = c]
    /\ UNCHANGED <<crew, uploading, row, width, objects, encoding, erasing,
                   sweeping>>

(* What a removal asks again under the lock: a live hold refuses it; a      *)
(* record that shows the image refuses a person and the release sweep.      *)
Allowed(c) ==
    /\ ~hold
    /\ c \in {"caller", "unused"} => uses = {}
    /\ c = "unused" => stamp = "old"

(* The row and its widths are deleted, behind an encode that is finishing.  *)
Removes(m) ==
    /\ pc[m] = "locked"
    /\ \/ ~Allowed(cause[m]) /\ Goto(m, "idle")
       \/ Allowed(cause[m]) /\ ~Finishing /\ Goto(m, "deleting")
    /\ UNCHANGED <<crew, uploading, row, width, objects, cause, encoding,
                   erasing, sweeping>>

(* Mutant: the widths' rows are left where they are.                        *)
RemoveCommitsRowOnly(m) ==
    /\ pc[m] = "deleting"
    /\ Goto(m, "idle")
    /\ file' = "gone"
    /\ stamp' = "none"
    /\ order' = [state |-> "due", cause |-> cause[m], width |-> FALSE]
    /\ UNCHANGED <<crew, uploading, expired, hold, uses, width, objects, cause,
                   encoding, erase, proof, sweeping>>

(* The COMMIT, with the work order that names every key.                    *)
RemoveCommits(m) ==
    /\ pc[m] = "deleting"
    /\ Goto(m, "idle")
    /\ file' = "gone"
    /\ stamp' = "none"
    /\ width' = "none"
    /\ order' = [state |-> "due", cause |-> cause[m], width |-> width # "none"]
    /\ UNCHANGED <<crew, uploading, expired, hold, uses, objects, cause,
                   encoding, erase, proof, sweeping>>

(* Mutant: a use is filed without the lock on its file.                     *)
NameLocksNothing(r) ==
    /\ pc[r] = "idle"
    /\ r \notin uses
    /\ file = "live"
    /\ Goto(r, "naming")
    /\ UNCHANGED <<crew, uploading, row, width, objects, cause, encoding,
                   erasing, sweeping>>

(* setUses of a record that begins to show the image: FOR KEY SHARE.        *)
NameLocks(r) ==
    /\ pc[r] = "idle"
    /\ r \notin uses
    /\ CanShare
    /\ Goto(r, "naming")
    /\ UNCHANGED <<crew, uploading, row, width, objects, cause, encoding,
                   erasing, sweeping>>

(* ... and the use, which ends the grace period.                            *)
NameCommits(r) ==
    /\ pc[r] = "naming"
    /\ Goto(r, "idle")
    /\ uses' = uses \cup {r}
    /\ stamp' = "none"
    /\ UNCHANGED <<crew, uploading, file, expired, hold, width, objects, cause,
                   encoding, erasing, sweeping>>

(* setUses of a record that stops: FOR UPDATE, for a file that is there.    *)
EndLocks(r) ==
    /\ pc[r] = "idle"
    /\ r \in uses
    /\ CanLock \/ file = "gone"
    /\ Goto(r, "ending")
    /\ UNCHANGED <<crew, uploading, row, width, objects, cause, encoding,
                   erasing, sweeping>>

(* ... and the last use of an image starts the grace period.                *)
EndCommits(r) ==
    /\ pc[r] = "ending"
    /\ Goto(r, "idle")
    /\ uses' = uses \ {r}
    /\ stamp' = IF uses' = {} /\ file = "live" /\ Measured THEN "young"
                ELSE stamp
    /\ UNCHANGED <<crew, uploading, file, expired, hold, width, objects, cause,
                   encoding, erasing, sweeping>>

(* Retain and Release, under the file's lock.                               *)
HoldLocks ==
    /\ Keeper \in crew
    /\ pc[Keeper] = "idle"
    /\ CanLock
    /\ Goto(Keeper, "keeping")
    /\ UNCHANGED <<crew, uploading, row, width, objects, cause, encoding,
                   erasing, sweeping>>

HoldCommits(placed) ==
    /\ pc[Keeper] = "keeping"
    /\ Goto(Keeper, "idle")
    /\ hold' = placed
    /\ UNCHANGED <<crew, uploading, file, stamp, expired, uses, width, objects,
                   cause, encoding, erasing, sweeping>>

(* Any of them fails or dies: nothing is written, the lock is let go.       *)
Abandon(a) ==
    /\ pc[a] # "idle"
    /\ Goto(a, "idle")
    /\ UNCHANGED <<crew, uploading, row, width, objects, cause, encoding,
                   erasing, sweeping>>

----------------------------------------------------------------------------
(* The encode job, nothing open between its steps.  The scheduler starts one *)
(* tick at a time under a lock of its session, and a tick whose session is  *)
(* lost goes on beside the next: "two ticks that overlap" (claim).          *)

(* look: the row is pending and its picture is there.                       *)
Look(t) ==
    /\ enc[t] = "idle"
    /\ width = "pending"
    /\ Moves(t, "looked")
    /\ overlap' = (overlap \/ \E o \in Ticks : enc[o] # "idle")
    /\ UNCHANGED <<crew, uploading, row, width, objects, locks, lost, overtaken,
                   erasing, sweeping>>

(* scale reads the frame, which is a verdict when no decoder does; a frame  *)
(* that cannot be read now leaves the row pending (EncodeStops).            *)
Scale(t, decodes) ==
    /\ enc[t] = "looked"
    /\ key \in Present
    /\ Moves(t, IF decodes THEN "scaled" ELSE "failing")
    /\ UNCHANGED <<crew, uploading, row, width, objects, locks, history,
                   erasing, sweeping>>

(* The derived key is cleared ...                                           *)
Clear(t) ==
    /\ enc[t] = "scaled"
    /\ Moves(t, "cleared")
    /\ objects' = Deleted({"width"})
    /\ UNCHANGED <<crew, uploading, row, width, locks, history, erasing,
                   sweeping>>

(* ... and written again, which a store refuses over bytes that are there.  *)
PutWidth(t) ==
    /\ enc[t] = "cleared"
    /\ "width" \notin Present
    /\ Moves(t, "written")
    /\ objects' = Stored("width")
    /\ overtaken' = (overtaken \/ file # "live")
    /\ UNCHANGED <<crew, uploading, row, width, locks, lost, overlap, erasing,
                   sweeping>>

(* Put takes back what it could not finish writing, whoever wrote it.       *)
PutFails(t) ==
    /\ enc[t] = "cleared"
    /\ Moves(t, "idle")
    /\ objects' = Deleted({"width"})
    /\ UNCHANGED <<crew, uploading, row, width, locks, history, erasing,
                   sweeping>>

(* finish takes the width row's lock, behind a removal or a finish that has *)
(* it; a row that is gone or decided is not an error.                       *)
FinishLocks(t) ==
    /\ enc[t] = "written"
    /\ ~Deleting /\ ~Finishing
    /\ Moves(t, IF width = "pending" THEN "finishing" ELSE "idle")
    /\ UNCHANGED <<crew, uploading, row, width, objects, locks, history,
                   erasing, sweeping>>

(* The row is ready; unheard, encodeOne takes it for an error.              *)
FinishCommits(t, heard) ==
    /\ enc[t] = "finishing"
    /\ width' = "ready"
    /\ Moves(t, IF heard THEN "idle" ELSE "undoing")
    /\ lost' = (lost \/ ~heard)
    /\ UNCHANGED <<crew, uploading, row, objects, locks, overlap, overtaken,
                   erasing, sweeping>>

(* Rolled back: any failure of the transaction before it has the row, and   *)
(* then also no room.                                                       *)
FinishFails(t, quota) ==
    /\ enc[t] \in {"written", "finishing"}
    /\ quota => enc[t] = "finishing"
    /\ Moves(t, IF quota THEN "refused" ELSE "undoing")
    /\ UNCHANGED <<crew, uploading, row, width, objects, locks, history,
                   erasing, sweeping>>

(* encodeOne takes the bytes back after an error of finish, if it can.      *)
Undo(t, ok) ==
    /\ enc[t] \in {"undoing", "refused"}
    /\ Moves(t, IF enc[t] = "refused" THEN "failing" ELSE "idle")
    /\ objects' = Dropped("width", ok)
    /\ UNCHANGED <<crew, uploading, row, width, locks, history, erasing,
                   sweeping>>

(* fail: a row that is still pending is left failed.                        *)
FailRow(t) ==
    /\ enc[t] = "failing"
    /\ ~Deleting /\ ~Finishing
    /\ Moves(t, "idle")
    /\ width' = IF width = "pending" THEN "failed" ELSE width
    /\ UNCHANGED <<crew, uploading, row, objects, locks, history, erasing,
                   sweeping>>

(* A store that does not answer or refuses the Put, or the job's death.      *)
EncodeStops(t) ==
    /\ enc[t] # "idle"
    /\ Moves(t, "idle")
    /\ UNCHANGED <<crew, uploading, row, width, objects, locks, history,
                   erasing, sweeping>>

----------------------------------------------------------------------------
(* EraseBlobs: the delivery of the work order.                              *)

EraseFrame ==
    /\ order.state = "due"
    /\ erase = "idle"
    /\ erase' = "frame"
    /\ objects' = Deleted({key})
    /\ UNCHANGED <<crew, uploading, row, width, locks, encoding, order, proof,
                   sweeping>>

EraseWidths ==
    /\ erase = "frame"
    /\ erase' = "widths"
    /\ objects' = Deleted(IF order.width THEN {"width"} ELSE {})
    /\ UNCHANGED <<crew, uploading, row, width, locks, encoding, order, proof,
                   sweeping>>

(* Prove asks after the file's own key; the proof commits with the claim.   *)
Certify ==
    /\ erase = "widths"
    /\ erase' = "idle"
    /\ order' = [order EXCEPT !.state = "done"]
    /\ proof' = IF key \in Present THEN "unverified" ELSE "verified"
    /\ UNCHANGED <<crew, uploading, row, width, objects, locks, encoding,
                   sweeping>>

(* An error rolls the delivery back; the next one starts over.              *)
EraseFails ==
    /\ erase # "idle"
    /\ erase' = "idle"
    /\ UNCHANGED <<crew, uploading, row, width, objects, locks, encoding, order,
                   proof, sweeping>>

----------------------------------------------------------------------------
(* Reconcile: the sweep that starts at the store.                           *)

SweepLists ==
    /\ sweep = "idle"
    /\ sweep' = "listed"
    /\ doomed' = {k \in Keys : objects[k] = "old"}
    /\ UNCHANGED <<crew, uploading, row, width, objects, locks, encoding,
                   erasing>>

(* Mutant: only files rows are asked, and a width has none.                 *)
NamedByFiles == IF file = "live" THEN {key} ELSE {}

(* knownKeys: the keys a row of either table names.                         *)
Named ==
    (IF file = "live" THEN {key} ELSE {}) \cup
    (IF width # "none" THEN {"width"} ELSE {})

(* Mutant: a file that was removed goes on naming its key.                  *)
SweepAsksEver ==
    /\ sweep = "listed"
    /\ sweep' = "removing"
    /\ doomed' = doomed \ (Named \cup IF file # "none" THEN {key} ELSE {})
    /\ UNCHANGED <<crew, uploading, row, width, objects, locks, encoding,
                   erasing>>

SweepAsks ==
    /\ sweep = "listed"
    /\ sweep' = "removing"
    /\ doomed' = doomed \ Named
    /\ UNCHANGED <<crew, uploading, row, width, objects, locks, encoding,
                   erasing>>

RemoveBlob(k) ==
    /\ sweep = "removing"
    /\ k \in doomed
    /\ objects' = Deleted({k})
    /\ doomed' = doomed \ {k}
    /\ UNCHANGED <<crew, uploading, row, width, locks, encoding, erasing,
                   sweep>>

(* Done, or stopped by an error; the next day's sweep lists again.          *)
SweepEnds ==
    /\ sweep = "removing"
    /\ sweep' = "idle"
    /\ doomed' = {}
    /\ UNCHANGED <<crew, uploading, row, width, objects, locks, encoding,
                   erasing>>

----------------------------------------------------------------------------
(* The clock.                                                               *)

(* Bytes pass orphanAge.  An upload commits or ends before its own do.      *)
Ages(k) ==
    /\ objects[k] = "fresh"
    /\ k = "width" \/ upload \notin InFlight
    /\ objects' = [objects EXCEPT ![k] = "old"]
    /\ UNCHANGED <<crew, uploading, row, width, locks, encoding, erasing,
                   sweeping>>

GraceEnds ==
    /\ stamp = "young"
    /\ stamp' = "old"
    /\ UNCHANGED <<crew, uploading, file, expired, hold, uses, width, objects,
                   locks, encoding, erasing, sweeping>>

ClassRunsOut ==
    /\ file = "live"
    /\ ~expired
    /\ expired' = TRUE
    /\ UNCHANGED <<crew, uploading, file, stamp, hold, uses, width, objects,
                   locks, encoding, erasing, sweeping>>

HoldRunsOut ==
    /\ hold
    /\ hold' = FALSE
    /\ UNCHANGED <<crew, uploading, file, stamp, expired, uses, width, objects,
                   locks, encoding, erasing, sweeping>>

----------------------------------------------------------------------------

Upload ==
    \/ UploadPut
    \/ \E image, ok \in BOOLEAN : UploadPassed(image, ok)
    \/ UploadCreates
    \/ UploadCommits
    \/ \E ok \in BOOLEAN : UploadFails(ok)

Remove(m) ==
    \/ \E c \in Batched : BatchReads(m, c)
    \/ BatchLocks(m)
    \/ \E c \in Asked : RequestLocks(m, c)
    \/ Removes(m)
    \/ RemoveCommits(m)

Use(r) == NameLocks(r) \/ NameCommits(r) \/ EndLocks(r) \/ EndCommits(r)

Hold == HoldLocks \/ \E placed \in BOOLEAN : HoldCommits(placed)

Encode(t) ==
    \/ Look(t)
    \/ \E decodes \in BOOLEAN : Scale(t, decodes)
    \/ Clear(t)
    \/ PutWidth(t)
    \/ PutFails(t)
    \/ FinishLocks(t)
    \/ \E heard \in BOOLEAN : FinishCommits(t, heard)
    \/ \E quota \in BOOLEAN : FinishFails(t, quota)
    \/ \E ok \in BOOLEAN : Undo(t, ok)
    \/ FailRow(t)
    \/ EncodeStops(t)

Erase == EraseFrame \/ EraseWidths \/ Certify \/ EraseFails

Sweep ==
    \/ SweepLists
    \/ SweepAsks
    \/ \E k \in Keys : RemoveBlob(k)
    \/ SweepEnds

Clock == (\E k \in Keys : Ages(k)) \/ GraceEnds \/ ClassRunsOut \/ HoldRunsOut

Next ==
    \/ Upload
    \/ \E m \in Removers \cap crew : Remove(m)
    \/ \E r \in Records \cap crew : Use(r)
    \/ Hold
    \/ \E a \in Actors : Abandon(a)
    \/ \E t \in Ticks \cap crew : Encode(t)
    \/ Erase
    \/ Sweep
    \/ Clock

Spec == Init /\ [][Next]_vars

(* An upload ends, bytes age, and the sweep runs every day; each of its     *)
(* removals may fail any day and does not fail every day.                   *)
Fairness ==
    /\ WF_vars(Upload)
    /\ WF_vars(SweepLists \/ SweepAsks \/ SweepEnds)
    /\ SF_vars(\E k \in Keys : RemoveBlob(k))
    /\ \A k \in Keys : WF_vars(Ages(k))

FairSpec == Spec /\ Fairness

----------------------------------------------------------------------------
(* Properties.                                                              *)

(* The shape of rows, store and programs; a width has a row only while its  *)
(* picture has one (removeWidths), and an order means a removed row.        *)
TypeOK ==
    /\ crew \in Crews
    /\ upload \in {"idle", "over"} \cup InFlight
    /\ key \in {"raw", "frame"}
    /\ file \in {"none", "live", "gone"}
    /\ stamp \in {"none", "young", "old"}
    /\ expired \in BOOLEAN
    /\ hold \in BOOLEAN
    /\ uses \in SUBSET Records
    /\ width \in {"none", "pending", "ready", "failed"}
    /\ objects \in [Keys -> {"absent", "fresh", "old"}]
    /\ pc \in [Actors -> {"idle", "read", "locked", "deleting", "naming",
                          "ending", "keeping"}]
    /\ cause \in [Removers -> Asked \cup Batched \cup {None}]
    /\ enc \in [Ticks -> {"idle", "looked", "scaled", "cleared", "written",
                          "finishing", "undoing", "refused", "failing"}]
    /\ order \in [state : {"none", "due", "done"},
                  cause : Asked \cup Batched \cup {None}, width : BOOLEAN]
    /\ erase \in {"idle", "frame", "widths"}
    /\ proof \in {"none", "verified", "unverified"}
    /\ sweep \in {"idle", "listed", "removing"}
    /\ doomed \in SUBSET Keys
    /\ lost \in BOOLEAN
    /\ overlap \in BOOLEAN
    /\ overtaken \in BOOLEAN
    /\ width # "none" => file = "live"
    /\ order.state # "none" => file = "gone"

(* The order of writes is chosen against "a row whose download fails        *)
(* forever" (Reconcile): while a row says that bytes can be served, they    *)
(* are in the store.  Of the file's own bytes this holds whatever uploads,  *)
(* encodes, removals, sweeps and retries go on; of a width's, as long as no *)
(* two ticks were at it together and every COMMIT of a finish was heard.    *)
RowsNameBytes ==
    /\ file = "live" => key \in Present
    /\ width = "ready" /\ ~lost /\ ~overlap => "width" \in Present

(* A removal is refused by a live hold, and a person's delete or the        *)
(* release sweep by a record that shows the image ("this lock is what makes *)
(* `nothing shows it` a fact", Delete), however they interleave with the    *)
(* transactions that place holds and file uses.                             *)
RemovalAllowed ==
    [][file = "live" /\ file' = "gone" =>
          /\ ~hold
          /\ order'.cause \in {"caller", "unused"} => uses = {}]_vars

(* "An upload's abandoned bytes", the re-encoded original, and a width      *)
(* written after its picture went are swept up in the end: from some point  *)
(* on every object in the store is named by a row (Reconcile).              *)
OrphansGo == <>[](Present \subseteq Named)

(* What EraseBlobs certified is gone and stays gone, the file's own bytes   *)
(* always and its width unless an encode stored it after the file went: that *)
(* is the only way to the one ErasedWhole refutes.                          *)
ErasedUnlessOvertaken ==
    proof # "none" => /\ key \notin Present
                      /\ "width" \in Present => overtaken

(* "A file is never certified erased with a width still sitting in the      *)
(* bucket beside it" (EraseBlobs).                                          *)
ErasedWhole == proof # "none" => Present \cap {key, "width"} = {}

=============================================================================
