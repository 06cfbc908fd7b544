---------------------------- MODULE KeyedWrite -----------------------------
(***************************************************************************)
(* What an Idempotency-Key promises whoever sends requests under it: one of *)
(* them owns the key at a time, it passes on only after a lease and only    *)
(* while nothing is written or answered, at most one of them writes, its    *)
(* answer says so, and nothing of this is forgotten before a retention has  *)
(* passed since the key was last taken.                                     *)
(*                                                                          *)
(* kit/idempotency (retry record, effect fence and receipt) and kit/httpx   *)
(* implement this through crashes, lost acknowledgements and late attempts; *)
(* see Idempotency.                                                         *)
(***************************************************************************)
EXTENDS Naturals

CONSTANTS Attempts, None, Lease, Retention

VARIABLES
    tracked,   \* whether a request has a receipt, and always a transaction
    now,
    owner,     \* who may write under the key, or None
    since,     \* when the key was last taken
    written,   \* whose writes were committed since the key was taken afresh
    answer     \* what a retry is told of the request: "", "ok" or "failed"

kvars == <<tracked, now, owner, since, written, answer>>

KeyedInit ==
    /\ tracked \in BOOLEAN /\ now = 0
    /\ owner = None /\ since = 0 /\ written = {} /\ answer = ""

Kept == owner # None /\ now < since + Retention
Unsettled == written = {} /\ answer = ""

(* The key is free, forgotten by now, or passes on from an owner whose      *)
(* lease is over and of whom there is nothing to tell.                      *)
Take(a) ==
    /\ Kept => Unsettled /\ now >= since + Lease
    /\ owner' = a /\ since' = now
    /\ written' = {} /\ answer' = ""
    /\ UNCHANGED <<tracked, now>>

(* The owner's write commits, once, and while the key is kept.              *)
Write ==
    /\ Kept /\ Unsettled
    /\ written' = {owner}
    /\ UNCHANGED <<tracked, now, owner, since, answer>>

(* What was answered is what a retry is told: a failure stands over no      *)
(* write, and a tracked success over one.                                   *)
Land(result) ==
    /\ Kept /\ answer = ""
    /\ result = "failed" => written = {}
    /\ result = "ok" /\ tracked => written = {owner}
    /\ answer' = result
    /\ UNCHANGED <<tracked, now, owner, since, written>>

Forget ==
    /\ owner # None /\ ~Kept
    /\ owner' = None /\ since' = 0 /\ answer' = ""
    /\ UNCHANGED <<tracked, now, written>>

Pass == now' = now + 1 /\ UNCHANGED <<tracked, owner, since, written, answer>>

KeyedNext ==
    \/ \E a \in Attempts : Take(a)
    \/ Write \/ Land("ok") \/ Land("failed") \/ Forget \/ Pass

KeyedSpec == KeyedInit /\ [][KeyedNext]_kvars

=============================================================================
