----------------------------- MODULE EventFate -----------------------------
(***************************************************************************)
(* What the outbox promises a subscription about one event: it is due, and  *)
(* from there it is handled once or recorded as a terminal failure, and it  *)
(* stays there until an operator orders another run.                        *)
(*                                                                         *)
(* kit/events (relay, claim ledger, dead letters and replay, over an        *)
(* at-least-once transport) implements this; see Delivery.                  *)
(***************************************************************************)
EXTENDS Naturals

CONSTANT MaxOrders   \* bound on the operator's replays

VARIABLES
    fate,     \* "due", "done" (handled) or "dead" (in the dead letters)
    orders    \* how many times an operator ordered another run

fvars == <<fate, orders>>

FateInit == fate = "due" /\ orders = 0

(* A handler transaction committed and everything it deferred came back.    *)
Handle ==
    /\ fate = "due"
    /\ fate' = "done"
    /\ UNCHANGED orders

(* The attempts are exhausted and the failure is on record.                 *)
Bury ==
    /\ fate = "due"
    /\ fate' = "dead"
    /\ UNCHANGED orders

(* An operator clears the claim and the dead letter.                        *)
Reorder ==
    /\ orders < MaxOrders
    /\ fate' = "due"
    /\ orders' = orders + 1

FateNext == Handle \/ Bury \/ Reorder

FateSpec == FateInit /\ [][FateNext]_fvars /\ WF_fvars(Handle \/ Bury)

=============================================================================
