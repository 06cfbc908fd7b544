----------------------------- MODULE MCDelivery -----------------------------
(* Delivery on small deployments.                                            *)
EXTENDS Delivery, TLC

CONSTANTS w1, w2

(* Two replicas whose handler defers nothing; one whose handler defers.     *)
SoundDeployments == {[workers |-> {w1, w2}, defers |-> 0],
                     [workers |-> {w1}, defers |-> MaxEffects]}

(* Two replicas whose handler defers.                                       *)
DeferringDeployments == {[workers |-> {w1, w2}, defers |-> MaxEffects]}

WorkerSymmetry == Permutations(Workers)

=============================================================================
