--------------------------- MODULE MCActorManager ---------------------------
(* Instances of the actor manager.                                         *)
EXTENDS ActorManager, TLC

CONSTANTS s1, s2, i1, i2, i3, i4, r1, r2, r3

MCFactory == [v \in Values |-> s1]

\* Objects and requests are interchangeable.
MCSymmetry == Permutations(Instances) \cup Permutations(Requests)
=============================================================================
