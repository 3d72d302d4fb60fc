------------------------- MODULE MCActorStateManager -------------------------
(* Instances of the state manager: two names, one or two callers, values   *)
(* of the classes the code distinguishes.                                  *)
EXTENDS ActorStateManager, TLC

CONSTANTS n1, n2, c1, c2, s1, s2, num, zero

\* Without addState and tryAddState, whose existence test is inverted.
MCOpsButAdd == AllOps \ {"add"}

MCOpsAll == AllOps

\* One name per caller: calls outstanding together are on different names.
MCTouchesOwn == (c1 :> {n1}) @@ (c2 :> {n2})

MCTouchesAll == [c \in Callers |-> Names]

MCFactory == [v \in Values |-> IF v = s1 THEN s2 ELSE s1]
=============================================================================
