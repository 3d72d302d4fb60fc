--------------------------- MODULE ActorStateCache ---------------------------
(***************************************************************************)
(* What the state manager of an actor promises to the code of a turn: a    *)
(* map that was committed, under an overlay of changes that are not yet.   *)
(* Reads see the overlay, a commit applies all of it at once and a discard *)
(* forgets it.  Nothing here knows of change kinds, caching or requests.   *)
(***************************************************************************)
CONSTANTS Names, Values, Missing, Callers, Args, Factory

VARIABLES
    committed,    \* the value of each name, or Missing
    pending,      \* the change of each name: a value, "removed", "unchanged"
    answer        \* what the last operation of each caller answered

vars == <<committed, pending, answer>>

Init ==
    /\ committed \in [Names -> Args \cup {Missing}]
    /\ pending = [n \in Names |-> "unchanged"]
    /\ answer = [c \in Callers |-> "none"]

Overlaid(n) ==
    CASE pending[n] = "unchanged" -> committed[n]
      [] pending[n] = "removed"   -> Missing
      [] OTHER                    -> pending[n]

Present(n) == Overlaid(n) # Missing

Answer(c, a) == answer' = [answer EXCEPT ![c] = a]

Change(n, p) == pending' = [pending EXCEPT ![n] = p] /\ UNCHANGED committed

Keep == UNCHANGED <<committed, pending>>

Get(c, n) == Keep /\ Answer(c, IF Present(n) THEN Overlaid(n) ELSE "no")

Contains(c, n) == Keep /\ Answer(c, IF Present(n) THEN "yes" ELSE "no")

Set(c, n, v) == Change(n, v) /\ Answer(c, "yes")

Remove(c, n) ==
    \/ /\ Present(n)
       /\ Change(n, IF committed[n] = Missing THEN "unchanged" ELSE "removed")
       /\ Answer(c, "yes")
    \/ ~Present(n) /\ Keep /\ Answer(c, "no")

GetOrAdd(c, n, v) ==
    \/ Present(n) /\ Keep /\ Answer(c, Overlaid(n))
    \/ ~Present(n) /\ Change(n, v) /\ Answer(c, v)

AddOrUpdate(c, n, v) ==
    LET new == IF Present(n) THEN Factory[Overlaid(n)] ELSE v
    IN  Change(n, new) /\ Answer(c, new)

Commit ==
    /\ committed' = [n \in Names |-> Overlaid(n)]
    /\ pending' = [n \in Names |-> "unchanged"]
    /\ UNCHANGED answer

\* A save answers after its commit, or at once when there is none to make.
Saved(c) == Keep /\ Answer(c, "yes") /\ \A n \in Names : pending[n] = "unchanged"

Discard(c) ==
    /\ pending' = [n \in Names |-> "unchanged"]
    /\ Answer(c, "yes")
    /\ UNCHANGED committed

\* A call that fails leaves the overlay as it was.
Fail(c) == Keep /\ Answer(c, "failed")

Next ==
    \/ Commit
    \/ \E c \in Callers : Saved(c) \/ Discard(c) \/ Fail(c)
    \/ \E c \in Callers, n \in Names :
          Get(c, n) \/ Contains(c, n) \/ Remove(c, n)
    \/ \E c \in Callers, n \in Names, v \in Args :
          Set(c, n, v) \/ GetOrAdd(c, n, v) \/ AddOrUpdate(c, n, v)

Spec == Init /\ [][Next]_vars
=============================================================================
