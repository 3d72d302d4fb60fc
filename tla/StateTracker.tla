---------------------------- MODULE StateTracker ----------------------------
(***************************************************************************)
(* The change tracker of an actor's state manager, as values and operators *)
(* without state: what one entry of defaultStateChangeTracker holds, what  *)
(* each operation of ActorStateManager makes of the entry it finds (a hit) *)
(* or of the answer of the sidecar (a miss), and what saveState sends.     *)
(*                                                                         *)
(* The code tells values apart only by the two tests of StateProvider, so  *)
(* a value belongs to one of three classes:                                *)
(*   Sized    has a positive length      (non-empty strings and arrays)    *)
(*   Unsized  is truthy without a length (numbers, true, objects)          *)
(*   Blank    is falsy or has length 0   (0, false, "", null, [])          *)
(***************************************************************************)
CONSTANTS
    Names,      \* the names of states
    Sized, Unsized, Blank,
    Null,       \* the value a REMOVE entry carries as a placeholder
    Missing,    \* what the sidecar answers for a name it does not hold
    Factory     \* the updateValueFactory callers pass to addOrUpdateState

Values == Sized \cup Unsized \cup Blank

ASSUME ValueAssumption ==
    /\ Null \in Blank
    /\ Missing \notin Values
    /\ Sized \cap Unsized = {}
    /\ Sized \cap Blank = {}
    /\ Unsized \cap Blank = {}

ASSUME FactoryAssumption == Factory \in [Values -> Values]

\* "UNTRACKED" stands for a name the Map has no entry for.
Kinds == {"UNTRACKED", "NONE", "ADD", "UPDATE", "REMOVE"}

Pending == {"ADD", "UPDATE", "REMOVE"}

Entries == [value : Values, kind : Kinds]

Trackers == [Names -> Entries]

Stores == [Names -> Values \cup {Missing}]

Entry(v, k) == [value |-> v, kind |-> k]

Untracked == Entry(Null, "UNTRACKED")

EmptyTracker == [n \in Names |-> Untracked]

Has(t, n) == t[n].kind # "UNTRACKED"

-----------------------------------------------------------------------------
(* StateProvider: how a raw answer of the sidecar is classified.           *)

ContainsState(raw) == raw \in Sized

TryLoadState(raw) == raw \in Sized \cup Unsized

-----------------------------------------------------------------------------
(* What an operation makes of the entry of its name, and what it answers.  *)
(* The answer of a failed or empty lookup is "no"; addState, getState and  *)
(* removeState turn it into an exception and change nothing more.          *)

Outcome(e, a) == [entry |-> e, answer |-> a]

TryAddHit(e, v) ==
    IF e.kind = "REMOVE" THEN Outcome(Entry(v, "UPDATE"), "yes")
                         ELSE Outcome(e, "no")

TryAddMiss(e, raw, v) ==
    IF ~ContainsState(raw) THEN Outcome(e, "no")
                           ELSE Outcome(Entry(v, "ADD"), "yes")

\* Mutant: a removed name is read from its entry.
TryGetHitRemoved(e) == Outcome(e, e.value)

TryGetHit(e) == Outcome(e, IF e.kind = "REMOVE" THEN "no" ELSE e.value)

\* Mutant: the answer is cached without looking at hasValue.
TryGetMissUnchecked(e, raw) == Outcome(Entry(raw, "NONE"), raw)

TryGetMiss(e, raw) ==
    IF TryLoadState(raw) THEN Outcome(Entry(raw, "NONE"), raw)
                         ELSE Outcome(e, "no")

\* Mutant: an unmodified entry takes the value and is not marked.
SetHitUnmarked(e, v) ==
    Outcome(Entry(v, IF e.kind = "REMOVE" THEN "UPDATE" ELSE e.kind), "yes")

\* Mutant: the entry is marked and keeps its value.
SetHitValueKept(e, v) ==
    Outcome(Entry(e.value, IF e.kind \in {"NONE", "REMOVE"} THEN "UPDATE" ELSE e.kind), "yes")

SetHit(e, v) ==
    Outcome(Entry(v, IF e.kind \in {"NONE", "REMOVE"} THEN "UPDATE" ELSE e.kind), "yes")

\* Mutant: the sidecar is asked and its answer ignored.
SetMissAlwaysAdd(raw, v) == Outcome(Entry(v, "ADD"), "yes")

SetMiss(raw, v) ==
    Outcome(Entry(v, IF ContainsState(raw) THEN "UPDATE" ELSE "ADD"), "yes")

TryRemoveHit(e) ==
    CASE e.kind = "REMOVE" -> Outcome(e, "no")
      [] e.kind = "ADD"    -> Outcome(Untracked, "yes")
      [] OTHER             -> Outcome(Entry(e.value, "REMOVE"), "yes")

TryRemoveMiss(e, raw) ==
    IF ContainsState(raw) THEN Outcome(Entry(Null, "REMOVE"), "yes")
                          ELSE Outcome(e, "no")

ContainsHit(e) == Outcome(e, IF e.kind # "REMOVE" THEN "yes" ELSE "no")

ContainsMiss(e, raw) == Outcome(e, IF ContainsState(raw) THEN "yes" ELSE "no")

AddOrUpdateHit(e, v) ==
    IF e.kind = "REMOVE"
    THEN Outcome(Entry(v, "UPDATE"), v)
    ELSE Outcome(Entry(Factory[e.value], IF e.kind = "NONE" THEN "UPDATE" ELSE e.kind),
                 Factory[e.value])

AddOrUpdateMiss(raw, v) ==
    IF TryLoadState(raw) THEN Outcome(Entry(Factory[raw], "UPDATE"), Factory[raw])
                         ELSE Outcome(Entry(v, "ADD"), v)

\* The kind getOrAddState gives the value it adds.
AddedKind(e) == IF e.kind = "REMOVE" THEN "UPDATE" ELSE "ADD"

-----------------------------------------------------------------------------
(* saveState and the transaction it sends.                                 *)

Changes(t) == {n \in Names : t[n].kind \in Pending}

\* Mutant: updates are marked unmodified and left out of the transaction.
BatchWithoutUpdates(t) ==
    [n \in Names |-> IF t[n].kind \in {"ADD", "REMOVE"} THEN t[n] ELSE Untracked]

\* The ActorStateChanges of a tracker; a name without one is Untracked.
BatchOf(t) == [n \in Names |-> IF t[n].kind \in Pending THEN t[n] ELSE Untracked]

\* Mutant: the entries keep their change kind.
MarkNothing(t) == t

MarkUnmodified(t) ==
    [n \in Names |-> IF t[n].kind \in Pending THEN Entry(t[n].value, "NONE") ELSE t[n]]

\* Mutant: the entries of removed names stay tracked.
DropNothing(t, batch) == t

\* The entries of the names a batch removed are deleted after the transaction.
DropRemoved(t, batch) ==
    [n \in Names |-> IF batch[n].kind = "REMOVE" THEN Untracked ELSE t[n]]

Operation(kind) == IF kind = "REMOVE" THEN "remove" ELSE "upsert"

Operations(batch) == {Operation(batch[n].kind) : n \in Changes(batch)}

\* External: the store of the sidecar after a transaction.
Commit(store, batch) ==
    [n \in Names |-> CASE batch[n].kind \in {"ADD", "UPDATE"} -> batch[n].value
                       [] batch[n].kind = "REMOVE"            -> Missing
                       [] OTHER                               -> store[n]]
=============================================================================
