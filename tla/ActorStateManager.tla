-------------------------- MODULE ActorStateManager --------------------------
(***************************************************************************)
(* The state manager of one actor instance and the part of the sidecar's   *)
(* store that belongs to it.  Callers are the flows of control that use    *)
(* the manager: the body of the current actor method, each promise it      *)
(* starts without awaiting the previous one, and, where turns overlap,     *)
(* other turns.  JavaScript runs a flow without interruption up to its     *)
(* next await, so an action is the code between two awaits.                *)
(***************************************************************************)
EXTENDS StateTracker

CONSTANTS
    Callers,
    Ops,          \* the operations callers use
    Args,         \* the values callers pass
    Touches,      \* the names each caller passes
    Overlap,      \* may a save or a clear run while other calls are outstanding
    Failures,     \* what the network and the sidecar may do wrong
    SidecarOps    \* External: the operation names the sidecar accepts

AllOps == {"add", "get", "set", "remove", "contains", "getOrAdd",
           "addOrUpdate", "clear", "save"}

ASSUME CallerAssumption ==
    /\ Ops \subseteq AllOps
    /\ Args \subseteq Values
    /\ Touches \in [Callers -> SUBSET Names]
    /\ Overlap \in BOOLEAN
    /\ Failures \subseteq {"read", "commit", "ack"}

VARIABLES
    tracker,      \* defaultStateChangeTracker
    store,        \* External: what the sidecar holds for this actor
    call,         \* where each caller is in the operation it called
    answer        \* what the last operation of each caller answered

vars == <<tracker, store, call, answer>>

Idle == [stage |-> "idle"]

Lookups == [stage : {"asked", "answered"}, op : Ops, name : Names,
            arg : Values, raw : Values \cup {Missing}]

Adds == [stage : {"check", "put"}, name : Names, arg : Values, kind : Kinds]

Saves == [stage : {"saving", "saved"}, batch : Trackers]

Answers == Values \cup {"none", "yes", "no", "failed"}

TypeOK ==
    /\ tracker \in Trackers
    /\ store \in Stores
    /\ call \in [Callers -> {Idle} \cup Lookups \cup Adds \cup Saves]
    /\ answer \in [Callers -> Answers]

Init ==
    /\ tracker = EmptyTracker
    /\ store \in Stores
    /\ \A n \in Names : store[n] \in Args \cup {Missing}
    /\ call = [c \in Callers |-> Idle]
    /\ answer = [c \in Callers |-> "none"]

-----------------------------------------------------------------------------
AtStage(c, s) == call[c].stage = s

InSave(c) == call[c].stage \in {"saving", "saved"}

\* A turn ends before its state is saved, and the next one starts after.
Begin(c, op) ==
    /\ op \in Ops
    /\ AtStage(c, "idle")
    /\ Overlap \/ \A d \in Callers : ~InSave(d)

BeginAlone(c, op) ==
    /\ op \in Ops
    /\ AtStage(c, "idle")
    /\ Overlap \/ \A d \in Callers : AtStage(d, "idle")

Return(c, a) ==
    /\ call' = [call EXCEPT ![c] = Idle]
    /\ answer' = [answer EXCEPT ![c] = a]

Finish(c, n, outcome) ==
    /\ tracker' = [tracker EXCEPT ![n] = outcome.entry]
    /\ Return(c, outcome.answer)
    /\ UNCHANGED store

\* The values an operation can be called with; a lookup takes none.
ArgsOf(op) == IF op \in {"get", "remove", "contains"} THEN {Null} ELSE Args

\* The name is not tracked: the operation sends a request and awaits it.
Ask(c, op, n, v) ==
    /\ op \notin {"clear", "save"}
    /\ Begin(c, op)
    /\ n \in Touches[c]
    /\ ~Has(tracker, n)
    /\ call' = [call EXCEPT ![c] = [stage |-> "asked", op |-> op, name |-> n,
                                    arg |-> v, raw |-> Missing]]
    /\ UNCHANGED <<tracker, store, answer>>

\* External: the sidecar reads its store, some time after it was asked.
StateGet(c) ==
    /\ AtStage(c, "asked")
    /\ call' = [call EXCEPT ![c].stage = "answered", ![c].raw = store[call[c].name]]
    /\ UNCHANGED <<tracker, store, answer>>

\* The promise of the request rejects, and with it the operation.
StateGetFails(c) ==
    /\ "read" \in Failures
    /\ AtStage(c, "asked")
    /\ Return(c, "failed")
    /\ UNCHANGED <<tracker, store>>

Hit(c, op, n) == Begin(c, op) /\ n \in Touches[c] /\ Has(tracker, n)

Answered(c, op) == AtStage(c, "answered") /\ call[c].op = op

-----------------------------------------------------------------------------
TryAddState(c, n, v) ==
    /\ Hit(c, "add", n)
    /\ Finish(c, n, TryAddHit(tracker[n], v))

TryAddStateResumes(c) ==
    /\ Answered(c, "add")
    /\ LET n == call[c].name
       IN  Finish(c, n, TryAddMiss(tracker[n], call[c].raw, call[c].arg))

TryGetState(c, n) ==
    /\ Hit(c, "get", n)
    /\ Finish(c, n, TryGetHit(tracker[n]))

TryGetStateResumes(c) ==
    /\ Answered(c, "get")
    /\ LET n == call[c].name
       IN  Finish(c, n, TryGetMiss(tracker[n], call[c].raw))

SetState(c, n, v) ==
    /\ Hit(c, "set", n)
    /\ Finish(c, n, SetHit(tracker[n], v))

SetStateResumes(c) ==
    /\ Answered(c, "set")
    /\ Finish(c, call[c].name, SetMiss(call[c].raw, call[c].arg))

TryRemoveState(c, n) ==
    /\ Hit(c, "remove", n)
    /\ Finish(c, n, TryRemoveHit(tracker[n]))

TryRemoveStateResumes(c) ==
    /\ Answered(c, "remove")
    /\ LET n == call[c].name
       IN  Finish(c, n, TryRemoveMiss(tracker[n], call[c].raw))

ContainsStateCall(c, n) ==
    /\ Hit(c, "contains", n)
    /\ Finish(c, n, ContainsHit(tracker[n]))

ContainsStateResumes(c) ==
    /\ Answered(c, "contains")
    /\ LET n == call[c].name
       IN  Finish(c, n, ContainsMiss(tracker[n], call[c].raw))

AddOrUpdateState(c, n, v) ==
    /\ Hit(c, "addOrUpdate", n)
    /\ Finish(c, n, AddOrUpdateHit(tracker[n], v))

AddOrUpdateStateResumes(c) ==
    /\ Answered(c, "addOrUpdate")
    /\ Finish(c, call[c].name, AddOrUpdateMiss(call[c].raw, call[c].arg))

\* getOrAddState awaits tryGetState, then isStateMarkedForRemove, then puts.
ThenAdd(c, n, v) ==
    /\ call' = [call EXCEPT ![c] = [stage |-> "check", name |-> n, arg |-> v,
                                    kind |-> "UNTRACKED"]]
    /\ UNCHANGED <<tracker, store, answer>>

GetOrAddState(c, n, v) ==
    /\ Hit(c, "getOrAdd", n)
    /\ \/ tracker[n].kind # "REMOVE" /\ Finish(c, n, TryGetHit(tracker[n]))
       \/ tracker[n].kind = "REMOVE" /\ ThenAdd(c, n, v)

GetOrAddStateResumes(c) ==
    /\ Answered(c, "getOrAdd")
    /\ LET n == call[c].name
       IN  \/ /\ TryLoadState(call[c].raw)
              /\ Finish(c, n, TryGetMiss(tracker[n], call[c].raw))
           \/ ~TryLoadState(call[c].raw) /\ ThenAdd(c, n, call[c].arg)

IsStateMarkedForRemove(c) ==
    /\ AtStage(c, "check")
    /\ call' = [call EXCEPT ![c].stage = "put",
                            ![c].kind = AddedKind(tracker[call[c].name])]
    /\ UNCHANGED <<tracker, store, answer>>

GetOrAddStatePuts(c) ==
    /\ AtStage(c, "put")
    /\ Finish(c, call[c].name,
              Outcome(Entry(call[c].arg, call[c].kind), call[c].arg))

-----------------------------------------------------------------------------
ClearCache(c) ==
    /\ BeginAlone(c, "clear")
    /\ tracker' = EmptyTracker
    /\ Return(c, "yes")
    /\ UNCHANGED store

\* Nothing is tracked, or nothing tracked has changed: no request is sent.
SaveStateNothing(c) ==
    /\ BeginAlone(c, "save")
    /\ Changes(tracker) = {}
    /\ Return(c, "yes")
    /\ UNCHANGED <<tracker, store>>

SaveState(c) ==
    /\ BeginAlone(c, "save")
    /\ Changes(tracker) # {}
    /\ call' = [call EXCEPT ![c] = [stage |-> "saving", batch |-> BatchOf(tracker)]]
    /\ tracker' = MarkUnmodified(tracker)
    /\ UNCHANGED <<store, answer>>

Accepts(batch) == Operations(batch) \subseteq SidecarOps

\* External: the sidecar applies the transaction as a whole.
StateTransaction(c) ==
    /\ AtStage(c, "saving")
    /\ Accepts(call[c].batch)
    /\ store' = Commit(store, call[c].batch)
    /\ call' = [call EXCEPT ![c].stage = "saved"]
    /\ UNCHANGED <<tracker, answer>>

\* The transaction is refused or never arrives; the code has no catch.
StateTransactionFails(c) ==
    /\ AtStage(c, "saving")
    /\ "commit" \in Failures \/ ~Accepts(call[c].batch)
    /\ Return(c, "failed")
    /\ UNCHANGED <<tracker, store>>

\* The transaction is applied and its acknowledgement is lost.
StateTransactionUnacknowledged(c) ==
    /\ AtStage(c, "saved")
    /\ "ack" \in Failures
    /\ Return(c, "failed")
    /\ UNCHANGED <<tracker, store>>

SaveStateResumes(c) ==
    /\ AtStage(c, "saved")
    /\ tracker' = DropRemoved(tracker, call[c].batch)
    /\ Return(c, "yes")
    /\ UNCHANGED store

-----------------------------------------------------------------------------
Operate(c, n) ==
    \/ \E op \in Ops : \E v \in ArgsOf(op) : Ask(c, op, n, v)
    \/ \E v \in Args : TryAddState(c, n, v)
    \/ TryGetState(c, n)
    \/ \E v \in Args : SetState(c, n, v)
    \/ TryRemoveState(c, n)
    \/ ContainsStateCall(c, n)
    \/ \E v \in Args : AddOrUpdateState(c, n, v)
    \/ \E v \in Args : GetOrAddState(c, n, v)

Resume(c) ==
    \/ TryAddStateResumes(c)
    \/ TryGetStateResumes(c)
    \/ SetStateResumes(c)
    \/ TryRemoveStateResumes(c)
    \/ ContainsStateResumes(c)
    \/ AddOrUpdateStateResumes(c)
    \/ GetOrAddStateResumes(c)
    \/ IsStateMarkedForRemove(c)
    \/ GetOrAddStatePuts(c)

Persist(c) ==
    \/ ClearCache(c)
    \/ SaveStateNothing(c)
    \/ SaveState(c)
    \/ SaveStateResumes(c)

Sidecar(c) ==
    \/ StateGet(c)
    \/ StateGetFails(c)
    \/ StateTransaction(c)
    \/ StateTransactionFails(c)
    \/ StateTransactionUnacknowledged(c)

Next == \E c \in Callers :
    \/ \E n \in Names : Operate(c, n)
    \/ Resume(c)
    \/ Persist(c)
    \/ Sidecar(c)

Spec == Init /\ [][Next]_vars

-----------------------------------------------------------------------------
(* The discipline of a turn: calls outstanding together are on different   *)
(* names, and all are awaited before the turn ends and its state is saved. *)

DisjointCalls ==
    /\ ~Overlap
    /\ \A c, d \in Callers : c # d => Touches[c] \cap Touches[d] = {}

\* An entry is of kind ADD only while the sidecar does not hold the name, so
\* that tryRemoveState may forget an added state without telling the sidecar
\* (tryRemoveState deletes an ADD entry and sends nothing).
AddIsFresh == \A n \in Names : tracker[n].kind = "ADD" => store[n] = Missing

\* An entry is of kind UPDATE or REMOVE only for a name the sidecar holds:
\* setState, getOrAddState and addOrUpdateState chose the kind from an answer
\* of the sidecar that is still true when the transaction is sent.
ChangeIsOfStored ==
    \A n \in Names : tracker[n].kind \in {"UPDATE", "REMOVE"} => store[n] # Missing

\* Outside a save, an entry marked unmodified holds what the sidecar holds:
\* what tryGetState answers from the cache is what a fresh read would answer.
CleanIsStored ==
    (\A c \in Callers : ~InSave(c)) =>
        \A n \in Names : tracker[n].kind = "NONE" => store[n] = tracker[n].value

\* A change of n that no transaction has carried yet, and the store's value
\* of n once one has.
Unsaved(n) ==
    \/ tracker[n].kind \in Pending
    \/ \E c \in Callers : AtStage(c, "saving") /\ call[c].batch[n].kind \in Pending

\* A change that was made leaves the manager only with the transaction that
\* carries it, with a clear of the cache, or as an added state removed again:
\* no answer of the sidecar, save or other call drops it on its way.
ChangeSurvives ==
    [][\A n \in Names : Unsaved(n) =>
          \/ Unsaved(n)'
          \/ \E c \in Callers : AtStage(c, "saving") /\ AtStage(c, "saved")'
          \/ \E c \in Callers : ClearCache(c) \/ TryRemoveState(c, n)]_vars

\* The null of a REMOVE entry is a placeholder: whatever the interleaving of
\* calls, saves and clears, it never becomes the value of an upsert, and so
\* never reaches the store, unless a caller or its factory supplies it.
PlaceholderNeverStored == \A n \in Names : store[n] # Null

\* addState "already exist" (ActorStateManager.ts:38): a name the sidecar
\* holds is refused, a name it does not hold is added.
AddRefusesExisting ==
    [][\A c \in Callers : Answered(c, "add") /\ AtStage(c, "idle")' =>
          (answer'[c] = "yes" <=> call[c].raw = Missing)]_vars

\* "Saves all the state changes (ADD/UPDATE/REMOVE) that were made since the
\* last call" (AbstractActor.ts:165): a change whose transaction failed is
\* still there for the next save to carry.
FailedSaveKeepsChanges ==
    [][\A c \in Callers, n \in Names :
          /\ StateTransactionFails(c)
          /\ call[c].batch[n].kind \in Pending
          => Unsaved(n)']_vars

\* "The state is preserved across actor garbage collections and fail-overs"
\* (AbstractActor.ts:24): a lookup of a name the sidecar holds finds it.
StoredIsFound ==
    [][\A c \in Callers :
          /\ AtStage(c, "answered") /\ AtStage(c, "idle")'
          /\ call[c].raw # Missing
          => answer'[c] # "no"]_vars

\* The abstract specification this manager implements.
PendingValue(n) ==
    LET carrier == {c \in Callers : AtStage(c, "saving")}
        e == IF carrier = {} THEN tracker[n] ELSE call[CHOOSE c \in carrier : TRUE].batch[n]
    IN  CASE e.kind \in {"ADD", "UPDATE"} -> e.value
          [] e.kind = "REMOVE"            -> "removed"
          [] OTHER                        -> "unchanged"

Cache == INSTANCE ActorStateCache WITH
            committed <- store,
            pending   <- [n \in Names |-> PendingValue(n)]

\* What each call answers and what the sidecar holds is what a store with an
\* overlay of uncommitted changes would answer and hold: read your writes,
\* repeatable reads, and a save that commits all changes at once.
ImplementsCache == Cache!Spec
=============================================================================
