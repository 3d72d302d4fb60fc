---------------------- MODULE ActorStateManager_proofs ----------------------
(***************************************************************************)
(* Invariants of the state manager for any number of callers, names and    *)
(* values, and every combination of failures.                              *)
(***************************************************************************)
EXTENDS ActorStateManager, StateTracker_proofs

-----------------------------------------------------------------------------
(* The type invariant.                                                     *)

\* A caller that awaits a request, adds or saves holds the record of it.
LEMMA CallShape ==
    ASSUME TypeOK, NEW c \in Callers
    PROVE  /\ call[c].stage \in {"asked", "answered"} => call[c] \in Lookups
           /\ call[c].stage \in {"check", "put"} => call[c] \in Adds
           /\ call[c].stage \in {"saving", "saved"} => call[c] \in Saves
           /\ call[c].stage = "idle" => call[c] = Idle
BY DEF TypeOK, Idle, Lookups, Adds, Saves

\* An operation that finishes with an entry and an answer keeps the types.
LEMMA FinishType ==
    ASSUME TypeOK, NEW c \in Callers, NEW n \in Names, NEW o \in Outcomes,
           Finish(c, n, o)
    PROVE  TypeOK'
<1>1. o.entry \in Entries /\ o.answer \in Answers
  BY DEF Outcomes, TrackerAnswers, Answers
<1>2. tracker' \in Trackers
  BY <1>1 DEF TypeOK, Finish, Trackers
<1>3. call' \in [Callers -> {Idle} \cup Lookups \cup Adds \cup Saves]
  BY DEF TypeOK, Finish, Return
<1>4. answer' \in [Callers -> Answers]
  BY <1>1 DEF TypeOK, Finish, Return
<1> QED BY <1>2, <1>3, <1>4 DEF TypeOK, Finish

\* An operation that returns without touching the tracker keeps the types.
LEMMA ReturnType ==
    ASSUME TypeOK, NEW c \in Callers, NEW a \in Answers, Return(c, a),
           tracker' \in Trackers, store' = store
    PROVE  TypeOK'
BY DEF TypeOK, Return

LEMMA ThenAddType ==
    ASSUME TypeOK, NEW c \in Callers, NEW n \in Names, NEW v \in Values,
           ThenAdd(c, n, v)
    PROVE  TypeOK'
<1>1. [stage |-> "check", name |-> n, arg |-> v, kind |-> "UNTRACKED"] \in Adds
  BY DEF Adds, Kinds
<1> QED BY <1>1 DEF TypeOK, ThenAdd

\* A new call: it asks, or it finds the name tracked.
LEMMA OperateType ==
    ASSUME TypeOK, NEW c \in Callers, NEW n \in Names, Operate(c, n)
    PROVE  TypeOK'
<1>1. tracker[n] \in Entries
  BY DEF TypeOK, Trackers
<1>2. \A v \in Args : v \in Values
  BY CallerAssumption
<1>3. ASSUME NEW op \in Ops, NEW v \in ArgsOf(op), Ask(c, op, n, v)
      PROVE  TypeOK'
  <2>1. v \in Values
    BY <1>3, <1>2, ValueAssumption DEF ArgsOf, Values
  <2>2. [stage |-> "asked", op |-> op, name |-> n, arg |-> v, raw |-> Missing] \in Lookups
    BY <2>1 DEF Lookups
  <2> QED BY <1>3, <2>2 DEF TypeOK, Ask
<1>4. ASSUME NEW v \in Args, TryAddState(c, n, v)
      PROVE  TypeOK'
  BY <1>4, <1>1, <1>2, HitType, FinishType DEF TryAddState
<1>5. CASE TryGetState(c, n)
  <2>1. TryGetHit(tracker[n]) \in Outcomes
    BY <1>1, ValueAssumption, HitType DEF Values
  <2> QED BY <1>5, <2>1, FinishType DEF TryGetState
<1>6. ASSUME NEW v \in Args, SetState(c, n, v)
      PROVE  TypeOK'
  BY <1>6, <1>1, <1>2, HitType, FinishType DEF SetState
<1>7. CASE TryRemoveState(c, n)
  <2>1. TryRemoveHit(tracker[n]) \in Outcomes
    BY <1>1, ValueAssumption, HitType DEF Values
  <2> QED BY <1>7, <2>1, FinishType DEF TryRemoveState
<1>8. CASE ContainsStateCall(c, n)
  <2>1. ContainsHit(tracker[n]) \in Outcomes
    BY <1>1, ValueAssumption, HitType DEF Values
  <2> QED BY <1>8, <2>1, FinishType DEF ContainsStateCall
<1>9. ASSUME NEW v \in Args, AddOrUpdateState(c, n, v)
      PROVE  TypeOK'
  BY <1>9, <1>1, <1>2, HitType, FinishType DEF AddOrUpdateState
<1>10. ASSUME NEW v \in Args, GetOrAddState(c, n, v)
       PROVE  TypeOK'
  <2>1. TryGetHit(tracker[n]) \in Outcomes
    BY <1>1, <1>2, HitType
  <2>2. CASE Finish(c, n, TryGetHit(tracker[n]))
    BY <2>1, <2>2, FinishType
  <2>3. CASE ThenAdd(c, n, v)
    BY <2>3, <1>2, ThenAddType
  <2> QED BY <1>10, <2>2, <2>3 DEF GetOrAddState
<1> QED BY <1>3, <1>4, <1>5, <1>6, <1>7, <1>8, <1>9, <1>10 DEF Operate

\* A call goes on after the sidecar answered it, or after a step of its own.
LEMMA ResumeType ==
    ASSUME TypeOK, NEW c \in Callers, Resume(c)
    PROVE  TypeOK'
<1> DEFINE n == call[c].name
<1>1. ASSUME AtStage(c, "answered")
      PROVE  /\ n \in Names /\ call[c].arg \in Values
             /\ call[c].raw \in Values \cup {Missing}
             /\ tracker[n] \in Entries
  BY <1>1, CallShape DEF AtStage, Lookups, TypeOK, Trackers
<1>2. ASSUME call[c].stage \in {"check", "put"}
      PROVE  /\ call[c] \in Adds /\ n \in Names /\ call[c].arg \in Values
             /\ call[c].kind \in Kinds /\ tracker[n] \in Entries
  BY <1>2, CallShape DEF Adds, TypeOK, Trackers
<1> HIDE DEF n
<1>3. CASE TryAddStateResumes(c)
  BY <1>1, <1>3, MissType, FinishType DEF TryAddStateResumes, Answered, n
<1>4. CASE TryGetStateResumes(c)
  BY <1>1, <1>4, MissType, FinishType DEF TryGetStateResumes, Answered, n
<1>5. CASE SetStateResumes(c)
  BY <1>1, <1>5, MissType, FinishType DEF SetStateResumes, Answered, n
<1>6. CASE TryRemoveStateResumes(c)
  BY <1>1, <1>6, MissType, FinishType DEF TryRemoveStateResumes, Answered, n
<1>7. CASE ContainsStateResumes(c)
  BY <1>1, <1>7, MissType, FinishType DEF ContainsStateResumes, Answered, n
<1>8. CASE AddOrUpdateStateResumes(c)
  BY <1>1, <1>8, MissType, FinishType DEF AddOrUpdateStateResumes, Answered, n
<1>9. CASE GetOrAddStateResumes(c)
  <2>1. AtStage(c, "answered")
    BY <1>9 DEF GetOrAddStateResumes, Answered
  <2>2. CASE Finish(c, n, TryGetMiss(tracker[n], call[c].raw))
    BY <1>1, <2>1, <2>2, MissType, FinishType
  <2>3. CASE ThenAdd(c, n, call[c].arg)
    BY <1>1, <2>1, <2>3, ThenAddType
  <2> QED BY <1>9, <2>2, <2>3 DEF GetOrAddStateResumes, n
<1>10. CASE IsStateMarkedForRemove(c)
  <2>1. call[c] \in Adds
    BY <1>2, <1>10 DEF IsStateMarkedForRemove, AtStage
  <2>2. AddedKind(tracker[n]) \in Kinds
    BY DEF AddedKind, Kinds
  <2>3. [call[c] EXCEPT !.stage = "put", !.kind = AddedKind(tracker[n])] \in Adds
    BY <2>1, <2>2 DEF Adds
  <2> QED BY <1>10, <2>3 DEF IsStateMarkedForRemove, TypeOK, n
<1>11. CASE GetOrAddStatePuts(c)
  <2>1. n \in Names /\ call[c].arg \in Values /\ call[c].kind \in Kinds
    BY <1>2, <1>11 DEF GetOrAddStatePuts, AtStage
  <2>2. Outcome(Entry(call[c].arg, call[c].kind), call[c].arg) \in Outcomes
    BY <2>1, EntryType DEF Outcome, Outcomes, TrackerAnswers
  <2> QED BY <1>11, <2>1, <2>2, FinishType DEF GetOrAddStatePuts, n
<1> QED BY <1>3, <1>4, <1>5, <1>6, <1>7, <1>8, <1>9, <1>10, <1>11 DEF Resume

\* clearCache and saveState, up to the transaction and after it.
LEMMA PersistType ==
    ASSUME TypeOK, NEW c \in Callers, Persist(c)
    PROVE  TypeOK'
<1>1. tracker \in Trackers /\ store \in Stores /\ "yes" \in Answers
  BY DEF TypeOK, Answers
<1>2. CASE ClearCache(c)
  BY <1>1, <1>2, EmptyTrackerType, ReturnType DEF ClearCache
<1>3. CASE SaveStateNothing(c)
  BY <1>1, <1>3, ReturnType DEF SaveStateNothing
<1>4. CASE SaveState(c)
  <2>1. BatchOf(tracker) \in Trackers /\ MarkUnmodified(tracker) \in Trackers
    BY <1>1, SaveType
  <2>2. [stage |-> "saving", batch |-> BatchOf(tracker)] \in Saves
    BY <2>1 DEF Saves
  <2> QED BY <1>4, <2>1, <2>2 DEF SaveState, TypeOK
<1>5. CASE SaveStateResumes(c)
  <2>1. call[c].batch \in Trackers
    BY <1>5, CallShape DEF SaveStateResumes, AtStage, Saves
  <2>2. DropRemoved(tracker, call[c].batch) \in Trackers
    BY <1>1, <2>1, SaveType
  <2> QED BY <1>1, <1>5, <2>2, ReturnType DEF SaveStateResumes
<1> QED BY <1>2, <1>3, <1>4, <1>5 DEF Persist

\* The sidecar answers or applies a transaction, or a request fails.
LEMMA SidecarType ==
    ASSUME TypeOK, NEW c \in Callers, Sidecar(c)
    PROVE  TypeOK'
<1>1. tracker \in Trackers /\ store \in Stores /\ "failed" \in Answers
  BY DEF TypeOK, Answers
<1>2. CASE StateGet(c)
  <2>1. call[c] \in Lookups
    BY <1>2, CallShape DEF StateGet, AtStage
  <2>2. store[call[c].name] \in Values \cup {Missing}
    BY <1>1, <2>1 DEF Lookups, Stores
  <2>3. [call[c] EXCEPT !.stage = "answered", !.raw = store[call[c].name]] \in Lookups
    BY <2>1, <2>2 DEF Lookups
  <2> QED BY <1>2, <2>3 DEF StateGet, TypeOK
<1>3. CASE StateGetFails(c)
  BY <1>1, <1>3, ReturnType DEF StateGetFails
<1>4. CASE StateTransaction(c)
  <2>1. call[c] \in Saves
    BY <1>4, CallShape DEF StateTransaction, AtStage
  <2>2. Commit(store, call[c].batch) \in Stores
    BY <1>1, <2>1, SaveType DEF Saves
  <2>3. [call[c] EXCEPT !.stage = "saved"] \in Saves
    BY <2>1 DEF Saves
  <2> QED BY <1>4, <2>2, <2>3 DEF StateTransaction, TypeOK
<1>5. CASE StateTransactionFails(c)
  BY <1>1, <1>5, ReturnType DEF StateTransactionFails
<1>6. CASE StateTransactionUnacknowledged(c)
  BY <1>1, <1>6, ReturnType DEF StateTransactionUnacknowledged
<1> QED BY <1>2, <1>3, <1>4, <1>5, <1>6 DEF Sidecar

LEMMA StepType == TypeOK /\ [Next]_vars => TypeOK'
<1> SUFFICES ASSUME TypeOK, [Next]_vars
             PROVE  TypeOK'
  OBVIOUS
<1>1. CASE UNCHANGED vars
  BY <1>1 DEF vars, TypeOK
<1>2. ASSUME NEW c \in Callers, NEW n \in Names, Operate(c, n)
      PROVE  TypeOK'
  BY <1>2, OperateType
<1>3. ASSUME NEW c \in Callers, Resume(c) \/ Persist(c) \/ Sidecar(c)
      PROVE  TypeOK'
  BY <1>3, ResumeType, PersistType, SidecarType
<1> QED BY <1>1, <1>2, <1>3 DEF Next

LEMMA InitType == Init => TypeOK
BY EmptyTrackerType DEF Init, TypeOK, Idle, Answers

\* Every reachable state is of its type: no operation, save, clear or failure
\* leaves the tracker or the store with something that is not a value.
THEOREM TypeCorrect == Spec => []TypeOK
BY InitType, StepType, PTL DEF Spec

-----------------------------------------------------------------------------
(* The placeholder of a removal never becomes a stored value.              *)

ProperEntry(e) == e.kind \in {"ADD", "UPDATE"} => e.value # Null

ProperCall(d) ==
    /\ d.stage \in {"asked", "answered"} =>
          (d.op \in {"add", "set", "addOrUpdate", "getOrAdd"} => d.arg # Null)
    /\ d.stage \in {"check", "put"} => d.arg # Null
    /\ d.stage \in {"saving", "saved"} => \A n \in Names : ProperEntry(d.batch[n])

\* PlaceholderNeverStored is not inductive: a null could wait in an entry that
\* is to be sent, in the argument of a call or in a transaction on its way.
PlaceholderInv ==
    /\ TypeOK
    /\ PlaceholderNeverStored
    /\ \A n \in Names : ProperEntry(tracker[n])
    /\ \A c \in Callers : ProperCall(call[c])

\* Callers pass null neither as a value nor through their factory.
CallersAvoidNull == Null \notin Args /\ \A v \in Values : Factory[v] # Null

LEMMA HitProper ==
    ASSUME CallersAvoidNull, NEW e \in Entries, NEW v \in Args, ProperEntry(e)
    PROVE  /\ ProperEntry(TryAddHit(e, v).entry)
           /\ ProperEntry(SetHit(e, v).entry)
           /\ ProperEntry(AddOrUpdateHit(e, v).entry)
<1>1. v # Null /\ e.value \in Values
  BY DEF CallersAvoidNull, Entries
<1>2. Factory[e.value] # Null
  BY <1>1 DEF CallersAvoidNull
<1> QED BY <1>1, <1>2
        DEF ProperEntry, TryAddHit, SetHit, AddOrUpdateHit, Outcome, Entry

LEMMA LookupHitProper ==
    ASSUME NEW e \in Entries, ProperEntry(e)
    PROVE  /\ ProperEntry(TryGetHit(e).entry)
           /\ ProperEntry(TryRemoveHit(e).entry)
           /\ ProperEntry(ContainsHit(e).entry)
BY DEF ProperEntry, TryGetHit, TryRemoveHit, ContainsHit, Outcome, Entry, Untracked

LEMMA MissProper ==
    ASSUME CallersAvoidNull, NEW e \in Entries, ProperEntry(e),
           NEW v \in Values, v # Null, NEW raw \in Values \cup {Missing}
    PROVE  /\ ProperEntry(TryAddMiss(e, raw, v).entry)
           /\ ProperEntry(SetMiss(raw, v).entry)
           /\ ProperEntry(AddOrUpdateMiss(raw, v).entry)
<1>1. TryLoadState(raw) => Factory[raw] # Null
  BY DEF CallersAvoidNull, TryLoadState, Values
<1> QED BY <1>1
        DEF ProperEntry, TryAddMiss, SetMiss, AddOrUpdateMiss, Outcome, Entry

LEMMA LookupMissProper ==
    ASSUME NEW e \in Entries, ProperEntry(e), NEW raw \in Values \cup {Missing}
    PROVE  /\ ProperEntry(TryGetMiss(e, raw).entry)
           /\ ProperEntry(TryRemoveMiss(e, raw).entry)
           /\ ProperEntry(ContainsMiss(e, raw).entry)
BY DEF ProperEntry, TryGetMiss, TryRemoveMiss, ContainsMiss, Outcome, Entry

LEMMA IdleProper == ProperCall(Idle)
BY DEF ProperCall, Idle

LEMMA FinishProper ==
    ASSUME PlaceholderInv, TypeOK', NEW c \in Callers, NEW n \in Names, NEW o,
           ProperEntry(o.entry), Finish(c, n, o)
    PROVE  PlaceholderInv'
<1>1. \A m \in Names : ProperEntry(tracker'[m])
  BY DEF PlaceholderInv, Finish, TypeOK, Trackers
<1>2. \A d \in Callers : ProperCall(call'[d])
  BY IdleProper DEF PlaceholderInv, Finish, Return, TypeOK
<1>3. PlaceholderNeverStored'
  BY DEF PlaceholderInv, Finish, PlaceholderNeverStored
<1> QED BY <1>1, <1>2, <1>3 DEF PlaceholderInv

LEMMA ReturnProper ==
    ASSUME PlaceholderInv, TypeOK', NEW c \in Callers, NEW a, Return(c, a),
           \A n \in Names : ProperEntry(tracker'[n]), store' = store
    PROVE  PlaceholderInv'
<1>1. \A d \in Callers : ProperCall(call'[d])
  BY IdleProper DEF PlaceholderInv, Return, TypeOK
<1> QED BY <1>1 DEF PlaceholderInv, PlaceholderNeverStored

LEMMA ThenAddProper ==
    ASSUME PlaceholderInv, TypeOK', NEW c \in Callers, NEW n \in Names, NEW v,
           v # Null, ThenAdd(c, n, v)
    PROVE  PlaceholderInv'
<1>1. ProperCall([stage |-> "check", name |-> n, arg |-> v, kind |-> "UNTRACKED"])
  BY DEF ProperCall
<1>2. \A d \in Callers : ProperCall(call'[d])
  BY <1>1 DEF PlaceholderInv, ThenAdd, TypeOK
<1> QED BY <1>2 DEF PlaceholderInv, ThenAdd, PlaceholderNeverStored

LEMMA OperateProper ==
    ASSUME CallersAvoidNull, PlaceholderInv, TypeOK',
           NEW c \in Callers, NEW n \in Names, Operate(c, n)
    PROVE  PlaceholderInv'
<1>1. tracker[n] \in Entries /\ ProperEntry(tracker[n])
  BY DEF PlaceholderInv, TypeOK, Trackers
<1>2. ASSUME NEW op \in Ops, NEW v \in ArgsOf(op), Ask(c, op, n, v)
      PROVE  PlaceholderInv'
  <2>1. ProperCall([stage |-> "asked", op |-> op, name |-> n, arg |-> v, raw |-> Missing])
    BY DEF ProperCall, ArgsOf, CallersAvoidNull
  <2>2. \A d \in Callers : ProperCall(call'[d])
    BY <1>2, <2>1 DEF PlaceholderInv, Ask, TypeOK
  <2> QED BY <1>2, <2>2 DEF PlaceholderInv, Ask, PlaceholderNeverStored
<1>3. ASSUME NEW v \in Args, TryAddState(c, n, v)
      PROVE  PlaceholderInv'
  BY <1>1, <1>3, HitProper, FinishProper DEF TryAddState
<1>4. CASE TryGetState(c, n)
  BY <1>1, <1>4, LookupHitProper, FinishProper DEF TryGetState
<1>5. ASSUME NEW v \in Args, SetState(c, n, v)
      PROVE  PlaceholderInv'
  BY <1>1, <1>5, HitProper, FinishProper DEF SetState
<1>6. CASE TryRemoveState(c, n)
  BY <1>1, <1>6, LookupHitProper, FinishProper DEF TryRemoveState
<1>7. CASE ContainsStateCall(c, n)
  BY <1>1, <1>7, LookupHitProper, FinishProper DEF ContainsStateCall
<1>8. ASSUME NEW v \in Args, AddOrUpdateState(c, n, v)
      PROVE  PlaceholderInv'
  BY <1>1, <1>8, HitProper, FinishProper DEF AddOrUpdateState
<1>9. ASSUME NEW v \in Args, GetOrAddState(c, n, v)
      PROVE  PlaceholderInv'
  <2>1. CASE Finish(c, n, TryGetHit(tracker[n]))
    BY <1>1, <2>1, LookupHitProper, FinishProper
  <2>2. CASE ThenAdd(c, n, v)
    BY <2>2, ThenAddProper DEF CallersAvoidNull
  <2> QED BY <1>9, <2>1, <2>2 DEF GetOrAddState
<1> QED BY <1>2, <1>3, <1>4, <1>5, <1>6, <1>7, <1>8, <1>9 DEF Operate

LEMMA ResumeProper ==
    ASSUME CallersAvoidNull, PlaceholderInv, TypeOK', NEW c \in Callers, Resume(c)
    PROVE  PlaceholderInv'
<1> DEFINE n == call[c].name
<1>1. ASSUME AtStage(c, "answered")
      PROVE  /\ n \in Names /\ call[c].arg \in Values
             /\ call[c].raw \in Values \cup {Missing}
             /\ tracker[n] \in Entries /\ ProperEntry(tracker[n])
             /\ call[c].op \in {"add", "set", "addOrUpdate", "getOrAdd"} =>
                   call[c].arg # Null
  <2>1. call[c] \in Lookups /\ TypeOK
    BY <1>1, CallShape DEF PlaceholderInv, AtStage
  <2>2. ProperCall(call[c])
    BY DEF PlaceholderInv
  <2> QED BY <1>1, <2>1, <2>2
          DEF AtStage, Lookups, TypeOK, Trackers, PlaceholderInv, ProperCall
<1>2. ASSUME call[c].stage \in {"check", "put"}
      PROVE  /\ call[c] \in Adds /\ n \in Names /\ call[c].arg # Null
             /\ call[c].arg \in Values /\ call[c].kind \in Kinds
  BY <1>2, CallShape DEF Adds, PlaceholderInv, ProperCall
<1> HIDE DEF n
<1>3. CASE TryAddStateResumes(c)
  BY <1>1, <1>3, MissProper, FinishProper DEF TryAddStateResumes, Answered, n
<1>4. CASE TryGetStateResumes(c)
  BY <1>1, <1>4, LookupMissProper, FinishProper DEF TryGetStateResumes, Answered, n
<1>5. CASE SetStateResumes(c)
  BY <1>1, <1>5, MissProper, FinishProper DEF SetStateResumes, Answered, n
<1>6. CASE TryRemoveStateResumes(c)
  BY <1>1, <1>6, LookupMissProper, FinishProper DEF TryRemoveStateResumes, Answered, n
<1>7. CASE ContainsStateResumes(c)
  BY <1>1, <1>7, LookupMissProper, FinishProper DEF ContainsStateResumes, Answered, n
<1>8. CASE AddOrUpdateStateResumes(c)
  BY <1>1, <1>8, MissProper, FinishProper DEF AddOrUpdateStateResumes, Answered, n
<1>9. CASE GetOrAddStateResumes(c)
  <2>1. AtStage(c, "answered") /\ call[c].op = "getOrAdd"
    BY <1>9 DEF GetOrAddStateResumes, Answered
  <2>2. CASE Finish(c, n, TryGetMiss(tracker[n], call[c].raw))
    BY <1>1, <2>1, <2>2, LookupMissProper, FinishProper
  <2>3. CASE ThenAdd(c, n, call[c].arg)
    BY <1>1, <2>1, <2>3, ThenAddProper
  <2> QED BY <1>9, <2>2, <2>3 DEF GetOrAddStateResumes, n
<1>10. CASE IsStateMarkedForRemove(c)
  <2>1. call[c] \in Adds /\ call[c].arg # Null
    BY <1>2, <1>10 DEF IsStateMarkedForRemove, AtStage
  <2>2. ProperCall([call[c] EXCEPT !.stage = "put", !.kind = AddedKind(tracker[n])])
    BY <2>1 DEF Adds, ProperCall
  <2>3. \A d \in Callers : ProperCall(call'[d])
    BY <1>10, <2>2 DEF PlaceholderInv, IsStateMarkedForRemove, TypeOK, n
  <2> QED BY <1>10, <2>3 DEF PlaceholderInv, IsStateMarkedForRemove, PlaceholderNeverStored
<1>11. CASE GetOrAddStatePuts(c)
  <2>1. n \in Names /\ call[c].arg # Null
    BY <1>2, <1>11 DEF GetOrAddStatePuts, AtStage
  <2>2. ProperEntry(Outcome(Entry(call[c].arg, call[c].kind), call[c].arg).entry)
    BY <2>1 DEF ProperEntry, Outcome, Entry
  <2> QED BY <1>11, <2>1, <2>2, FinishProper DEF GetOrAddStatePuts, n
<1> QED BY <1>3, <1>4, <1>5, <1>6, <1>7, <1>8, <1>9, <1>10, <1>11 DEF Resume

LEMMA PersistProper ==
    ASSUME PlaceholderInv, TypeOK', NEW c \in Callers, Persist(c)
    PROVE  PlaceholderInv'
<1>1. \A n \in Names : ProperEntry(tracker[n]) /\ tracker[n] \in Entries
  BY DEF PlaceholderInv, TypeOK, Trackers
<1>2. ProperEntry(Untracked)
  BY DEF ProperEntry, Untracked, Entry
<1>3. CASE ClearCache(c)
  <2>1. \A n \in Names : ProperEntry(tracker'[n])
    BY <1>2, <1>3 DEF ClearCache, EmptyTracker
  <2> QED BY <1>3, <2>1, ReturnProper DEF ClearCache
<1>4. CASE SaveStateNothing(c)
  <2>1. \A n \in Names : ProperEntry(tracker'[n])
    BY <1>1, <1>4 DEF SaveStateNothing
  <2> QED BY <1>4, <2>1, ReturnProper DEF SaveStateNothing
<1>5. CASE SaveState(c)
  <2>1. \A n \in Names : ProperEntry(BatchOf(tracker)[n])
    BY <1>1, <1>2 DEF BatchOf
  <2>2. \A n \in Names : ProperEntry(MarkUnmodified(tracker)[n])
    BY <1>1 DEF MarkUnmodified, ProperEntry, Entry
  <2>3. ProperCall([stage |-> "saving", batch |-> BatchOf(tracker)])
    BY <2>1 DEF ProperCall
  <2>4. \A d \in Callers : ProperCall(call'[d])
    BY <1>5, <2>3 DEF PlaceholderInv, SaveState, TypeOK
  <2> QED BY <1>5, <2>2, <2>4 DEF PlaceholderInv, SaveState, PlaceholderNeverStored
<1>6. CASE SaveStateResumes(c)
  <2>1. \A n \in Names : ProperEntry(tracker'[n])
    BY <1>1, <1>2, <1>6 DEF SaveStateResumes, DropRemoved
  <2> QED BY <1>6, <2>1, ReturnProper DEF SaveStateResumes
<1> QED BY <1>3, <1>4, <1>5, <1>6 DEF Persist

LEMMA SidecarProper ==
    ASSUME PlaceholderInv, TypeOK', NEW c \in Callers, Sidecar(c)
    PROVE  PlaceholderInv'
<1>1. \A n \in Names : ProperEntry(tracker[n])
  BY DEF PlaceholderInv
<1>2. TypeOK /\ ProperCall(call[c])
  BY DEF PlaceholderInv
<1>3. CASE StateGet(c)
  <2>1. call[c] \in Lookups
    BY <1>2, <1>3, CallShape DEF StateGet, AtStage
  <2>2. ProperCall([call[c] EXCEPT !.stage = "answered", !.raw = store[call[c].name]])
    BY <1>2, <1>3, <2>1 DEF Lookups, ProperCall, StateGet, AtStage
  <2>3. \A d \in Callers : ProperCall(call'[d])
    BY <1>3, <2>2 DEF PlaceholderInv, StateGet, TypeOK
  <2> QED BY <1>3, <2>3 DEF PlaceholderInv, StateGet, PlaceholderNeverStored
<1>4. CASE StateGetFails(c)
  BY <1>1, <1>4, ReturnProper DEF StateGetFails
<1>5. CASE StateTransaction(c)
  <2>1. call[c] \in Saves
    BY <1>2, <1>5, CallShape DEF StateTransaction, AtStage
  <2>2. \A n \in Names : ProperEntry(call[c].batch[n])
    BY <1>2, <1>5 DEF ProperCall, StateTransaction, AtStage
  <2>3. \A n \in Names : store'[n] # Null
    BY <1>5, <2>2, ValueAssumption
    DEF StateTransaction, Commit, ProperEntry, PlaceholderInv, PlaceholderNeverStored, Values
  <2>4. ProperCall([call[c] EXCEPT !.stage = "saved"])
    BY <2>1, <2>2 DEF Saves, ProperCall
  <2>5. \A d \in Callers : ProperCall(call'[d])
    BY <1>5, <2>4 DEF PlaceholderInv, StateTransaction, TypeOK
  <2> QED BY <1>5, <2>3, <2>5 DEF PlaceholderInv, StateTransaction, PlaceholderNeverStored
<1>6. CASE StateTransactionFails(c)
  BY <1>1, <1>6, ReturnProper DEF StateTransactionFails
<1>7. CASE StateTransactionUnacknowledged(c)
  BY <1>1, <1>7, ReturnProper DEF StateTransactionUnacknowledged
<1> QED BY <1>3, <1>4, <1>5, <1>6, <1>7 DEF Sidecar

LEMMA PlaceholderStep ==
    ASSUME CallersAvoidNull
    PROVE  PlaceholderInv /\ [Next]_vars => PlaceholderInv'
<1> SUFFICES ASSUME PlaceholderInv, [Next]_vars
             PROVE  PlaceholderInv'
  OBVIOUS
<1>1. TypeOK'
  BY StepType DEF PlaceholderInv
<1>2. CASE UNCHANGED vars
  BY <1>1, <1>2 DEF vars, PlaceholderInv, PlaceholderNeverStored
<1>3. ASSUME NEW c \in Callers, NEW n \in Names, Operate(c, n)
      PROVE  PlaceholderInv'
  BY <1>1, <1>3, OperateProper
<1>4. ASSUME NEW c \in Callers, Resume(c) \/ Persist(c) \/ Sidecar(c)
      PROVE  PlaceholderInv'
  BY <1>1, <1>4, ResumeProper, PersistProper, SidecarProper
<1> QED BY <1>2, <1>3, <1>4 DEF Next

LEMMA PlaceholderInit ==
    ASSUME CallersAvoidNull
    PROVE  Init => PlaceholderInv
<1> SUFFICES ASSUME Init
             PROVE  PlaceholderInv
  OBVIOUS
<1>1. \A n \in Names : store[n] # Null
  BY ValueAssumption DEF Init, CallersAvoidNull, Values
<1>2. \A n \in Names : ProperEntry(tracker[n])
  BY EmptyTrackerType DEF Init, ProperEntry, Untracked, Entry
<1>3. \A c \in Callers : ProperCall(call[c])
  BY IdleProper DEF Init
<1> QED BY <1>1, <1>2, <1>3, InitType DEF PlaceholderInv, PlaceholderNeverStored

\* However calls, saves, clears and failures interleave, the null that stands
\* in a removed entry is never sent as a value and never stored, as long as
\* callers do not pass null themselves.
THEOREM PlaceholderStaysOut ==
    ASSUME CallersAvoidNull
    PROVE  Spec => []PlaceholderNeverStored
<1>1. PlaceholderInv => PlaceholderNeverStored
  BY DEF PlaceholderInv
<1> QED BY <1>1, PlaceholderInit, PlaceholderStep, PTL DEF Spec

-----------------------------------------------------------------------------
(* The discipline of a turn keeps ADD entries to names the sidecar does    *)
(* not hold, with any number of callers and whatever fails.                *)

\* Calls outstanding together are on different names, none of them is
\* addState, and callers and their factory supply values with a length.
SoundTurn ==
    /\ DisjointCalls
    /\ "add" \notin Ops
    /\ Args \subseteq Sized
    /\ \A v \in Values : Factory[v] \in Sized

SizedEntry(e) == e.kind \in {"ADD", "UPDATE"} => e.value \in Sized

\* While a call awaits its answer nothing else touches its name.
LookupInv(c) == call[c].stage \in {"asked", "answered"} =>
    /\ call[c].name \in Touches[c]
    /\ tracker[call[c].name].kind = "UNTRACKED"
    /\ call[c].op \in {"set", "addOrUpdate", "getOrAdd"} => call[c].arg \in Sized
    /\ AtStage(c, "answered") => call[c].raw = store[call[c].name]

AddInv(c) == call[c].stage \in {"check", "put"} =>
    /\ call[c].name \in Touches[c]
    /\ call[c].arg \in Sized
    /\ tracker[call[c].name].kind \in {"UNTRACKED", "REMOVE"}
    /\ tracker[call[c].name].kind = "UNTRACKED" => store[call[c].name] = Missing
    /\ AtStage(c, "put") => call[c].kind = AddedKind(tracker[call[c].name])

SaveInv(c) == InSave(c) =>
    /\ \A d \in Callers : d # c => AtStage(d, "idle")
    /\ \A n \in Names : /\ SizedEntry(call[c].batch[n])
                        /\ tracker[n].kind \in {"UNTRACKED", "NONE"}

CallInv(c) == LookupInv(c) /\ AddInv(c) /\ SaveInv(c)

\* AddIsFresh is not inductive: a call that has been answered, or is about to
\* put its value, must still be right about the store.
TurnInv ==
    /\ TypeOK
    /\ AddIsFresh
    /\ \A n \in Names : store[n] \in Sized \cup {Missing} /\ SizedEntry(tracker[n])
    /\ \A c \in Callers : CallInv(c)

NoSave == \A d \in Callers : ~InSave(d)

\* What an operation may leave under a name while the store is as it is.
FreshEntry(n, e) == SizedEntry(e) /\ (e.kind = "ADD" => store[n] = Missing)

LEMMA IdleCall ==
    ASSUME NEW c \in Callers, AtStage(c, "idle")
    PROVE  CallInv(c)
BY DEF CallInv, LookupInv, AddInv, SaveInv, InSave, AtStage

\* A caller that awaits an answer or adds excludes a save.
LEMMA NoSaveWhileCalling ==
    ASSUME TurnInv, NEW c \in Callers,
           call[c].stage \in {"asked", "answered", "check", "put"}
    PROVE  NoSave
BY DEF TurnInv, CallInv, SaveInv, NoSave, InSave, AtStage

LEMMA FinishTurn ==
    ASSUME SoundTurn, TurnInv, TypeOK', NoSave, NEW c \in Callers, NEW n \in Touches[c],
           n \in Names, NEW o, FreshEntry(n, o.entry), Finish(c, n, o)
    PROVE  TurnInv'
<1>1. tracker' = [tracker EXCEPT ![n] = o.entry] /\ store' = store
  BY DEF Finish
<1>2. AddIsFresh'
  BY <1>1 DEF TurnInv, AddIsFresh, FreshEntry, TypeOK, Trackers
<1>3. \A m \in Names : store'[m] \in Sized \cup {Missing} /\ SizedEntry(tracker'[m])
  BY <1>1 DEF TurnInv, FreshEntry, TypeOK, Trackers
<1>4. ASSUME NEW d \in Callers
      PROVE  CallInv(d)'
  <2>1. CASE d = c
    BY <2>1, IdleCall
    DEF Finish, Return, TypeOK, TurnInv, CallInv, LookupInv, AddInv, SaveInv, InSave, AtStage, Idle
  <2>2. CASE d # c
    <3>1. call'[d] = call[d]
      BY <2>2 DEF Finish, Return, TypeOK, TurnInv
    <3>2. \A m \in Touches[d] : m # n
      BY <2>2 DEF SoundTurn, DisjointCalls
    <3>3. \A m \in Touches[d] : m \in Names => tracker'[m] = tracker[m]
      BY <3>2, <1>1 DEF TurnInv, TypeOK, Trackers
    <3>4. Touches[d] \subseteq Names
      BY CallerAssumption
    <3>5. CallInv(d) /\ ~InSave(d)
      BY DEF TurnInv, NoSave
    <3> QED BY <3>1, <3>3, <3>4, <3>5, <1>1
            DEF CallInv, LookupInv, AddInv, SaveInv, InSave, AtStage
  <2> QED BY <2>1, <2>2
<1> QED BY <1>2, <1>3, <1>4 DEF TurnInv

\* A caller goes on with a record that is right about tracker and store.
LEMMA ProceedTurn ==
    ASSUME TurnInv, TypeOK', NEW c \in Callers, NEW new,
           call' = [call EXCEPT ![c] = new],
           tracker' = tracker, store' = store, NoSave,
           new.stage \notin {"saving", "saved"},
           LookupInv(c)', AddInv(c)'
    PROVE  TurnInv'
<1>1. ASSUME NEW d \in Callers
      PROVE  CallInv(d)'
  <2>1. CASE d = c
    BY <2>1 DEF TurnInv, TypeOK, CallInv, SaveInv, InSave
  <2>2. CASE d # c
    <3>1. call'[d] = call[d] /\ CallInv(d) /\ ~InSave(d)
      BY <2>2 DEF TurnInv, TypeOK, NoSave
    <3> QED BY <3>1 DEF CallInv, LookupInv, AddInv, SaveInv, InSave, AtStage
  <2> QED BY <2>1, <2>2
<1> QED BY <1>1 DEF TurnInv, AddIsFresh

LEMMA ThenAddTurn ==
    ASSUME TurnInv, TypeOK', NoSave, NEW c \in Callers, NEW n \in Touches[c],
           n \in Names, NEW v \in Sized, ThenAdd(c, n, v),
           tracker[n].kind \in {"UNTRACKED", "REMOVE"},
           tracker[n].kind = "UNTRACKED" => store[n] = Missing
    PROVE  TurnInv'
<1> DEFINE new == [stage |-> "check", name |-> n, arg |-> v, kind |-> "UNTRACKED"]
<1>1. call'[c] = new
  BY DEF ThenAdd, TurnInv, TypeOK
<1>2. LookupInv(c)' /\ AddInv(c)'
  BY <1>1 DEF LookupInv, AddInv, AtStage, ThenAdd
<1>3. call' = [call EXCEPT ![c] = new] /\ tracker' = tracker /\ store' = store
  BY DEF ThenAdd
<1>4. new.stage \notin {"saving", "saved"}
  OBVIOUS
<1> HIDE DEF new
<1> QED BY <1>2, <1>3, <1>4, ProceedTurn

LEMMA HitFresh ==
    ASSUME SoundTurn, NEW n \in Names, NEW e \in Entries, NEW v \in Args, FreshEntry(n, e),
           e.kind # "UNTRACKED"
    PROVE  /\ FreshEntry(n, TryGetHit(e).entry)
           /\ FreshEntry(n, SetHit(e, v).entry)
           /\ FreshEntry(n, TryRemoveHit(e).entry)
           /\ FreshEntry(n, ContainsHit(e).entry)
           /\ FreshEntry(n, AddOrUpdateHit(e, v).entry)
<1>1. v \in Sized /\ Factory[e.value] \in Sized
  BY DEF SoundTurn, Entries
<1> USE DEF FreshEntry, SizedEntry, Outcome, Entry
<1>2. FreshEntry(n, TryGetHit(e).entry) /\ FreshEntry(n, ContainsHit(e).entry)
  BY DEF TryGetHit, ContainsHit
<1>3. FreshEntry(n, SetHit(e, v).entry)
  BY <1>1 DEF SetHit, Entries, Kinds
<1>4. FreshEntry(n, TryRemoveHit(e).entry)
  BY DEF TryRemoveHit, Untracked
<1>5. FreshEntry(n, AddOrUpdateHit(e, v).entry)
  BY <1>1 DEF AddOrUpdateHit, Entries, Kinds
<1> QED BY <1>2, <1>3, <1>4, <1>5

LEMMA MissFresh ==
    ASSUME SoundTurn, NEW n \in Names, NEW e \in Entries, FreshEntry(n, e),
           store[n] \in Sized \cup {Missing}
    PROVE  /\ FreshEntry(n, TryGetMiss(e, store[n]).entry)
           /\ FreshEntry(n, TryRemoveMiss(e, store[n]).entry)
           /\ FreshEntry(n, ContainsMiss(e, store[n]).entry)
           /\ \A v \in Sized : FreshEntry(n, SetMiss(store[n], v).entry)
           /\ \A v \in Sized : FreshEntry(n, AddOrUpdateMiss(store[n], v).entry)
<1>1. store[n] \in Sized => store[n] \in Values /\ Factory[store[n]] \in Sized
  BY DEF SoundTurn, Values
<1>2. store[n] \in Unsized => store[n] \in Sized
  BY ValueAssumption DEF Values
<1> USE DEF FreshEntry, SizedEntry, Outcome, Entry, ContainsState, TryLoadState
<1>3. FreshEntry(n, TryGetMiss(e, store[n]).entry)
  BY DEF TryGetMiss
<1>4. FreshEntry(n, TryRemoveMiss(e, store[n]).entry)
  BY DEF TryRemoveMiss
<1>5. FreshEntry(n, ContainsMiss(e, store[n]).entry)
  BY DEF ContainsMiss
<1>6. ASSUME NEW v \in Sized
      PROVE  FreshEntry(n, SetMiss(store[n], v).entry)
  BY <1>6 DEF SetMiss
<1>7. ASSUME NEW v \in Sized
      PROVE  FreshEntry(n, AddOrUpdateMiss(store[n], v).entry)
  BY <1>1, <1>2, <1>7 DEF AddOrUpdateMiss
<1> QED BY <1>3, <1>4, <1>5, <1>6, <1>7

LEMMA OperateTurn ==
    ASSUME SoundTurn, TurnInv, TypeOK', NEW c \in Callers, NEW n \in Names, Operate(c, n)
    PROVE  TurnInv'
<1>1. tracker[n] \in Entries /\ FreshEntry(n, tracker[n])
  BY DEF TurnInv, TypeOK, Trackers, AddIsFresh, FreshEntry
<1>2. ASSUME NEW op, Begin(c, op)
      PROVE  NoSave
  BY <1>2 DEF Begin, NoSave, SoundTurn, DisjointCalls
<1>3. ASSUME NEW op, Hit(c, op, n)
      PROVE  NoSave /\ n \in Touches[c] /\ tracker[n].kind # "UNTRACKED"
  BY <1>2, <1>3 DEF Hit, Has
<1>4. ASSUME NEW op \in Ops, NEW v \in ArgsOf(op), Ask(c, op, n, v)
      PROVE  TurnInv'
  <2> DEFINE new == [stage |-> "asked", op |-> op, name |-> n, arg |-> v, raw |-> Missing]
  <2>1. NoSave /\ n \in Touches[c] /\ tracker[n].kind = "UNTRACKED"
    BY <1>2, <1>4 DEF Ask, Has
  <2>2. op \in {"set", "addOrUpdate", "getOrAdd"} => v \in Sized
    BY DEF ArgsOf, SoundTurn
  <2>3. call'[c] = new /\ call' = [call EXCEPT ![c] = new] /\ tracker' = tracker /\ store' = store
    BY <1>4 DEF Ask, TurnInv, TypeOK
  <2>4. LookupInv(c)' /\ AddInv(c)'
    BY <2>1, <2>2, <2>3 DEF LookupInv, AddInv, AtStage
  <2>5. new.stage \notin {"saving", "saved"}
    OBVIOUS
  <2> HIDE DEF new
  <2> QED BY <2>1, <2>3, <2>4, <2>5, ProceedTurn
<1>5. ASSUME NEW v \in Args, TryAddState(c, n, v)
      PROVE  TurnInv'
  BY <1>5 DEF TryAddState, Hit, Begin, SoundTurn
<1>6. CASE \/ TryGetState(c, n)
           \/ TryRemoveState(c, n)
           \/ ContainsStateCall(c, n)
  <2>1. PICK op : Hit(c, op, n)
    BY <1>6 DEF TryGetState, TryRemoveState, ContainsStateCall
  <2>2. NoSave /\ n \in Touches[c]
    BY <1>3, <2>1
  <2>3. /\ FreshEntry(n, TryGetHit(tracker[n]).entry)
        /\ FreshEntry(n, TryRemoveHit(tracker[n]).entry)
        /\ FreshEntry(n, ContainsHit(tracker[n]).entry)
    BY <1>1 DEF FreshEntry, SizedEntry, TryGetHit, TryRemoveHit, ContainsHit, Outcome,
                Entry, Untracked
  <2> QED BY <1>6, <2>2, <2>3, FinishTurn DEF TryGetState, TryRemoveState, ContainsStateCall
<1>7. ASSUME NEW v \in Args, SetState(c, n, v)
      PROVE  TurnInv'
  <2>1. tracker[n].kind # "UNTRACKED" /\ NoSave /\ n \in Touches[c]
    BY <1>3, <1>7 DEF SetState
  <2> QED BY <1>1, <1>7, <2>1, HitFresh, FinishTurn DEF SetState
<1>8. ASSUME NEW v \in Args, AddOrUpdateState(c, n, v)
      PROVE  TurnInv'
  <2>1. tracker[n].kind # "UNTRACKED" /\ NoSave /\ n \in Touches[c]
    BY <1>3, <1>8 DEF AddOrUpdateState
  <2> QED BY <1>1, <1>8, <2>1, HitFresh, FinishTurn DEF AddOrUpdateState
<1>9. ASSUME NEW v \in Args, GetOrAddState(c, n, v)
      PROVE  TurnInv'
  <2>1. tracker[n].kind # "UNTRACKED" /\ NoSave /\ n \in Touches[c]
    BY <1>3, <1>9 DEF GetOrAddState
  <2>2. CASE Finish(c, n, TryGetHit(tracker[n]))
    BY <1>1, <2>1, <2>2, HitFresh, FinishTurn
  <2>3. CASE tracker[n].kind = "REMOVE" /\ ThenAdd(c, n, v)
    BY <2>1, <2>3, ThenAddTurn DEF SoundTurn
  <2> QED BY <1>9, <2>2, <2>3 DEF GetOrAddState
<1> QED BY <1>4, <1>5, <1>6, <1>7, <1>8, <1>9 DEF Operate

LEMMA ResumeTurn ==
    ASSUME SoundTurn, TurnInv, TypeOK', NEW c \in Callers, Resume(c)
    PROVE  TurnInv'
<1> DEFINE n == call[c].name
<1>1. call[c].stage \in {"answered", "check", "put"} =>
         /\ NoSave /\ n \in Names /\ n \in Touches[c]
         /\ tracker[n] \in Entries /\ FreshEntry(n, tracker[n])
         /\ store[n] \in Sized \cup {Missing}
  <2>1. ASSUME call[c].stage \in {"answered", "check", "put"}
        PROVE  n \in Names /\ n \in Touches[c]
    BY <2>1, CallShape DEF TurnInv, CallInv, LookupInv, AddInv, Lookups, Adds
  <2> QED BY <2>1, NoSaveWhileCalling
          DEF TurnInv, TypeOK, Trackers, AddIsFresh, FreshEntry
<1>2. AtStage(c, "answered") =>
         /\ call[c] \in Lookups /\ call[c].raw = store[n] /\ call[c].op \in Ops
         /\ tracker[n].kind = "UNTRACKED"
         /\ call[c].op \in {"set", "addOrUpdate", "getOrAdd"} => call[c].arg \in Sized
  BY CallShape DEF TurnInv, CallInv, LookupInv, AtStage, Lookups
<1>3. call[c].stage \in {"check", "put"} =>
         /\ call[c] \in Adds /\ call[c].arg \in Sized
         /\ tracker[n].kind \in {"UNTRACKED", "REMOVE"}
         /\ tracker[n].kind = "UNTRACKED" => store[n] = Missing
         /\ AtStage(c, "put") => call[c].kind = AddedKind(tracker[n])
  BY CallShape DEF TurnInv, CallInv, AddInv
<1> HIDE DEF n
<1>4. CASE TryAddStateResumes(c)
  BY <1>2, <1>4 DEF TryAddStateResumes, Answered, SoundTurn
<1>5. CASE TryGetStateResumes(c)
  BY <1>1, <1>2, <1>5, MissFresh, FinishTurn DEF TryGetStateResumes, Answered, AtStage, n
<1>6. CASE SetStateResumes(c)
  BY <1>1, <1>2, <1>6, MissFresh, FinishTurn DEF SetStateResumes, Answered, AtStage, n
<1>7. CASE TryRemoveStateResumes(c)
  BY <1>1, <1>2, <1>7, MissFresh, FinishTurn DEF TryRemoveStateResumes, Answered, AtStage, n
<1>8. CASE ContainsStateResumes(c)
  BY <1>1, <1>2, <1>8, MissFresh, FinishTurn DEF ContainsStateResumes, Answered, AtStage, n
<1>9. CASE AddOrUpdateStateResumes(c)
  BY <1>1, <1>2, <1>9, MissFresh, FinishTurn DEF AddOrUpdateStateResumes, Answered, AtStage, n
<1>10. CASE GetOrAddStateResumes(c)
  <2>1. AtStage(c, "answered") /\ call[c].op = "getOrAdd"
    BY <1>10 DEF GetOrAddStateResumes, Answered
  <2>2. CASE Finish(c, n, TryGetMiss(tracker[n], call[c].raw))
    BY <1>1, <1>2, <2>1, <2>2, MissFresh, FinishTurn DEF AtStage
  <2>3. CASE ~TryLoadState(call[c].raw) /\ ThenAdd(c, n, call[c].arg)
    <3>1. store[n] = Missing
      BY <1>1, <1>2, <2>1, <2>3 DEF TryLoadState, AtStage
    <3> QED BY <1>1, <1>2, <2>1, <2>3, <3>1, ThenAddTurn DEF AtStage
  <2> QED BY <1>10, <2>2, <2>3 DEF GetOrAddStateResumes, n
<1>11. CASE IsStateMarkedForRemove(c)
  <2> DEFINE new == [call[c] EXCEPT !.stage = "put", !.kind = AddedKind(tracker[n])]
  <2>1. call[c].stage = "check" /\ call[c] \in Adds
    BY <1>3, <1>11 DEF IsStateMarkedForRemove, AtStage
  <2>2. /\ call' = [call EXCEPT ![c] = new] /\ call'[c] = new
        /\ tracker' = tracker /\ store' = store
    BY <1>11 DEF IsStateMarkedForRemove, TurnInv, TypeOK, n
  <2>3. /\ new.stage = "put" /\ new.name = n /\ new.arg = call[c].arg
        /\ new.kind = AddedKind(tracker[n])
    BY <2>1 DEF Adds, n
  <2> HIDE DEF new
  <2>4. LookupInv(c)' /\ AddInv(c)'
    BY <1>1, <1>3, <2>1, <2>2, <2>3 DEF LookupInv, AddInv, AtStage
  <2> QED BY <1>1, <2>1, <2>2, <2>3, <2>4, ProceedTurn
<1>12. CASE GetOrAddStatePuts(c)
  <2>1. call[c].stage = "put"
    BY <1>12 DEF GetOrAddStatePuts, AtStage
  <2>2. FreshEntry(n, Outcome(Entry(call[c].arg, call[c].kind), call[c].arg).entry)
    BY <1>3, <2>1 DEF FreshEntry, SizedEntry, Outcome, Entry, AddedKind, AtStage
  <2> QED BY <1>1, <1>12, <2>1, <2>2, FinishTurn DEF GetOrAddStatePuts, n
<1> QED BY <1>4, <1>5, <1>6, <1>7, <1>8, <1>9, <1>10, <1>11, <1>12 DEF Resume

\* Every caller is idle, one returns, and no entry of kind ADD is new.
LEMMA ReturnTurn ==
    ASSUME TurnInv, TypeOK', NEW c \in Callers, NEW a, Return(c, a), store' = store,
           \A d \in Callers : d # c => AtStage(d, "idle"),
           \A n \in Names : FreshEntry(n, tracker'[n])
    PROVE  TurnInv'
<1>1. \A d \in Callers : AtStage(d, "idle")'
  BY DEF Return, TurnInv, TypeOK, AtStage, Idle
<1>2. \A d \in Callers : CallInv(d)'
  BY <1>1 DEF CallInv, LookupInv, AddInv, SaveInv, InSave, AtStage
<1> QED BY <1>2 DEF TurnInv, FreshEntry, AddIsFresh

LEMMA PersistTurn ==
    ASSUME SoundTurn, TurnInv, TypeOK', NEW c \in Callers, Persist(c)
    PROVE  TurnInv'
<1>1. \A n \in Names : tracker[n] \in Entries /\ FreshEntry(n, tracker[n])
  BY DEF TurnInv, TypeOK, Trackers, AddIsFresh, FreshEntry
<1>2. \A n \in Names : FreshEntry(n, Untracked)
  BY DEF FreshEntry, SizedEntry, Untracked, Entry
<1>3. ASSUME NEW op, BeginAlone(c, op)
      PROVE  \A d \in Callers : AtStage(d, "idle")
  BY <1>3 DEF BeginAlone, SoundTurn, DisjointCalls
<1>4. CASE ClearCache(c)
  <2>1. \A n \in Names : FreshEntry(n, tracker'[n])
    BY <1>2, <1>4 DEF ClearCache, EmptyTracker
  <2> QED BY <1>3, <1>4, <2>1, ReturnTurn DEF ClearCache
<1>5. CASE SaveStateNothing(c)
  BY <1>1, <1>3, <1>5, ReturnTurn DEF SaveStateNothing
<1>6. CASE SaveState(c)
  <2> DEFINE new == [stage |-> "saving", batch |-> BatchOf(tracker)]
  <2>1. \A d \in Callers : AtStage(d, "idle")
    BY <1>3, <1>6 DEF SaveState
  <2>2. /\ call'[c] = new /\ \A d \in Callers : d # c => call'[d] = call[d]
        /\ tracker' = MarkUnmodified(tracker) /\ store' = store
    BY <1>6 DEF SaveState, TurnInv, TypeOK
  <2>3. \A n \in Names : SizedEntry(new.batch[n])
    BY <1>1, <1>2 DEF BatchOf, FreshEntry
  <2>4. \A n \in Names : tracker'[n].kind \in {"UNTRACKED", "NONE"}
    BY <1>1, <2>2 DEF MarkUnmodified, Entry, Entries, Kinds, Pending
  <2>5. CallInv(c)'
    BY <2>1, <2>2, <2>3, <2>4 DEF CallInv, LookupInv, AddInv, SaveInv, InSave, AtStage
  <2>6. \A d \in Callers : d # c => CallInv(d)'
    BY <2>1, <2>2 DEF CallInv, LookupInv, AddInv, SaveInv, InSave, AtStage
  <2>7. /\ AddIsFresh'
        /\ \A n \in Names : store'[n] \in Sized \cup {Missing} /\ SizedEntry(tracker'[n])
    BY <2>2, <2>4 DEF TurnInv, AddIsFresh, SizedEntry
  <2> QED BY <2>5, <2>6, <2>7 DEF TurnInv
<1>7. CASE SaveStateResumes(c)
  <2>1. \A d \in Callers : d # c => AtStage(d, "idle")
    BY <1>7 DEF SaveStateResumes, TurnInv, CallInv, SaveInv, InSave, AtStage
  <2>2. \A n \in Names : FreshEntry(n, tracker'[n])
    BY <1>1, <1>2, <1>7 DEF SaveStateResumes, DropRemoved
  <2> QED BY <1>7, <2>1, <2>2, ReturnTurn DEF SaveStateResumes
<1> QED BY <1>4, <1>5, <1>6, <1>7 DEF Persist

LEMMA SidecarTurn ==
    ASSUME SoundTurn, TurnInv, TypeOK', NEW c \in Callers, Sidecar(c)
    PROVE  TurnInv'
<1>1. \A n \in Names : FreshEntry(n, tracker[n])
  BY DEF TurnInv, AddIsFresh, FreshEntry
<1>2. CallInv(c) /\ TypeOK
  BY DEF TurnInv
<1>3. InSave(c) => \A d \in Callers : d # c => AtStage(d, "idle")
  BY <1>2 DEF CallInv, SaveInv
<1>4. CASE StateGet(c)
  <2> DEFINE new == [call[c] EXCEPT !.stage = "answered", !.raw = store[call[c].name]]
  <2>1. call[c].stage = "asked" /\ call[c] \in Lookups
    BY <1>2, <1>4, CallShape DEF StateGet, AtStage
  <2>2. /\ call' = [call EXCEPT ![c] = new] /\ call'[c] = new
        /\ tracker' = tracker /\ store' = store
    BY <1>2, <1>4 DEF StateGet, TypeOK
  <2>3. /\ new.stage = "answered" /\ new.name = call[c].name /\ new.arg = call[c].arg
        /\ new.op = call[c].op /\ new.raw = store[call[c].name]
    BY <2>1 DEF Lookups
  <2> HIDE DEF new
  <2>4. LookupInv(c)' /\ AddInv(c)'
    BY <1>2, <2>1, <2>2, <2>3 DEF CallInv, LookupInv, AddInv, AtStage
  <2> QED BY <2>1, <2>2, <2>3, <2>4, NoSaveWhileCalling, ProceedTurn
<1>5. CASE StateGetFails(c)
  <2>1. call[c].stage = "asked" /\ NoSave
    BY <1>5, NoSaveWhileCalling DEF StateGetFails, AtStage
  <2>2. call' = [call EXCEPT ![c] = Idle] /\ tracker' = tracker /\ store' = store
    BY <1>5 DEF StateGetFails, Return
  <2>3. LookupInv(c)' /\ AddInv(c)'
    BY <1>2, <2>2 DEF LookupInv, AddInv, TypeOK, Idle
  <2>4. Idle.stage \notin {"saving", "saved"}
    BY DEF Idle
  <2> QED BY <2>1, <2>2, <2>3, <2>4, ProceedTurn
<1>6. CASE StateTransaction(c)
  <2>1. call[c].stage = "saving" /\ InSave(c) /\ call[c] \in Saves
    BY <1>2, <1>6, CallShape DEF StateTransaction, AtStage, InSave
  <2>2. /\ \A n \in Names : SizedEntry(call[c].batch[n])
        /\ \A n \in Names : tracker[n].kind \in {"UNTRACKED", "NONE"}
    BY <1>2, <2>1 DEF CallInv, SaveInv
  <2>3. /\ call'[c] = [call[c] EXCEPT !.stage = "saved"]
        /\ \A d \in Callers : d # c => call'[d] = call[d]
        /\ tracker' = tracker /\ store' = Commit(store, call[c].batch)
    BY <1>2, <1>6 DEF StateTransaction, TypeOK
  <2>4. call'[c].stage = "saved" /\ call'[c].batch = call[c].batch
    BY <2>1, <2>3 DEF Saves
  <2>5. \A n \in Names : store'[n] \in Sized \cup {Missing}
    BY <2>2, <2>3 DEF Commit, SizedEntry, TurnInv
  <2>6. CallInv(c)'
    BY <1>3, <2>1, <2>2, <2>3, <2>4 DEF CallInv, LookupInv, AddInv, SaveInv, InSave, AtStage
  <2>7. \A d \in Callers : d # c => CallInv(d)'
    BY <1>3, <2>1, <2>3 DEF CallInv, LookupInv, AddInv, SaveInv, InSave, AtStage
  <2> QED BY <2>2, <2>3, <2>5, <2>6, <2>7 DEF TurnInv, AddIsFresh
<1>7. CASE StateTransactionFails(c)
  BY <1>1, <1>3, <1>7, ReturnTurn DEF StateTransactionFails, InSave, AtStage
<1>8. CASE StateTransactionUnacknowledged(c)
  BY <1>1, <1>3, <1>8, ReturnTurn DEF StateTransactionUnacknowledged, InSave, AtStage
<1> QED BY <1>4, <1>5, <1>6, <1>7, <1>8 DEF Sidecar

LEMMA TurnStep ==
    ASSUME SoundTurn
    PROVE  TurnInv /\ [Next]_vars => TurnInv'
<1> SUFFICES ASSUME TurnInv, [Next]_vars
             PROVE  TurnInv'
  OBVIOUS
<1>1. TypeOK'
  BY StepType DEF TurnInv
<1>2. CASE UNCHANGED vars
  BY <1>1, <1>2
  DEF vars, TurnInv, AddIsFresh, CallInv, LookupInv, AddInv, SaveInv, InSave, AtStage
<1>3. ASSUME NEW c \in Callers, NEW n \in Names, Operate(c, n)
      PROVE  TurnInv'
  BY <1>1, <1>3, OperateTurn
<1>4. ASSUME NEW c \in Callers, Resume(c) \/ Persist(c) \/ Sidecar(c)
      PROVE  TurnInv'
  BY <1>1, <1>4, ResumeTurn, PersistTurn, SidecarTurn
<1> QED BY <1>2, <1>3, <1>4 DEF Next

LEMMA TurnInit ==
    ASSUME SoundTurn
    PROVE  Init => TurnInv
<1> SUFFICES ASSUME Init
             PROVE  TurnInv
  OBVIOUS
<1>1. \A n \in Names : tracker[n].kind = "UNTRACKED"
  BY DEF Init, EmptyTracker, Untracked, Entry
<1>2. \A c \in Callers : CallInv(c)
  BY IdleCall DEF Init, AtStage, Idle
<1> QED BY <1>1, <1>2, InitType DEF TurnInv, Init, SoundTurn, AddIsFresh, SizedEntry

\* In a turn whose outstanding calls are on different names, an entry of kind
\* ADD is one the sidecar does not hold, whatever requests and transactions
\* fail: tryRemoveState never forgets a name that is stored.
THEOREM AddsAreFresh ==
    ASSUME SoundTurn
    PROVE  Spec => []AddIsFresh
<1>1. TurnInv => AddIsFresh
  BY DEF TurnInv
<1> QED BY <1>1, TurnInit, TurnStep, PTL DEF Spec
=============================================================================
