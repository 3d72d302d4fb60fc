----------------------- MODULE ActorStateCache_proofs -----------------------
(***************************************************************************)
(* With a sidecar that acknowledges every transaction, the state manager   *)
(* implements the cache of ActorStateCache, for any number of callers,     *)
(* names and values and however lookups fail.                              *)
(***************************************************************************)
EXTENDS ActorStateManager_proofs

-----------------------------------------------------------------------------
(* What the tracker says of the store is true between saves.               *)

\* Transactions are accepted and applied, and their acknowledgement arrives.
ReliableSaves ==
    /\ "commit" \notin Failures /\ "ack" \notin Failures
    /\ {"upsert", "remove"} \subseteq SidecarOps

\* What an entry says of the store by its kind.
RightEntry(n, e) ==
    /\ e.kind \in {"UPDATE", "REMOVE"} => store[n] # Missing
    /\ e.kind = "NONE" => store[n] = e.value

\* What a call will change is an argument callers pass; what a save leaves
\* unmodified is what the store holds once its transaction is applied, apart
\* from the entries it removes last.
RightCall(c) ==
    /\ call[c].stage \in {"asked", "answered"} /\ call[c].op \in {"set", "addOrUpdate", "getOrAdd"}
          => call[c].arg \in Args
    /\ call[c].stage \in {"check", "put"} => call[c].arg \in Args
    /\ AtStage(c, "saving") =>
          \A n \in Names : tracker[n].kind = "NONE" =>
              \/ call[c].batch[n].kind = "REMOVE"
              \/ tracker[n].value = Commit(store, call[c].batch)[n]
    /\ AtStage(c, "saved") =>
          \A n \in Names : tracker[n].kind = "NONE" =>
              call[c].batch[n].kind = "REMOVE" \/ tracker[n].value = store[n]

\* ChangeIsOfStored and CleanIsStored are inductive only together: an
\* unmodified entry becomes a change, and a save makes changes unmodified.
RightInv ==
    /\ NoSave => \A n \in Names : RightEntry(n, tracker[n])
    /\ \A c \in Callers : RightCall(c)

LEMMA RightIdle ==
    ASSUME NEW c \in Callers, AtStage(c, "idle")
    PROVE  RightCall(c)
BY DEF RightCall, AtStage

LEMMA FinishRight ==
    ASSUME TurnInv, RightInv, NoSave, NEW c \in Callers, NEW n \in Names, NEW o,
           RightEntry(n, o.entry), Finish(c, n, o)
    PROVE  RightInv'
<1>1. \A m \in Names : RightEntry(m, tracker[m])'
  BY DEF RightInv, Finish, TurnInv, TypeOK, Trackers, RightEntry
<1>2. RightCall(c)'
  BY RightIdle DEF Finish, Return, TurnInv, TypeOK, AtStage, Idle, RightCall
<1>3. ASSUME NEW d \in Callers, d # c
      PROVE  RightCall(d)'
  <2>1. call'[d] = call[d] /\ ~InSave(d) /\ RightCall(d)
    BY <1>3 DEF Finish, Return, TurnInv, TypeOK, NoSave, RightInv
  <2> QED BY <2>1 DEF RightCall, AtStage, InSave
<1> QED BY <1>1, <1>2, <1>3 DEF RightInv

\* A caller goes on outside a save and touches neither tracker nor store.
LEMMA ProceedRight ==
    ASSUME TurnInv, RightInv, NoSave, NEW c \in Callers, NEW new,
           call' = [call EXCEPT ![c] = new], tracker' = tracker, store' = store,
           new.stage \notin {"saving", "saved"},
           RightCall(c)'
    PROVE  RightInv'
<1>1. \A m \in Names : RightEntry(m, tracker[m])'
  BY DEF RightInv, RightEntry
<1>2. ASSUME NEW d \in Callers, d # c
      PROVE  RightCall(d)'
  <2>1. call'[d] = call[d] /\ ~InSave(d) /\ RightCall(d)
    BY <1>2 DEF TurnInv, TypeOK, NoSave, RightInv
  <2> QED BY <2>1 DEF RightCall, AtStage, InSave
<1> QED BY <1>1, <1>2 DEF RightInv

LEMMA ThenAddRight ==
    ASSUME TurnInv, RightInv, NoSave, NEW c \in Callers, NEW n \in Names,
           NEW v \in Args, ThenAdd(c, n, v)
    PROVE  RightInv'
<1> DEFINE new == [stage |-> "check", name |-> n, arg |-> v, kind |-> "UNTRACKED"]
<1>1. /\ call' = [call EXCEPT ![c] = new] /\ call'[c] = new
      /\ tracker' = tracker /\ store' = store
  BY DEF ThenAdd, TurnInv, TypeOK
<1>2. RightCall(c)'
  BY <1>1 DEF RightCall, AtStage
<1>3. new.stage \notin {"saving", "saved"}
  OBVIOUS
<1> HIDE DEF new
<1> QED BY <1>1, <1>2, <1>3, ProceedRight

LEMMA StoredIsValue ==
    ASSUME TurnInv, NEW n \in Names
    PROVE  /\ store[n] \in Sized \cup {Missing} /\ store[n] \in Values \cup {Missing}
           /\ tracker[n] \in Entries /\ tracker[n].value \in Values
           /\ tracker[n].value # Missing
BY ValueAssumption DEF TurnInv, TypeOK, Trackers, Stores, Entries

LEMMA HitRight ==
    ASSUME TurnInv, NEW n \in Names, RightEntry(n, tracker[n]), Has(tracker, n), NEW v
    PROVE  /\ RightEntry(n, TryGetHit(tracker[n]).entry)
           /\ RightEntry(n, SetHit(tracker[n], v).entry)
           /\ RightEntry(n, TryRemoveHit(tracker[n]).entry)
           /\ RightEntry(n, ContainsHit(tracker[n]).entry)
           /\ RightEntry(n, AddOrUpdateHit(tracker[n], v).entry)
<1> DEFINE e == tracker[n]
<1>1. e.kind \in {"NONE", "ADD", "UPDATE", "REMOVE"} /\ e.value # Missing
  BY StoredIsValue DEF Has, Entries, Kinds
<1>2. RightEntry(n, e)
  OBVIOUS
<1> HIDE DEF e
<1> USE DEF RightEntry, Outcome, Entry
<1>3. RightEntry(n, TryGetHit(e).entry) /\ RightEntry(n, ContainsHit(e).entry)
  BY <1>2 DEF TryGetHit, ContainsHit
<1>4. RightEntry(n, SetHit(e, v).entry)
  BY <1>1, <1>2 DEF SetHit
<1>5. RightEntry(n, TryRemoveHit(e).entry)
  BY <1>1, <1>2 DEF TryRemoveHit, Untracked
<1>6. RightEntry(n, AddOrUpdateHit(e, v).entry)
  BY <1>1, <1>2 DEF AddOrUpdateHit
<1> QED BY <1>3, <1>4, <1>5, <1>6 DEF e

\* The sidecar's answer is what it holds when the operation goes on.
LEMMA MissRight ==
    ASSUME TurnInv, NEW n \in Names, tracker[n].kind = "UNTRACKED", NEW v
    PROVE  /\ RightEntry(n, TryGetMiss(tracker[n], store[n]).entry)
           /\ RightEntry(n, SetMiss(store[n], v).entry)
           /\ RightEntry(n, TryRemoveMiss(tracker[n], store[n]).entry)
           /\ RightEntry(n, ContainsMiss(tracker[n], store[n]).entry)
           /\ RightEntry(n, AddOrUpdateMiss(store[n], v).entry)
<1>1. TryLoadState(store[n]) => store[n] # Missing
  BY ValueAssumption DEF TryLoadState, Values
<1>2. ContainsState(store[n]) => store[n] # Missing
  BY ValueAssumption DEF ContainsState, Values
<1> USE DEF RightEntry, Outcome, Entry
<1>3. RightEntry(n, TryGetMiss(tracker[n], store[n]).entry)
  BY DEF TryGetMiss
<1>4. RightEntry(n, SetMiss(store[n], v).entry)
  BY <1>2 DEF SetMiss
<1>5. RightEntry(n, TryRemoveMiss(tracker[n], store[n]).entry)
  BY <1>2 DEF TryRemoveMiss
<1>6. RightEntry(n, ContainsMiss(tracker[n], store[n]).entry)
  BY DEF ContainsMiss
<1>7. RightEntry(n, AddOrUpdateMiss(store[n], v).entry)
  BY <1>1 DEF AddOrUpdateMiss
<1> QED BY <1>3, <1>4, <1>5, <1>6, <1>7

LEMMA OperateRight ==
    ASSUME SoundTurn, TurnInv, RightInv, NEW c \in Callers, NEW n \in Names, Operate(c, n)
    PROVE  RightInv'
<1>1. ASSUME NEW op, Begin(c, op)
      PROVE  NoSave
  BY <1>1 DEF Begin, NoSave, SoundTurn, DisjointCalls
<1>2. ASSUME NEW op, Hit(c, op, n)
      PROVE  NoSave /\ Has(tracker, n) /\ RightEntry(n, tracker[n])
  BY <1>1, <1>2 DEF Hit, RightInv
<1>3. ASSUME NEW op \in Ops, NEW v \in ArgsOf(op), Ask(c, op, n, v)
      PROVE  RightInv'
  <2> DEFINE new == [stage |-> "asked", op |-> op, name |-> n, arg |-> v, raw |-> Missing]
  <2>1. NoSave
    BY <1>1, <1>3 DEF Ask
  <2>2. /\ call' = [call EXCEPT ![c] = new] /\ call'[c] = new
        /\ tracker' = tracker /\ store' = store
    BY <1>3 DEF Ask, TurnInv, TypeOK
  <2>3. op \in {"set", "addOrUpdate", "getOrAdd"} => v \in Args
    BY DEF ArgsOf
  <2>4. RightCall(c)' /\ new.stage \notin {"saving", "saved"}
    BY <2>2, <2>3 DEF RightCall, AtStage
  <2> HIDE DEF new
  <2> QED BY <2>1, <2>2, <2>4, ProceedRight
<1>4. ASSUME NEW v \in Args, TryAddState(c, n, v)
      PROVE  RightInv'
  BY <1>4 DEF TryAddState, Hit, Begin, SoundTurn
<1>5. CASE TryGetState(c, n)
  BY <1>2, <1>5, HitRight, FinishRight DEF TryGetState
<1>6. ASSUME NEW v \in Args, SetState(c, n, v)
      PROVE  RightInv'
  BY <1>2, <1>6, HitRight, FinishRight DEF SetState
<1>7. CASE TryRemoveState(c, n)
  BY <1>2, <1>7, HitRight, FinishRight DEF TryRemoveState
<1>8. CASE ContainsStateCall(c, n)
  BY <1>2, <1>8, HitRight, FinishRight DEF ContainsStateCall
<1>9. ASSUME NEW v \in Args, AddOrUpdateState(c, n, v)
      PROVE  RightInv'
  BY <1>2, <1>9, HitRight, FinishRight DEF AddOrUpdateState
<1>10. ASSUME NEW v \in Args, GetOrAddState(c, n, v)
       PROVE  RightInv'
  <2>1. NoSave /\ Has(tracker, n) /\ RightEntry(n, tracker[n])
    BY <1>2, <1>10 DEF GetOrAddState
  <2>2. CASE Finish(c, n, TryGetHit(tracker[n]))
    BY <2>1, <2>2, HitRight, FinishRight
  <2>3. CASE ThenAdd(c, n, v)
    BY <2>1, <2>3, ThenAddRight
  <2> QED BY <1>10, <2>2, <2>3 DEF GetOrAddState
<1> QED BY <1>3, <1>4, <1>5, <1>6, <1>7, <1>8, <1>9, <1>10 DEF Operate

\* What TurnInv and RightInv say of a call that is about to go on.
LEMMA AnsweredCall ==
    ASSUME TurnInv, RightInv, NEW c \in Callers, AtStage(c, "answered")
    PROVE  /\ NoSave /\ call[c] \in Lookups /\ call[c].name \in Names
           /\ call[c].raw = store[call[c].name]
           /\ tracker[call[c].name].kind = "UNTRACKED"
           /\ call[c].op \in {"set", "addOrUpdate", "getOrAdd"} => call[c].arg \in Args
<1>1. call[c] \in Lookups /\ NoSave
  BY CallShape, NoSaveWhileCalling DEF TurnInv, AtStage
<1> QED BY <1>1 DEF TurnInv, CallInv, LookupInv, RightInv, RightCall, AtStage, Lookups

LEMMA AddingCall ==
    ASSUME TurnInv, RightInv, NEW c \in Callers, call[c].stage \in {"check", "put"}
    PROVE  /\ NoSave /\ call[c] \in Adds /\ call[c].name \in Names /\ call[c].arg \in Args
           /\ tracker[call[c].name].kind \in {"UNTRACKED", "REMOVE"}
           /\ tracker[call[c].name].kind = "UNTRACKED" => store[call[c].name] = Missing
           /\ AtStage(c, "put") => call[c].kind = AddedKind(tracker[call[c].name])
<1>1. call[c] \in Adds /\ NoSave
  BY CallShape, NoSaveWhileCalling DEF TurnInv
<1> QED BY <1>1 DEF TurnInv, CallInv, AddInv, RightInv, RightCall, Adds

LEMMA ResumeRight ==
    ASSUME SoundTurn, TurnInv, RightInv, NEW c \in Callers, Resume(c)
    PROVE  RightInv'
<1> DEFINE n == call[c].name
<1>1. CASE TryAddStateResumes(c)
  BY <1>1, AnsweredCall DEF TryAddStateResumes, Answered, SoundTurn, Lookups
<1>2. CASE TryGetStateResumes(c)
  BY <1>2, AnsweredCall, MissRight, FinishRight DEF TryGetStateResumes, Answered
<1>3. CASE SetStateResumes(c)
  BY <1>3, AnsweredCall, MissRight, FinishRight DEF SetStateResumes, Answered
<1>4. CASE TryRemoveStateResumes(c)
  BY <1>4, AnsweredCall, MissRight, FinishRight DEF TryRemoveStateResumes, Answered
<1>5. CASE ContainsStateResumes(c)
  BY <1>5, AnsweredCall, MissRight, FinishRight DEF ContainsStateResumes, Answered
<1>6. CASE AddOrUpdateStateResumes(c)
  BY <1>6, AnsweredCall, MissRight, FinishRight DEF AddOrUpdateStateResumes, Answered
<1>7. CASE GetOrAddStateResumes(c)
  <2>1. AtStage(c, "answered") /\ call[c].op = "getOrAdd"
    BY <1>7 DEF GetOrAddStateResumes, Answered
  <2>2. CASE Finish(c, n, TryGetMiss(tracker[n], call[c].raw))
    BY <2>1, <2>2, AnsweredCall, MissRight, FinishRight
  <2>3. CASE ThenAdd(c, n, call[c].arg)
    BY <2>1, <2>3, AnsweredCall, ThenAddRight
  <2> QED BY <1>7, <2>2, <2>3 DEF GetOrAddStateResumes
<1>8. CASE IsStateMarkedForRemove(c)
  <2> DEFINE new == [call[c] EXCEPT !.stage = "put", !.kind = AddedKind(tracker[n])]
  <2>1. call[c].stage = "check"
    BY <1>8 DEF IsStateMarkedForRemove, AtStage
  <2>2. /\ call' = [call EXCEPT ![c] = new] /\ call'[c] = new
        /\ tracker' = tracker /\ store' = store
    BY <1>8 DEF IsStateMarkedForRemove, TurnInv, TypeOK
  <2>3. new.stage = "put" /\ new.arg \in Args
    BY <2>1, AddingCall DEF Adds
  <2> HIDE DEF new
  <2>4. RightCall(c)'
    BY <2>2, <2>3 DEF RightCall, AtStage
  <2> QED BY <2>1, <2>2, <2>3, <2>4, AddingCall, ProceedRight
<1>9. CASE GetOrAddStatePuts(c)
  <2>1. call[c].stage = "put" /\ AtStage(c, "put")
    BY <1>9 DEF GetOrAddStatePuts, AtStage
  <2>2. RightEntry(n, tracker[n])
    BY <2>1, AddingCall DEF RightInv
  <2>3. RightEntry(n, Outcome(Entry(call[c].arg, call[c].kind), call[c].arg).entry)
    BY <2>1, <2>2, AddingCall DEF RightEntry, Outcome, Entry, AddedKind
  <2> QED BY <1>9, <2>1, <2>3, AddingCall, FinishRight DEF GetOrAddStatePuts
<1> QED BY <1>1, <1>2, <1>3, <1>4, <1>5, <1>6, <1>7, <1>8, <1>9 DEF Resume

\* Every caller is idle but one, which returns.
LEMMA ReturnRight ==
    ASSUME TurnInv, NEW c \in Callers, NEW a, Return(c, a), store' = store,
           \A d \in Callers : d # c => AtStage(d, "idle"),
           \A n \in Names : RightEntry(n, tracker'[n])
    PROVE  RightInv'
<1>1. \A d \in Callers : AtStage(d, "idle")'
  BY DEF Return, TurnInv, TypeOK, AtStage, Idle
<1>2. \A d \in Callers : RightCall(d)'
  BY <1>1 DEF RightCall, AtStage
<1> QED BY <1>2 DEF RightInv, RightEntry

LEMMA PersistRight ==
    ASSUME SoundTurn, TurnInv, RightInv, NEW c \in Callers, Persist(c)
    PROVE  RightInv'
<1>1. ASSUME NEW op, BeginAlone(c, op)
      PROVE  /\ \A d \in Callers : AtStage(d, "idle")
             /\ \A n \in Names : RightEntry(n, tracker[n])
  BY <1>1 DEF BeginAlone, SoundTurn, DisjointCalls, RightInv, NoSave, InSave, AtStage
<1>2. \A n \in Names : RightEntry(n, Untracked)
  BY DEF RightEntry, Untracked, Entry
<1>3. CASE ClearCache(c)
  <2>1. \A n \in Names : RightEntry(n, tracker'[n])
    BY <1>2, <1>3 DEF ClearCache, EmptyTracker
  <2> QED BY <1>1, <1>3, <2>1, ReturnRight DEF ClearCache
<1>4. CASE SaveStateNothing(c)
  BY <1>1, <1>4, ReturnRight DEF SaveStateNothing
<1>5. CASE SaveState(c)
  <2> DEFINE batch == BatchOf(tracker)
  <2>1. \A d \in Callers : AtStage(d, "idle")
    BY <1>1, <1>5 DEF SaveState
  <2>2. /\ call'[c] = [stage |-> "saving", batch |-> batch]
        /\ \A d \in Callers : d # c => call'[d] = call[d]
        /\ tracker' = MarkUnmodified(tracker) /\ store' = store
    BY <1>5 DEF SaveState, TurnInv, TypeOK
  <2>3. ASSUME NEW n \in Names, tracker'[n].kind = "NONE"
        PROVE  batch[n].kind = "REMOVE" \/ tracker'[n].value = Commit(store, batch)[n]
    <3>1. tracker \in Trackers /\ \A m \in Names : tracker[m].kind = "NONE" =>
                                     tracker[m].value = store[m]
      BY <1>1, <1>5 DEF SaveState, RightEntry, TurnInv, TypeOK
    <3> QED BY <2>2, <2>3, <3>1, SaveMarks
  <2>4. RightCall(c)'
    BY <2>2, <2>3 DEF RightCall, AtStage
  <2>5. ~NoSave'
    BY <2>2 DEF NoSave, InSave
  <2>6. \A d \in Callers : d # c => RightCall(d)'
    BY <2>1, <2>2 DEF RightCall, AtStage
  <2> QED BY <2>4, <2>5, <2>6 DEF RightInv
<1>6. CASE SaveStateResumes(c)
  <2>1. /\ \A d \in Callers : d # c => AtStage(d, "idle")
        /\ \A n \in Names : tracker[n].kind \in {"UNTRACKED", "NONE"}
    BY <1>6 DEF SaveStateResumes, TurnInv, CallInv, SaveInv, InSave, AtStage
  <2>2. ASSUME NEW n \in Names, call[c].batch[n].kind # "REMOVE"
        PROVE  RightEntry(n, tracker[n])
    BY <1>6, <2>1, <2>2 DEF SaveStateResumes, RightInv, RightCall, RightEntry
  <2>3. \A n \in Names : RightEntry(n, tracker'[n])
    BY <1>2, <1>6, <2>2 DEF SaveStateResumes, DropRemoved
  <2> QED BY <1>6, <2>1, <2>3, ReturnRight DEF SaveStateResumes
<1> QED BY <1>3, <1>4, <1>5, <1>6 DEF Persist

LEMMA SidecarRight ==
    ASSUME ReliableSaves, TurnInv, RightInv, NEW c \in Callers, Sidecar(c)
    PROVE  RightInv'
<1>1. TypeOK
  BY DEF TurnInv
<1>2. CASE StateGet(c)
  <2> DEFINE new == [call[c] EXCEPT !.stage = "answered", !.raw = store[call[c].name]]
  <2>1. call[c].stage = "asked" /\ call[c] \in Lookups /\ NoSave
    BY <1>1, <1>2, CallShape, NoSaveWhileCalling DEF StateGet, AtStage
  <2>2. /\ call' = [call EXCEPT ![c] = new] /\ call'[c] = new
        /\ tracker' = tracker /\ store' = store
    BY <1>1, <1>2 DEF StateGet, TypeOK
  <2>3. new.stage = "answered" /\ new.arg = call[c].arg /\ new.op = call[c].op
    BY <2>1 DEF Lookups
  <2> HIDE DEF new
  <2>4. RightCall(c)'
    BY <2>1, <2>2, <2>3 DEF RightInv, RightCall, AtStage
  <2> QED BY <2>1, <2>2, <2>3, <2>4, ProceedRight
<1>3. CASE StateGetFails(c)
  <2>1. NoSave /\ call' = [call EXCEPT ![c] = Idle] /\ tracker' = tracker /\ store' = store
    BY <1>3, NoSaveWhileCalling DEF StateGetFails, AtStage, Return
  <2>2. RightCall(c)' /\ Idle.stage \notin {"saving", "saved"}
    BY <1>1, <2>1, RightIdle DEF RightCall, AtStage, Idle, TypeOK
  <2> QED BY <2>1, <2>2, ProceedRight
<1>4. CASE StateTransaction(c)
  <2>1. call[c] \in Saves /\ InSave(c)
    BY <1>1, <1>4, CallShape DEF StateTransaction, AtStage, InSave
  <2>2. \A d \in Callers : d # c => AtStage(d, "idle")
    BY <2>1 DEF TurnInv, CallInv, SaveInv
  <2>3. /\ call'[c] = [call[c] EXCEPT !.stage = "saved"]
        /\ \A d \in Callers : d # c => call'[d] = call[d]
        /\ tracker' = tracker /\ store' = Commit(store, call[c].batch)
    BY <1>1, <1>4 DEF StateTransaction, TypeOK
  <2>4. call'[c].stage = "saved" /\ call'[c].batch = call[c].batch
    BY <2>1, <2>3 DEF Saves
  <2>5. RightCall(c)' /\ ~NoSave'
    BY <1>4, <2>3, <2>4 DEF StateTransaction, RightInv, RightCall, AtStage, NoSave, InSave
  <2>6. \A d \in Callers : d # c => RightCall(d)'
    BY <2>2, <2>3 DEF RightCall, AtStage
  <2> QED BY <2>5, <2>6 DEF RightInv
<1>5. CASE StateTransactionFails(c)
  BY <1>5 DEF StateTransactionFails, ReliableSaves, Accepts, Operations, Operation
<1>6. CASE StateTransactionUnacknowledged(c)
  BY <1>6 DEF StateTransactionUnacknowledged, ReliableSaves
<1> QED BY <1>2, <1>3, <1>4, <1>5, <1>6 DEF Sidecar

LEMMA RightStep ==
    ASSUME SoundTurn, ReliableSaves
    PROVE  TurnInv /\ RightInv /\ [Next]_vars => RightInv'
<1> SUFFICES ASSUME TurnInv, RightInv, [Next]_vars
             PROVE  RightInv'
  OBVIOUS
<1>1. CASE UNCHANGED vars
  BY <1>1 DEF vars, RightInv, RightEntry, RightCall, NoSave, InSave, AtStage
<1>2. ASSUME NEW c \in Callers, NEW n \in Names, Operate(c, n)
      PROVE  RightInv'
  BY <1>2, OperateRight
<1>3. ASSUME NEW c \in Callers, Resume(c) \/ Persist(c) \/ Sidecar(c)
      PROVE  RightInv'
  BY <1>3, ResumeRight, PersistRight, SidecarRight
<1> QED BY <1>1, <1>2, <1>3 DEF Next

LEMMA RightInit == Init => RightInv
BY RightIdle DEF Init, RightInv, RightEntry, RightCall, EmptyTracker, Untracked, Entry,
                 AtStage, Idle

\* Outside a save the entries say what the store holds, and during a save
\* none of them is a change.
LEMMA RightMeans ==
    TurnInv /\ RightInv => ChangeIsOfStored /\ CleanIsStored
<1> SUFFICES ASSUME TurnInv, RightInv
             PROVE  ChangeIsOfStored /\ CleanIsStored
  OBVIOUS
<1>1. CASE NoSave
  BY <1>1 DEF RightInv, RightEntry, ChangeIsOfStored, CleanIsStored
<1>2. CASE ~NoSave
  BY <1>2 DEF NoSave, TurnInv, CallInv, SaveInv, ChangeIsOfStored, CleanIsStored
<1> QED BY <1>1, <1>2

\* In a turn whose transactions are applied and acknowledged, an entry of
\* kind UPDATE or REMOVE is of a name the sidecar holds: the kind was chosen
\* from an answer that no other call of the turn made stale.
THEOREM ChangesAreOfStored ==
    ASSUME SoundTurn, ReliableSaves
    PROVE  Spec => []ChangeIsOfStored
BY TurnInit, TurnStep, RightInit, RightStep, RightMeans, PTL DEF Spec

\* In such a turn an unmodified entry holds what the sidecar holds, through
\* any sequence of calls, saves and clears and whatever lookups fail.
THEOREM CleanAreStored ==
    ASSUME SoundTurn, ReliableSaves
    PROVE  Spec => []CleanIsStored
BY TurnInit, TurnStep, RightInit, RightStep, RightMeans, PTL DEF Spec

-----------------------------------------------------------------------------
(* The manager implements the abstract cache.                              *)

\* The marks of a pending change are not values callers can pass.
MarksAreNoValues == "removed" \notin Values /\ "unchanged" \notin Values

\* The change an entry stands for.
Pend(e) ==
    IF e.kind \in {"ADD", "UPDATE"} THEN e.value
    ELSE IF e.kind = "REMOVE" THEN "removed" ELSE "unchanged"

NoCarrier == \A d \in Callers : ~AtStage(d, "saving")

PendingMap == [m \in Names |-> PendingValue(m)]

\* Without a transaction on its way the tracker holds the changes; with one
\* the transaction does.
LEMMA PendingIs ==
    /\ NoCarrier => \A n \in Names : PendingValue(n) = Pend(tracker[n])
    /\ NoCarrier' => \A n \in Names : PendingValue(n)' = Pend(tracker'[n])
<1>1. ASSUME NoCarrier, NEW n \in Names
      PROVE  PendingValue(n) = Pend(tracker[n])
  <2>1. {d \in Callers : AtStage(d, "saving")} = {}
    BY <1>1 DEF NoCarrier
  <2> QED BY <2>1 DEF PendingValue, Pend
<1>2. ASSUME NoCarrier', NEW n \in Names
      PROVE  PendingValue(n)' = Pend(tracker'[n])
  <2>1. {d \in Callers : AtStage(d, "saving")'} = {}
    BY <1>2 DEF NoCarrier
  <2> QED BY <2>1 DEF PendingValue, Pend, AtStage
<1> QED BY <1>1, <1>2

LEMMA CarriedIs ==
    ASSUME NEW c \in Callers, NEW n \in Names
    PROVE  /\ (AtStage(c, "saving") /\ \A d \in Callers : d # c => ~AtStage(d, "saving")) =>
                  PendingValue(n) = Pend(call[c].batch[n])
           /\ (AtStage(c, "saving") /\ \A d \in Callers : d # c => ~AtStage(d, "saving"))' =>
                  PendingValue(n)' = Pend(call'[c].batch[n])
<1>1. ASSUME AtStage(c, "saving"), \A d \in Callers : d # c => ~AtStage(d, "saving")
      PROVE  PendingValue(n) = Pend(call[c].batch[n])
  <2>1. {d \in Callers : AtStage(d, "saving")} = {c}
    BY <1>1
  <2>2. (CHOOSE d \in {c} : TRUE) = c
    OBVIOUS
  <2> QED BY <2>1, <2>2 DEF PendingValue, Pend
<1>2. ASSUME AtStage(c, "saving")', \A d \in Callers : d # c => ~AtStage(d, "saving")'
      PROVE  PendingValue(n)' = Pend(call'[c].batch[n])
  <2>1. {d \in Callers : AtStage(d, "saving")'} = {c}
    BY <1>2
  <2>2. (CHOOSE d \in {c} : TRUE) = c
    OBVIOUS
  <2> QED BY <2>1, <2>2 DEF PendingValue, Pend
<1> QED BY <1>1, <1>2

\* What the abstract cache reads under a name, by the kind of its entry.
LEMMA OverlaidIs ==
    ASSUME MarksAreNoValues, TurnInv, RightInv, NoSave, NEW n \in Names
    PROVE  /\ tracker[n].kind = "UNTRACKED" => Cache!Overlaid(n) = store[n]
           /\ tracker[n].kind \in {"NONE", "ADD", "UPDATE"} =>
                 Cache!Overlaid(n) = tracker[n].value /\ Cache!Overlaid(n) # Missing
           /\ tracker[n].kind = "REMOVE" => Cache!Overlaid(n) = Missing
<1>1. PendingMap[n] = Pend(tracker[n])
  BY PendingIs DEF PendingMap, NoCarrier, NoSave, InSave, AtStage
<1>2. Pend(tracker[n]) \in Values => Pend(tracker[n]) \notin {"removed", "unchanged"}
  BY DEF MarksAreNoValues
<1>3. tracker[n].kind = "NONE" => store[n] = tracker[n].value
  BY DEF RightInv, RightEntry
<1>4. Cache!Overlaid(n) = CASE PendingMap[n] = "unchanged" -> store[n]
                            [] PendingMap[n] = "removed"   -> Missing
                            [] OTHER                       -> PendingMap[n]
  BY DEF Cache!Overlaid, PendingMap
<1> QED BY <1>1, <1>2, <1>3, <1>4, StoredIsValue DEF Pend

\* A call that ends outside a save changes what its entry stands for.
LEMMA FinishCache ==
    ASSUME TurnInv, NoSave, NEW c \in Callers, NEW n \in Names, NEW o, Finish(c, n, o)
    PROVE  /\ Cache!Change(n, Pend(o.entry)) /\ Cache!Answer(c, o.answer)
           /\ Pend(o.entry) = Pend(tracker[n]) => Cache!Keep
<1>1. /\ tracker' = [tracker EXCEPT ![n] = o.entry]
      /\ store' = store /\ answer' = [answer EXCEPT ![c] = o.answer]
  BY DEF Finish, Return
<1>2. NoCarrier /\ NoCarrier'
  BY DEF NoCarrier, NoSave, InSave, AtStage, Finish, Return, TurnInv, TypeOK, Idle
<1>3. \A m \in Names : PendingValue(m)' = IF m = n THEN Pend(o.entry) ELSE PendingValue(m)
  BY <1>1, <1>2, PendingIs DEF TurnInv, TypeOK, Trackers
<1>4. PendingMap' = [PendingMap EXCEPT ![n] = Pend(o.entry)]
  BY <1>3 DEF PendingMap
<1>5. Pend(o.entry) = Pend(tracker[n]) => PendingMap' = PendingMap
  BY <1>2, <1>3, PendingIs DEF PendingMap
<1> QED BY <1>1, <1>4, <1>5 DEF Cache!Change, Cache!Answer, Cache!Keep, PendingMap

\* A call that goes on or returns without touching tracker and store leaves
\* the overlay alone.
LEMMA KeepCache ==
    ASSUME NoCarrier, NoCarrier', tracker' = tracker, store' = store
    PROVE  Cache!Keep
<1>1. PendingMap' = PendingMap
  BY PendingIs DEF PendingMap
<1> QED BY <1>1 DEF Cache!Keep, PendingMap

\* A name that is tracked: each operation does to the overlay what the
\* abstract one does.
LEMMA HitCache ==
    ASSUME MarksAreNoValues, SoundTurn, TurnInv, RightInv, NoSave,
           NEW c \in Callers, NEW n \in Names, Has(tracker, n)
    PROVE  /\ Finish(c, n, TryGetHit(tracker[n])) => Cache!Get(c, n)
           /\ Finish(c, n, ContainsHit(tracker[n])) => Cache!Contains(c, n)
           /\ Finish(c, n, TryRemoveHit(tracker[n])) => Cache!Remove(c, n)
           /\ \A v \in Args : Finish(c, n, SetHit(tracker[n], v)) => Cache!Set(c, n, v)
           /\ \A v \in Args : Finish(c, n, AddOrUpdateHit(tracker[n], v)) =>
                 Cache!AddOrUpdate(c, n, v)
<1> DEFINE e == tracker[n]
<1>1. /\ e.kind \in {"NONE", "ADD", "UPDATE", "REMOVE"} /\ e \in Entries
      /\ e.kind # "REMOVE" => Cache!Overlaid(n) = e.value /\ Cache!Overlaid(n) # Missing
      /\ e.kind = "REMOVE" => Cache!Overlaid(n) = Missing
      /\ e.kind = "ADD" => store[n] = Missing
      /\ e.kind \in {"NONE", "UPDATE"} => store[n] # Missing
  BY OverlaidIs, StoredIsValue
  DEF Has, Entries, Kinds, TurnInv, AddIsFresh, RightInv, RightEntry
<1>2. \A o : Finish(c, n, o) => /\ Cache!Change(n, Pend(o.entry)) /\ Cache!Answer(c, o.answer)
                                /\ Pend(o.entry) = Pend(e) => Cache!Keep
  BY FinishCache
<1> HIDE DEF e
<1> USE DEF Outcome, Entry, Cache!Present
<1>3. Finish(c, n, TryGetHit(e)) => Cache!Get(c, n)
  BY <1>1, <1>2 DEF TryGetHit, Cache!Get
<1>4. Finish(c, n, ContainsHit(e)) => Cache!Contains(c, n)
  BY <1>1, <1>2 DEF ContainsHit, Cache!Contains
<1>5. Finish(c, n, TryRemoveHit(e)) => Cache!Remove(c, n)
  <2>1. CASE e.kind = "REMOVE"
    <3>1. TryRemoveHit(e).entry = e /\ TryRemoveHit(e).answer = "no"
      BY <2>1 DEF TryRemoveHit
    <3> QED BY <1>1, <1>2, <2>1, <3>1 DEF Cache!Remove
  <2>2. CASE e.kind = "ADD"
    <3>1. Pend(TryRemoveHit(e).entry) = "unchanged" /\ TryRemoveHit(e).answer = "yes"
      BY <2>2 DEF TryRemoveHit, Untracked, Pend
    <3> QED BY <1>1, <1>2, <2>2, <3>1 DEF Cache!Remove
  <2>3. CASE e.kind \in {"NONE", "UPDATE"}
    <3>1. Pend(TryRemoveHit(e).entry) = "removed" /\ TryRemoveHit(e).answer = "yes"
      BY <2>3 DEF TryRemoveHit, Pend
    <3> QED BY <1>1, <1>2, <2>3, <3>1 DEF Cache!Remove
  <2> QED BY <1>1, <2>1, <2>2, <2>3
<1>6. ASSUME NEW v \in Args
      PROVE  Finish(c, n, SetHit(e, v)) => Cache!Set(c, n, v)
  <2>1. Pend(SetHit(e, v).entry) = v /\ SetHit(e, v).answer = "yes"
    BY <1>1 DEF SetHit, Pend
  <2> QED BY <1>2, <2>1 DEF Cache!Set
<1>7. ASSUME NEW v \in Args
      PROVE  Finish(c, n, AddOrUpdateHit(e, v)) => Cache!AddOrUpdate(c, n, v)
  <2> DEFINE new == IF Cache!Present(n) THEN Factory[Cache!Overlaid(n)] ELSE v
  <2>1. Pend(AddOrUpdateHit(e, v).entry) = new /\ AddOrUpdateHit(e, v).answer = new
    BY <1>1 DEF AddOrUpdateHit, Pend
  <2> QED BY <1>2, <2>1 DEF Cache!AddOrUpdate
<1> QED BY <1>3, <1>4, <1>5, <1>6, <1>7 DEF e

\* A name that is not tracked, once the sidecar has answered.
LEMMA MissCache ==
    ASSUME MarksAreNoValues, SoundTurn, TurnInv, RightInv, NoSave,
           NEW c \in Callers, NEW n \in Names, tracker[n].kind = "UNTRACKED"
    PROVE  /\ Finish(c, n, TryGetMiss(tracker[n], store[n])) => Cache!Get(c, n)
           /\ Finish(c, n, ContainsMiss(tracker[n], store[n])) => Cache!Contains(c, n)
           /\ Finish(c, n, TryRemoveMiss(tracker[n], store[n])) => Cache!Remove(c, n)
           /\ \A v \in Args : Finish(c, n, SetMiss(store[n], v)) => Cache!Set(c, n, v)
           /\ \A v \in Args : Finish(c, n, AddOrUpdateMiss(store[n], v)) =>
                 Cache!AddOrUpdate(c, n, v)
<1> DEFINE e == tracker[n]
           raw == store[n]
<1>1. /\ Cache!Overlaid(n) = raw /\ Pend(e) = "unchanged"
      /\ ContainsState(raw) <=> raw # Missing
      /\ TryLoadState(raw) <=> raw # Missing
  BY OverlaidIs, StoredIsValue, ValueAssumption DEF Pend, ContainsState, TryLoadState, Values
<1>2. \A o : Finish(c, n, o) => /\ Cache!Change(n, Pend(o.entry)) /\ Cache!Answer(c, o.answer)
                                /\ Pend(o.entry) = Pend(e) => Cache!Keep
  BY FinishCache
<1> HIDE DEF e
<1> USE DEF Outcome, Entry, Cache!Present
<1>3. Finish(c, n, TryGetMiss(e, raw)) => Cache!Get(c, n)
  <2>1. /\ Pend(TryGetMiss(e, raw).entry) = Pend(e)
        /\ TryGetMiss(e, raw).answer = IF raw # Missing THEN raw ELSE "no"
    BY <1>1 DEF TryGetMiss, Pend
  <2> QED BY <1>1, <1>2, <2>1 DEF Cache!Get
<1>4. Finish(c, n, ContainsMiss(e, raw)) => Cache!Contains(c, n)
  BY <1>1, <1>2 DEF ContainsMiss, Cache!Contains
<1>5. Finish(c, n, TryRemoveMiss(e, raw)) => Cache!Remove(c, n)
  <2>1. CASE raw # Missing
    <3>1. Pend(TryRemoveMiss(e, raw).entry) = "removed" /\ TryRemoveMiss(e, raw).answer = "yes"
      BY <1>1, <2>1 DEF TryRemoveMiss, Pend
    <3> QED BY <1>1, <1>2, <2>1, <3>1 DEF Cache!Remove
  <2>2. CASE raw = Missing
    <3>1. TryRemoveMiss(e, raw).entry = e /\ TryRemoveMiss(e, raw).answer = "no"
      BY <1>1, <2>2 DEF TryRemoveMiss
    <3> QED BY <1>1, <1>2, <2>2, <3>1 DEF Cache!Remove
  <2> QED BY <2>1, <2>2
<1>6. ASSUME NEW v \in Args
      PROVE  Finish(c, n, SetMiss(raw, v)) => Cache!Set(c, n, v)
  <2>1. Pend(SetMiss(raw, v).entry) = v /\ SetMiss(raw, v).answer = "yes"
    BY DEF SetMiss, Pend
  <2> QED BY <1>2, <2>1 DEF Cache!Set
<1>7. ASSUME NEW v \in Args
      PROVE  Finish(c, n, AddOrUpdateMiss(raw, v)) => Cache!AddOrUpdate(c, n, v)
  <2> DEFINE new == IF Cache!Present(n) THEN Factory[Cache!Overlaid(n)] ELSE v
  <2>1. Pend(AddOrUpdateMiss(raw, v).entry) = new /\ AddOrUpdateMiss(raw, v).answer = new
    BY <1>1 DEF AddOrUpdateMiss, Pend
  <2> QED BY <1>2, <2>1 DEF Cache!AddOrUpdate
<1> QED BY <1>3, <1>4, <1>5, <1>6, <1>7 DEF e

\* The step is one of the abstract cache, or none that it can see.
CacheStep == Cache!Next \/ (Cache!Keep /\ answer' = answer)

LEMMA OperateCache ==
    ASSUME MarksAreNoValues, SoundTurn, TurnInv, RightInv,
           NEW c \in Callers, NEW n \in Names, Operate(c, n)
    PROVE  CacheStep
<1>1. ASSUME NEW op, Hit(c, op, n)
      PROVE  NoSave /\ Has(tracker, n)
  BY <1>1 DEF Hit, Begin, NoSave, SoundTurn, DisjointCalls
<1>2. ASSUME NEW op \in Ops, NEW v \in ArgsOf(op), Ask(c, op, n, v)
      PROVE  CacheStep
  <2>1. NoCarrier /\ NoCarrier'
    BY <1>2 DEF Ask, Begin, SoundTurn, DisjointCalls, NoCarrier, InSave, AtStage, TurnInv, TypeOK
  <2> QED BY <1>2, <2>1, KeepCache DEF Ask, CacheStep
<1>3. ASSUME NEW v \in Args, TryAddState(c, n, v)
      PROVE  CacheStep
  BY <1>3 DEF TryAddState, Hit, Begin, SoundTurn
<1>4. CASE TryGetState(c, n)
  <2>1. Cache!Get(c, n)
    BY <1>1, <1>4, HitCache DEF TryGetState
  <2> QED BY <2>1 DEF CacheStep, Cache!Next
<1>5. ASSUME NEW v \in Args, SetState(c, n, v)
      PROVE  CacheStep
  <2>1. Cache!Set(c, n, v)
    BY <1>1, <1>5, HitCache DEF SetState
  <2> QED BY <2>1 DEF CacheStep, Cache!Next
<1>6. CASE TryRemoveState(c, n)
  <2>1. Cache!Remove(c, n)
    BY <1>1, <1>6, HitCache DEF TryRemoveState
  <2> QED BY <2>1 DEF CacheStep, Cache!Next
<1>7. CASE ContainsStateCall(c, n)
  <2>1. Cache!Contains(c, n)
    BY <1>1, <1>7, HitCache DEF ContainsStateCall
  <2> QED BY <2>1 DEF CacheStep, Cache!Next
<1>8. ASSUME NEW v \in Args, AddOrUpdateState(c, n, v)
      PROVE  CacheStep
  <2>1. Cache!AddOrUpdate(c, n, v)
    BY <1>1, <1>8, HitCache DEF AddOrUpdateState
  <2> QED BY <2>1 DEF CacheStep, Cache!Next
<1>9. ASSUME NEW v \in Args, GetOrAddState(c, n, v)
      PROVE  CacheStep
  <2>1. NoSave /\ Has(tracker, n)
    BY <1>1, <1>9 DEF GetOrAddState
  <2>2. CASE Finish(c, n, TryGetHit(tracker[n]))
    <3>1. Cache!Get(c, n)
      BY <2>1, <2>2, HitCache
    <3> QED BY <3>1 DEF CacheStep, Cache!Next
  <2>3. CASE ThenAdd(c, n, v)
    <3>1. NoCarrier /\ NoCarrier'
      BY <2>1, <2>3 DEF ThenAdd, NoCarrier, NoSave, InSave, AtStage, TurnInv, TypeOK
    <3> QED BY <2>3, <3>1, KeepCache DEF ThenAdd, CacheStep
  <2> QED BY <1>9, <2>2, <2>3 DEF GetOrAddState
<1> QED BY <1>2, <1>3, <1>4, <1>5, <1>6, <1>7, <1>8, <1>9 DEF Operate

LEMMA ResumeCache ==
    ASSUME MarksAreNoValues, SoundTurn, TurnInv, RightInv, NEW c \in Callers, Resume(c)
    PROVE  CacheStep
<1> DEFINE n == call[c].name
<1>1. CASE TryAddStateResumes(c)
  BY <1>1, AnsweredCall DEF TryAddStateResumes, Answered, SoundTurn, Lookups
<1>2. CASE TryGetStateResumes(c)
  <2>1. Cache!Get(c, n) /\ n \in Names
    BY <1>2, AnsweredCall, MissCache DEF TryGetStateResumes, Answered
  <2> QED BY <2>1 DEF CacheStep, Cache!Next
<1>3. CASE SetStateResumes(c)
  <2>1. Cache!Set(c, n, call[c].arg) /\ n \in Names /\ call[c].arg \in Args
    BY <1>3, AnsweredCall, MissCache DEF SetStateResumes, Answered
  <2> QED BY <2>1 DEF CacheStep, Cache!Next
<1>4. CASE TryRemoveStateResumes(c)
  <2>1. Cache!Remove(c, n) /\ n \in Names
    BY <1>4, AnsweredCall, MissCache DEF TryRemoveStateResumes, Answered
  <2> QED BY <2>1 DEF CacheStep, Cache!Next
<1>5. CASE ContainsStateResumes(c)
  <2>1. Cache!Contains(c, n) /\ n \in Names
    BY <1>5, AnsweredCall, MissCache DEF ContainsStateResumes, Answered
  <2> QED BY <2>1 DEF CacheStep, Cache!Next
<1>6. CASE AddOrUpdateStateResumes(c)
  <2>1. Cache!AddOrUpdate(c, n, call[c].arg) /\ n \in Names /\ call[c].arg \in Args
    BY <1>6, AnsweredCall, MissCache DEF AddOrUpdateStateResumes, Answered
  <2> QED BY <2>1 DEF CacheStep, Cache!Next
<1>7. CASE GetOrAddStateResumes(c)
  <2>1. AtStage(c, "answered")
    BY <1>7 DEF GetOrAddStateResumes, Answered
  <2>2. CASE Finish(c, n, TryGetMiss(tracker[n], call[c].raw))
    <3>1. Cache!Get(c, n) /\ n \in Names
      BY <2>1, <2>2, AnsweredCall, MissCache
    <3> QED BY <3>1 DEF CacheStep, Cache!Next
  <2>3. CASE ThenAdd(c, n, call[c].arg)
    <3>1. NoCarrier /\ NoCarrier'
      BY <2>1, <2>3, AnsweredCall
      DEF ThenAdd, NoCarrier, NoSave, InSave, AtStage, TurnInv, TypeOK
    <3> QED BY <2>3, <3>1, KeepCache DEF ThenAdd, CacheStep
  <2> QED BY <1>7, <2>2, <2>3 DEF GetOrAddStateResumes
<1>8. CASE IsStateMarkedForRemove(c)
  <2>1. call[c].stage = "check" /\ call[c] \in Adds /\ NoSave
    BY <1>8, AddingCall DEF IsStateMarkedForRemove, AtStage
  <2>2. [call[c] EXCEPT !.stage = "put", !.kind = AddedKind(tracker[n])].stage = "put"
    BY <2>1 DEF Adds
  <2>3. NoCarrier /\ NoCarrier'
    BY <1>8, <2>1, <2>2
    DEF IsStateMarkedForRemove, NoCarrier, NoSave, InSave, AtStage, TurnInv, TypeOK
  <2> QED BY <1>8, <2>3, KeepCache DEF IsStateMarkedForRemove, CacheStep
<1>9. CASE GetOrAddStatePuts(c)
  <2> DEFINE o == Outcome(Entry(call[c].arg, call[c].kind), call[c].arg)
  <2>1. call[c].stage = "put" /\ AtStage(c, "put") /\ Finish(c, n, o)
    BY <1>9 DEF GetOrAddStatePuts, AtStage
  <2>2. n \in Names /\ call[c].arg \in Args /\ NoSave
    BY <2>1, AddingCall
  <2>3. ~Cache!Present(n)
    BY <2>1, <2>2, AddingCall, OverlaidIs DEF Cache!Present
  <2>4. Pend(o.entry) = call[c].arg /\ o.answer = call[c].arg
    BY <2>1, AddingCall DEF Outcome, Entry, Pend, AddedKind
  <2>5. Cache!Change(n, call[c].arg) /\ Cache!Answer(c, call[c].arg)
    BY <2>1, <2>2, <2>4, FinishCache
  <2>6. Cache!GetOrAdd(c, n, call[c].arg)
    BY <2>3, <2>5 DEF Cache!GetOrAdd
  <2> QED BY <2>2, <2>6 DEF CacheStep, Cache!Next
<1> QED BY <1>1, <1>2, <1>3, <1>4, <1>5, <1>6, <1>7, <1>8, <1>9 DEF Resume

\* The changes a transaction carries are the ones the tracker held.
LEMMA BatchPend ==
    ASSUME NEW n \in Names
    PROVE  Pend(BatchOf(tracker)[n]) = Pend(tracker[n])
BY DEF BatchOf, Pend, Untracked, Entry, Pending

LEMMA PersistCache ==
    ASSUME SoundTurn, TurnInv, RightInv, NEW c \in Callers, Persist(c)
    PROVE  CacheStep
<1>1. ASSUME NEW op, BeginAlone(c, op)
      PROVE  \A d \in Callers : AtStage(d, "idle")
  BY <1>1 DEF BeginAlone, SoundTurn, DisjointCalls
<1>2. \A a : Return(c, a) => /\ Cache!Answer(c, a)
                             /\ NoCarrier' <=> \A d \in Callers : d # c => ~AtStage(d, "saving")
  BY DEF Return, Cache!Answer, NoCarrier, AtStage, Idle, TurnInv, TypeOK
<1>3. CASE ClearCache(c)
  <2>1. NoCarrier'
    BY <1>1, <1>2, <1>3 DEF ClearCache, AtStage
  <2>2. \A n \in Names : PendingValue(n)' = "unchanged"
    BY <1>3, <2>1, PendingIs DEF ClearCache, EmptyTracker, Untracked, Entry, Pend
  <2>3. Cache!Discard(c)
    BY <1>2, <1>3, <2>2 DEF ClearCache, Cache!Discard
  <2> QED BY <2>3 DEF CacheStep, Cache!Next
<1>4. CASE SaveStateNothing(c)
  <2>1. NoCarrier /\ NoCarrier'
    BY <1>1, <1>2, <1>4 DEF SaveStateNothing, NoCarrier, AtStage
  <2>2. Cache!Keep
    BY <1>4, <2>1, KeepCache DEF SaveStateNothing
  <2>3. \A n \in Names : PendingMap[n] = "unchanged"
    BY <1>4, <2>1, PendingIs DEF SaveStateNothing, Changes, Pending, Pend, PendingMap
  <2>4. Cache!Saved(c)
    BY <1>2, <1>4, <2>2, <2>3 DEF SaveStateNothing, Cache!Saved, PendingMap
  <2> QED BY <2>4 DEF CacheStep, Cache!Next
<1>5. CASE SaveState(c)
  <2>1. NoCarrier
    BY <1>1, <1>5 DEF SaveState, NoCarrier, AtStage
  <2>2. /\ call'[c] = [stage |-> "saving", batch |-> BatchOf(tracker)]
        /\ \A d \in Callers : d # c => call'[d] = call[d]
        /\ store' = store /\ answer' = answer
    BY <1>5 DEF SaveState, TurnInv, TypeOK
  <2>3. AtStage(c, "saving")' /\ \A d \in Callers : d # c => ~AtStage(d, "saving")'
    BY <2>1, <2>2 DEF AtStage, NoCarrier
  <2>4. \A n \in Names : PendingValue(n)' = PendingValue(n)
    BY <2>1, <2>2, <2>3, PendingIs, CarriedIs, BatchPend
  <2> QED BY <2>2, <2>4 DEF CacheStep, Cache!Keep
<1>6. CASE SaveStateResumes(c)
  <2>1. /\ AtStage(c, "saved") /\ InSave(c)
        /\ \A d \in Callers : d # c => AtStage(d, "idle")
        /\ \A n \in Names : tracker[n].kind \in {"UNTRACKED", "NONE"}
    BY <1>6 DEF SaveStateResumes, TurnInv, CallInv, SaveInv, InSave, AtStage
  <2>2. NoCarrier /\ NoCarrier'
    BY <1>2, <1>6, <2>1 DEF SaveStateResumes, NoCarrier, AtStage
  <2>3. \A n \in Names : PendingValue(n) = "unchanged"
    BY <2>1, <2>2, PendingIs DEF Pend
  <2>4. \A n \in Names : tracker'[n].kind \in {"UNTRACKED", "NONE"}
    BY <1>6, <2>1 DEF SaveStateResumes, DropRemoved, Untracked, Entry
  <2>5. \A n \in Names : PendingValue(n)' = "unchanged"
    BY <2>2, <2>4, PendingIs DEF Pend
  <2>6. Cache!Saved(c)
    BY <1>2, <1>6, <2>3, <2>5 DEF SaveStateResumes, Cache!Saved, Cache!Keep
  <2> QED BY <2>6 DEF CacheStep, Cache!Next
<1> QED BY <1>3, <1>4, <1>5, <1>6 DEF Persist

LEMMA SidecarCache ==
    ASSUME MarksAreNoValues, ReliableSaves, TurnInv, RightInv, NEW c \in Callers, Sidecar(c)
    PROVE  CacheStep
<1>1. TypeOK
  BY DEF TurnInv
<1>2. CASE StateGet(c)
  <2>1. call[c].stage = "asked" /\ call[c] \in Lookups /\ NoSave
    BY <1>1, <1>2, CallShape, NoSaveWhileCalling DEF StateGet, AtStage
  <2>2. [call[c] EXCEPT !.stage = "answered", !.raw = store[call[c].name]].stage = "answered"
    BY <2>1 DEF Lookups
  <2>3. NoCarrier /\ NoCarrier'
    BY <1>1, <1>2, <2>1, <2>2 DEF StateGet, NoCarrier, NoSave, InSave, AtStage, TypeOK
  <2> QED BY <1>2, <2>3, KeepCache DEF StateGet, CacheStep
<1>3. CASE StateGetFails(c)
  <2>1. NoSave
    BY <1>3, NoSaveWhileCalling DEF StateGetFails, AtStage
  <2>2. NoCarrier /\ NoCarrier'
    BY <1>1, <1>3, <2>1
    DEF StateGetFails, Return, NoCarrier, NoSave, InSave, AtStage, TypeOK, Idle
  <2>3. Cache!Fail(c)
    BY <1>3, <2>2, KeepCache DEF StateGetFails, Return, Cache!Fail, Cache!Answer
  <2> QED BY <2>3 DEF CacheStep, Cache!Next
<1>4. CASE StateTransaction(c)
  <2>1. call[c] \in Saves /\ InSave(c) /\ AtStage(c, "saving")
    BY <1>1, <1>4, CallShape DEF StateTransaction, AtStage, InSave
  <2>2. /\ \A d \in Callers : d # c => AtStage(d, "idle")
        /\ \A n \in Names : tracker[n].kind \in {"UNTRACKED", "NONE"}
    BY <2>1 DEF TurnInv, CallInv, SaveInv
  <2>3. /\ call'[c] = [call[c] EXCEPT !.stage = "saved"]
        /\ \A d \in Callers : d # c => call'[d] = call[d]
        /\ tracker' = tracker /\ store' = Commit(store, call[c].batch) /\ answer' = answer
    BY <1>1, <1>4 DEF StateTransaction, TypeOK
  <2>4. NoCarrier'
    BY <2>1, <2>2, <2>3 DEF NoCarrier, AtStage, Saves
  <2>5. \A n \in Names : PendingValue(n)' = "unchanged"
    BY <2>2, <2>3, <2>4, PendingIs DEF Pend
  <2>6. ASSUME NEW n \in Names
        PROVE  Cache!Overlaid(n) = Commit(store, call[c].batch)[n]
    <3> DEFINE e == call[c].batch[n]
    <3>1. PendingMap[n] = Pend(e)
      BY <2>1, <2>2, CarriedIs DEF PendingMap, AtStage
    <3>2. e.value \in Values
      BY <2>1 DEF Saves, Trackers, Entries
    <3>3. Cache!Overlaid(n) = CASE PendingMap[n] = "unchanged" -> store[n]
                                [] PendingMap[n] = "removed"   -> Missing
                                [] OTHER                       -> PendingMap[n]
      BY DEF Cache!Overlaid, PendingMap
    <3>4. Commit(store, call[c].batch)[n] = CASE e.kind \in {"ADD", "UPDATE"} -> e.value
                                              [] e.kind = "REMOVE"            -> Missing
                                              [] OTHER                        -> store[n]
      BY DEF Commit
    <3> HIDE DEF e
    <3> QED BY <3>1, <3>2, <3>3, <3>4 DEF Pend, MarksAreNoValues
  <2>7. store' = [n \in Names |-> Cache!Overlaid(n)]
    BY <2>3, <2>6 DEF Commit
  <2>8. Cache!Commit
    BY <2>3, <2>5, <2>7 DEF Cache!Commit
  <2> QED BY <2>8 DEF CacheStep, Cache!Next
<1>5. CASE StateTransactionFails(c)
  BY <1>5 DEF StateTransactionFails, ReliableSaves, Accepts, Operations, Operation
<1>6. CASE StateTransactionUnacknowledged(c)
  BY <1>6 DEF StateTransactionUnacknowledged, ReliableSaves
<1> QED BY <1>2, <1>3, <1>4, <1>5, <1>6 DEF Sidecar

LEMMA CacheInit == Init => Cache!Init
<1> SUFFICES ASSUME Init
             PROVE  Cache!Init
  OBVIOUS
<1>1. store \in [Names -> Args \cup {Missing}]
  BY DEF Init, Stores
<1>2. \A n \in Names : PendingValue(n) = "unchanged"
  BY PendingIs DEF Init, NoCarrier, AtStage, Idle, EmptyTracker, Untracked, Entry, Pend
<1> QED BY <1>1, <1>2 DEF Init, Cache!Init

LEMMA CacheNext ==
    ASSUME MarksAreNoValues, SoundTurn, ReliableSaves
    PROVE  TurnInv /\ RightInv /\ [Next]_vars => [Cache!Next]_(Cache!vars)
<1> SUFFICES ASSUME TurnInv, RightInv, [Next]_vars
             PROVE  [Cache!Next]_(Cache!vars)
  OBVIOUS
<1>1. CASE UNCHANGED vars
  <2>1. PendingMap' = PendingMap
    BY <1>1 DEF vars, PendingMap, PendingValue, AtStage
  <2> QED BY <1>1, <2>1 DEF vars, Cache!vars, PendingMap
<1>2. ASSUME NEW c \in Callers, NEW n \in Names, Operate(c, n)
      PROVE  CacheStep
  BY <1>2, OperateCache
<1>3. ASSUME NEW c \in Callers, Resume(c) \/ Persist(c) \/ Sidecar(c)
      PROVE  CacheStep
  BY <1>3, ResumeCache, PersistCache, SidecarCache
<1>4. CASE CacheStep
  BY <1>4 DEF CacheStep, Cache!Keep, Cache!vars
<1> QED BY <1>1, <1>2, <1>3, <1>4 DEF Next

\* In a turn whose transactions are applied and acknowledged, what each call
\* answers and what the sidecar holds is what a store under an overlay of
\* uncommitted changes answers and holds: read your writes, repeatable reads
\* and a save that commits every change at once, with calls interleaved at
\* their awaits and whatever lookups fail.
THEOREM ManagerImplementsCache ==
    ASSUME MarksAreNoValues, SoundTurn, ReliableSaves
    PROVE  Spec => ImplementsCache
BY CacheInit, CacheNext, TurnInit, TurnStep, RightInit, RightStep, PTL
DEF Spec, ImplementsCache, Cache!Spec

-----------------------------------------------------------------------------
(* No change is dropped on its way to the sidecar.                         *)

Surviving == \A m \in Names : Unsaved(m) => Unsaved(m)'

LEMMA FinishSurvives ==
    ASSUME TurnInv, NoSave, NEW c \in Callers, NEW n \in Names, NEW o, Finish(c, n, o),
           tracker[n].kind \in Pending => o.entry.kind \in Pending
    PROVE  Surviving
<1>1. tracker' = [tracker EXCEPT ![n] = o.entry] /\ NoCarrier
  BY DEF Finish, NoCarrier, NoSave, InSave, AtStage
<1> QED BY <1>1 DEF Surviving, Unsaved, NoCarrier, TurnInv, TypeOK, Trackers

LEMMA KeepSurvives ==
    ASSUME NoCarrier, tracker' = tracker
    PROVE  Surviving
BY DEF Surviving, Unsaved, NoCarrier

LEMMA OperateSurvives ==
    ASSUME SoundTurn, TurnInv, NEW c \in Callers, NEW n \in Names, Operate(c, n)
    PROVE  \A m \in Names : Unsaved(m) => Unsaved(m)' \/ TryRemoveState(c, m)
<1>1. ASSUME NEW op, Begin(c, op)
      PROVE  NoSave /\ NoCarrier
  BY <1>1 DEF Begin, NoSave, NoCarrier, InSave, AtStage, SoundTurn, DisjointCalls
<1>2. ASSUME NEW op, Hit(c, op, n)
      PROVE  NoSave /\ NoCarrier
  BY <1>1, <1>2 DEF Hit
<1> USE DEF Outcome, Entry, Pending
<1>3. ASSUME NEW op \in Ops, NEW v \in ArgsOf(op), Ask(c, op, n, v)
      PROVE  Surviving
  BY <1>1, <1>3, KeepSurvives DEF Ask
<1>4. ASSUME NEW v \in Args, TryAddState(c, n, v)
      PROVE  Surviving
  BY <1>4 DEF TryAddState, Hit, Begin, SoundTurn
<1>5. CASE TryGetState(c, n)
  BY <1>2, <1>5, FinishSurvives DEF TryGetState, TryGetHit, Surviving
<1>6. ASSUME NEW v \in Args, SetState(c, n, v)
      PROVE  Surviving
  BY <1>2, <1>6, FinishSurvives DEF SetState, SetHit
<1>7. CASE TryRemoveState(c, n)
  <2>1. NoCarrier /\ \A m \in Names : m # n => tracker'[m] = tracker[m]
    BY <1>2, <1>7 DEF TryRemoveState, Finish, TurnInv, TypeOK, Trackers
  <2> QED BY <1>7, <2>1 DEF Unsaved, NoCarrier
<1>8. CASE ContainsStateCall(c, n)
  BY <1>2, <1>8, FinishSurvives DEF ContainsStateCall, ContainsHit, Surviving
<1>9. ASSUME NEW v \in Args, AddOrUpdateState(c, n, v)
      PROVE  Surviving
  BY <1>2, <1>9, FinishSurvives DEF AddOrUpdateState, AddOrUpdateHit
<1>10. ASSUME NEW v \in Args, GetOrAddState(c, n, v)
       PROVE  Surviving
  <2>1. NoSave /\ NoCarrier
    BY <1>2, <1>10 DEF GetOrAddState
  <2>2. CASE Finish(c, n, TryGetHit(tracker[n]))
    BY <2>1, <2>2, FinishSurvives DEF TryGetHit
  <2>3. CASE ThenAdd(c, n, v)
    BY <2>1, <2>3, KeepSurvives DEF ThenAdd
  <2> QED BY <1>10, <2>2, <2>3 DEF GetOrAddState
<1> QED BY <1>3, <1>4, <1>5, <1>6, <1>7, <1>8, <1>9, <1>10 DEF Operate, Surviving

LEMMA ResumeSurvives ==
    ASSUME SoundTurn, TurnInv, RightInv, NEW c \in Callers, Resume(c)
    PROVE  Surviving
<1> DEFINE n == call[c].name
<1>1. ASSUME AtStage(c, "answered"), NEW o, Finish(c, n, o)
      PROVE  Surviving
  BY <1>1, AnsweredCall, FinishSurvives DEF Pending
<1>2. ASSUME NoSave
      PROVE  NoCarrier
  BY <1>2 DEF NoSave, NoCarrier, InSave, AtStage
<1>3. CASE TryAddStateResumes(c)
  BY <1>3, AnsweredCall DEF TryAddStateResumes, Answered, SoundTurn, Lookups
<1>4. CASE \/ TryGetStateResumes(c) \/ SetStateResumes(c) \/ TryRemoveStateResumes(c)
           \/ ContainsStateResumes(c) \/ AddOrUpdateStateResumes(c)
  <2>1. AtStage(c, "answered") /\ \E o : Finish(c, n, o)
    BY <1>4 DEF TryGetStateResumes, SetStateResumes, TryRemoveStateResumes,
                ContainsStateResumes, AddOrUpdateStateResumes, Answered
  <2> QED BY <1>1, <2>1
<1>5. CASE GetOrAddStateResumes(c)
  <2>1. AtStage(c, "answered")
    BY <1>5 DEF GetOrAddStateResumes, Answered
  <2>2. CASE Finish(c, n, TryGetMiss(tracker[n], call[c].raw))
    BY <1>1, <2>1, <2>2
  <2>3. CASE ThenAdd(c, n, call[c].arg)
    BY <1>2, <2>1, <2>3, AnsweredCall, KeepSurvives DEF ThenAdd
  <2> QED BY <1>5, <2>2, <2>3 DEF GetOrAddStateResumes
<1>6. CASE IsStateMarkedForRemove(c)
  BY <1>2, <1>6, AddingCall, KeepSurvives DEF IsStateMarkedForRemove, AtStage
<1>7. CASE GetOrAddStatePuts(c)
  <2> DEFINE o == Outcome(Entry(call[c].arg, call[c].kind), call[c].arg)
  <2>1. call[c].stage = "put" /\ AtStage(c, "put") /\ Finish(c, n, o)
    BY <1>7 DEF GetOrAddStatePuts, AtStage
  <2>2. o.entry.kind \in Pending
    BY <2>1, AddingCall DEF Outcome, Entry, AddedKind, Pending
  <2> HIDE DEF o
  <2> QED BY <2>1, <2>2, AddingCall, FinishSurvives
<1> QED BY <1>3, <1>4, <1>5, <1>6, <1>7 DEF Resume

LEMMA PersistSurvives ==
    ASSUME SoundTurn, TurnInv, NEW c \in Callers, Persist(c)
    PROVE  Surviving \/ ClearCache(c)
<1>1. ASSUME NEW op, BeginAlone(c, op)
      PROVE  NoCarrier
  BY <1>1 DEF BeginAlone, SoundTurn, DisjointCalls, NoCarrier, AtStage
<1>2. CASE SaveStateNothing(c)
  BY <1>1, <1>2, KeepSurvives DEF SaveStateNothing
<1>3. CASE SaveState(c)
  <2>1. NoCarrier
    BY <1>1, <1>3 DEF SaveState
  <2>2. call'[c] = [stage |-> "saving", batch |-> BatchOf(tracker)]
    BY <1>3 DEF SaveState, TurnInv, TypeOK
  <2>3. \A m \in Names : tracker[m].kind \in Pending => call'[c].batch[m].kind \in Pending
    BY <2>2 DEF BatchOf
  <2> QED BY <2>1, <2>2, <2>3 DEF Surviving, Unsaved, NoCarrier, AtStage
<1>4. CASE SaveStateResumes(c)
  <2>1. /\ \A d \in Callers : ~AtStage(d, "saving")
        /\ \A m \in Names : tracker[m].kind \in {"UNTRACKED", "NONE"}
    BY <1>4 DEF SaveStateResumes, TurnInv, CallInv, SaveInv, InSave, AtStage
  <2> QED BY <2>1 DEF Surviving, Unsaved, Pending
<1> QED BY <1>2, <1>3, <1>4 DEF Persist

LEMMA SidecarSurvives ==
    ASSUME ReliableSaves, TurnInv, NEW c \in Callers, Sidecar(c)
    PROVE  Surviving \/ (AtStage(c, "saving") /\ AtStage(c, "saved")')
<1>1. TypeOK
  BY DEF TurnInv
<1>2. CASE StateGet(c) \/ StateGetFails(c)
  <2>1. call[c].stage = "asked" /\ tracker' = tracker
    BY <1>2 DEF StateGet, StateGetFails, AtStage
  <2>2. NoCarrier
    BY <2>1, NoSaveWhileCalling DEF NoSave, NoCarrier, InSave, AtStage
  <2> QED BY <2>1, <2>2, KeepSurvives
<1>3. CASE StateTransaction(c)
  <2>1. call[c] \in Saves
    BY <1>1, <1>3, CallShape DEF StateTransaction, AtStage
  <2>2. call'[c] = [call[c] EXCEPT !.stage = "saved"]
    BY <1>1, <1>3 DEF StateTransaction, TypeOK
  <2> QED BY <1>3, <2>1, <2>2 DEF StateTransaction, AtStage, Saves
<1>4. CASE StateTransactionFails(c)
  BY <1>4 DEF StateTransactionFails, ReliableSaves, Accepts, Operations, Operation
<1>5. CASE StateTransactionUnacknowledged(c)
  BY <1>5 DEF StateTransactionUnacknowledged, ReliableSaves
<1> QED BY <1>2, <1>3, <1>4, <1>5 DEF Sidecar

\* One step keeps a change, hands it to the sidecar, or is the clear or the
\* removal that gives it up.
SurvivalStep ==
    \A n \in Names : Unsaved(n) =>
       \/ Unsaved(n)'
       \/ \E c \in Callers : AtStage(c, "saving") /\ AtStage(c, "saved")'
       \/ \E c \in Callers : ClearCache(c) \/ TryRemoveState(c, n)

LEMMA NextSurvives ==
    ASSUME SoundTurn, ReliableSaves
    PROVE  TurnInv /\ RightInv /\ [Next]_vars => [SurvivalStep]_vars
<1> SUFFICES ASSUME TurnInv, RightInv, Next
             PROVE  SurvivalStep
  OBVIOUS
<1>1. ASSUME NEW c \in Callers, NEW n \in Names, Operate(c, n)
      PROVE  SurvivalStep
  BY <1>1, OperateSurvives DEF SurvivalStep
<1>2. ASSUME NEW c \in Callers, Resume(c) \/ Persist(c) \/ Sidecar(c)
      PROVE  SurvivalStep
  BY <1>2, ResumeSurvives, PersistSurvives, SidecarSurvives DEF SurvivalStep, Surviving
<1> QED BY <1>1, <1>2 DEF Next

\* In a turn whose transactions are applied and acknowledged, a change that
\* was made leaves the manager only with the transaction that carries it,
\* with a clear, or with the removal of its name: no answer that comes late
\* and no call that goes on after its await drops it.
THEOREM ChangesSurvive ==
    ASSUME SoundTurn, ReliableSaves
    PROVE  Spec => ChangeSurvives
<1>1. ChangeSurvives <=> [][SurvivalStep]_vars
  BY PTL DEF ChangeSurvives, SurvivalStep
<1> QED BY <1>1, NextSurvives, TurnInit, TurnStep, RightInit, RightStep, PTL DEF Spec
=============================================================================
