------------------------ MODULE ActorManager_proofs ------------------------
(***************************************************************************)
(* Invariants of the actor manager for any number of actor ids, requests   *)
(* and instances, every discipline of the sidecar and every failure.       *)
(***************************************************************************)
EXTENDS ActorManager, StateTracker_proofs

\* What is reachable is an object of its id, and an activated one unless the
\* request that created it is still activating it.
ServesWell(q, o) ==
    /\ o \in Objects
    /\ o.id = q.id
    /\ q.why # "activate" \/ q.stage \in {"register", "fetch", "ready"} => o.activated

Serving(acts, reqs, objs) ==
    /\ acts \in [Ids -> Instances \cup {None}]
    /\ reqs \in [Requests -> {Idle} \cup Running]
    /\ objs \in [Instances -> Objects \cup {Collected}]
    /\ \A id \in Ids : acts[id] # None =>
          objs[acts[id]] \in Objects /\ objs[acts[id]].id = id /\ objs[acts[id]].activated
    /\ \A r \in Requests : reqs[r].stage # "idle" => ServesWell(reqs[r], objs[reqs[r].inst])

\* TypeOK is not inductive: user code writes to the tracker of its instance,
\* which has one only because what a request refers to is not collected.
ServingInv ==
    /\ Serving(actors, request, instance)
    /\ store \in [Ids -> Stores]

LEMMA BusyShape ==
    ASSUME ServingInv, NEW r \in Requests, Busy(r)
    PROVE  /\ request[r] \in Running
           /\ request[r].inst \in Instances /\ request[r].id \in Ids
           /\ request[r].batch \in Trackers
           /\ ServesWell(request[r], Object(r))
           /\ Object(r) \in Objects /\ Tracker(r) \in Trackers /\ Object(r).id \in Ids
           /\ Stored(r) \in Stores
<1>1. request[r] \in Running
  BY DEF ServingInv, Serving, Busy, AtStage, Idle
<1>2. ServesWell(request[r], Object(r))
  BY DEF ServingInv, Serving, Busy, AtStage, Object
<1>3. Object(r) \in Objects
  BY <1>2 DEF ServesWell
<1>4. Tracker(r) \in Trackers /\ Object(r).id \in Ids
  BY <1>3 DEF Objects, Tracker
<1>5. Stored(r) \in Stores
  BY <1>4 DEF Stored, ServingInv
<1> QED BY <1>1, <1>2, <1>3, <1>4, <1>5 DEF Running

\* Collecting what nothing refers to leaves everything that is referred to.
LEMMA HeapServes ==
    ASSUME NEW acts, NEW reqs, NEW objs, Serving(acts, reqs, objs), Heap(acts, reqs, objs),
           store' \in [Ids -> Stores]
    PROVE  ServingInv'
<1>1. /\ actors' = acts /\ request' = reqs
      /\ \A i \in Instances : Reachable(acts, reqs, i) => instance'[i] = objs[i]
      /\ instance' \in [Instances -> Objects \cup {Collected}]
  BY DEF Heap, Serving
<1>2. ASSUME NEW id \in Ids, acts[id] # None
      PROVE  instance'[acts[id]] = objs[acts[id]]
  <2>1. acts[id] \in Instances /\ Reachable(acts, reqs, acts[id])
    BY <1>2 DEF Serving, Reachable
  <2> QED BY <1>1, <2>1
<1>3. ASSUME NEW r \in Requests, reqs[r].stage # "idle"
      PROVE  instance'[reqs[r].inst] = objs[reqs[r].inst]
  <2>1. reqs[r].inst \in Instances
    BY <1>3 DEF Serving, Running, Idle
  <2>2. Reachable(acts, reqs, reqs[r].inst)
    BY <1>3 DEF Reachable, UsedBy
  <2> QED BY <1>1, <2>1, <2>2
<1> QED BY <1>1, <1>2, <1>3 DEF ServingInv, Serving

\* A request goes to its next stage and keeps its instance.
LEMMA GotoServes ==
    ASSUME NEW acts, NEW objs, Serving(acts, request, objs),
           NEW r \in Requests, Busy(r), NEW s \in Stages,
           s \in {"register", "fetch", "ready"} => objs[request[r].inst].activated
    PROVE  Serving(acts, Goto(r, s), objs)
<1>1. request[r] \in Running /\ ServesWell(request[r], objs[request[r].inst])
  BY DEF Serving, Busy, AtStage, Idle
<1> DEFINE q == [request[r] EXCEPT !.stage = s]
<1>2. /\ q \in Running /\ q.inst = request[r].inst /\ q.id = request[r].id
      /\ q.why = request[r].why /\ q.stage = s
  BY <1>1 DEF Running
<1>3. Goto(r, s) = [request EXCEPT ![r] = q]
  BY DEF Goto
<1> HIDE DEF q
<1>4. ServesWell(q, objs[q.inst])
  BY <1>1, <1>2 DEF ServesWell
<1> QED BY <1>2, <1>3, <1>4 DEF Serving

LEMMA EndedServes ==
    ASSUME NEW acts, NEW objs, Serving(acts, request, objs), NEW r \in Requests
    PROVE  Serving(acts, Ended(r), objs)
BY DEF Serving, Ended, Idle

\* A change of the tracker leaves the identity of the instance alone.
LEMMA TrackServes ==
    ASSUME ServingInv, NEW r \in Requests, Busy(r), NEW t \in Trackers
    PROVE  Serving(actors, request, WithTracker(r, t))
<1>1. request[r].inst \in Instances /\ Object(r) \in Objects
  BY BusyShape
<1> DEFINE o == [Object(r) EXCEPT !.tracker = t]
<1>2. /\ o \in Objects /\ o.id = Object(r).id /\ o.activated = Object(r).activated
      /\ WithTracker(r, t) = [instance EXCEPT ![request[r].inst] = o]
  BY <1>1 DEF Objects, WithTracker, Object
<1> HIDE DEF o
<1> QED BY <1>1, <1>2 DEF ServingInv, Serving, ServesWell, Object

LEMMA ThrowServes ==
    ASSUME ServingInv, NEW r \in Requests, Throw(r), store' = store
    PROVE  ServingInv'
<1>1. Serving(actors, Ended(r), instance)
  BY EndedServes DEF ServingInv
<1> QED BY <1>1, HeapServes DEF Throw, ServingInv

LEMMA StartServes ==
    ASSUME NEW acts, NEW objs, Serving(acts, request, objs), NEW r \in Requests,
           NEW s \in Stages, NEW k \in {"method", "deactivate"}, NEW id \in Ids,
           NEW i \in Instances, NEW w \in {"activate", "method", "deactivate"},
           objs[i] \in Objects, objs[i].id = id,
           w # "activate" \/ s \in {"register", "fetch", "ready"} => objs[i].activated
    PROVE  Serving(acts, Start(r, s, k, id, i, w), objs)
<1> DEFINE q == [stage |-> s, kind |-> k, id |-> id, inst |-> i, why |-> w,
                 batch |-> EmptyTracker]
<1>1. q \in Running
  BY EmptyTrackerType DEF Running
<1>2. q.inst = i /\ ServesWell(q, objs[i])
  BY DEF ServesWell
<1>3. Start(r, s, k, id, i, w) = [request EXCEPT ![r] = q]
  BY DEF Start
<1> HIDE DEF q
<1> QED BY <1>1, <1>2, <1>3 DEF Serving

LEMMA DeliverServes ==
    ASSUME ServingInv, NEW r \in Requests, NEW id \in Ids, Deliver(r, id)
    PROVE  ServingInv'
<1>1. actors[id] # None =>
         /\ actors[id] \in Instances /\ instance[actors[id]] \in Objects
         /\ instance[actors[id]].id = id /\ instance[actors[id]].activated
  BY DEF ServingInv, Serving
<1>2. CASE CallActive(r, id)
  <2>1. Serving(actors, Start(r, "ready", "method", id, actors[id], "method"), instance)
    BY <1>1, <1>2, StartServes DEF CallActive, ServingInv, Stages
  <2> QED BY <1>2, <2>1, HeapServes DEF CallActive, ServingInv
<1>3. CASE CallInactive(r, id)
  <2>1. PICK i \in Instances :
           /\ ~Reachable(actors, request, i)
           /\ Heap(actors, Start(r, "hook", "method", id, i, "activate"),
                   [instance EXCEPT ![i] = Created(id)])
    BY <1>3 DEF CallInactive
  <2> DEFINE objs == [instance EXCEPT ![i] = Created(id)]
  <2>2. Created(id) \in Objects /\ Created(id).id = id
    BY EmptyTrackerType DEF Created, Objects
  <2>3. objs \in [Instances -> Objects \cup {Collected}] /\ objs[i] = Created(id)
    BY <2>2 DEF ServingInv, Serving
  <2>4. \A j \in Instances : j # i => objs[j] = instance[j]
    BY DEF ServingInv, Serving
  <2>5. /\ \A k \in Ids : actors[k] # None => actors[k] # i
        /\ \A q \in Requests : Busy(q) => request[q].inst # i
    BY <2>1 DEF Reachable, UsedBy, Busy, AtStage
  <2>6. \A q \in Requests : Busy(q) => request[q].inst \in Instances
    BY BusyShape
  <2> HIDE DEF objs
  <2>7. Serving(actors, request, objs)
    BY <2>3, <2>4, <2>5, <2>6 DEF ServingInv, Serving, Busy, AtStage
  <2>8. Serving(actors, Start(r, "hook", "method", id, i, "activate"), objs)
    BY <2>2, <2>3, <2>7, StartServes DEF Stages
  <2> QED BY <1>3, <2>1, <2>8, HeapServes DEF CallInactive, ServingInv, objs
<1>4. CASE Deactivate(r, id)
  <2>1. Serving(actors, Start(r, "reset", "deactivate", id, actors[id], "deactivate"), instance)
    BY <1>1, <1>4, StartServes DEF Deactivate, ServingInv, Stages
  <2> QED BY <1>4, <2>1, HeapServes DEF Deactivate, ServingInv
<1> QED BY <1>2, <1>3, <1>4 DEF Deliver

\* A step of user code on the state leaves a tracker of the same names.
LEMMA TrackStep ==
    ASSUME ServingInv, NEW r \in Requests, NEW n \in Names, NEW o \in Outcomes,
           Track(r, n, o)
    PROVE  ServingInv'
<1>1. Busy(r)
  BY DEF Track, Busy, AtStage
<1>2. [Tracker(r) EXCEPT ![n] = o.entry] \in Trackers
  BY <1>1, BusyShape DEF Trackers, Outcomes
<1>3. Serving(actors, request, WithTracker(r, [Tracker(r) EXCEPT ![n] = o.entry]))
  BY <1>1, <1>2, TrackServes
<1> QED BY <1>3, HeapServes DEF Track, ServingInv

LEMMA UseStateServes ==
    ASSUME ServingInv, NEW r \in Requests, UseState(r)
    PROVE  ServingInv'
<1>1. Busy(r)
  BY DEF UseState, SetState, GetState, RemoveState, Track, Busy, AtStage
<1>2. \A n \in Names : Tracker(r)[n] \in Entries /\ Stored(r)[n] \in Values \cup {Missing}
  BY <1>1, BusyShape DEF Trackers, Stores
<1>3. Null \in Values /\ \A v \in Args : v \in Values
  BY ValueAssumption, ManagerAssumption DEF Values
<1>4. ASSUME NEW n \in Names, NEW v \in Args, SetState(r, n, v)
      PROVE  ServingInv'
  <2>1. SetHit(Tracker(r)[n], v) \in Outcomes
    BY <1>2, <1>3, HitType
  <2>2. SetMiss(Stored(r)[n], v) \in Outcomes
    BY <1>2, <1>3, MissType
  <2> QED BY <1>4, <2>1, <2>2, TrackStep DEF SetState
<1>5. ASSUME NEW n \in Names, GetState(r, n)
      PROVE  ServingInv'
  <2>1. TryGetHit(Tracker(r)[n]) \in Outcomes
    BY <1>2, <1>3, HitType
  <2>2. TryGetMiss(Tracker(r)[n], Stored(r)[n]) \in Outcomes
    BY <1>2, <1>3, MissType
  <2> QED BY <1>5, <2>1, <2>2, TrackStep DEF GetState
<1>6. ASSUME NEW n \in Names, RemoveState(r, n)
      PROVE  ServingInv'
  <2>1. TryRemoveHit(Tracker(r)[n]) \in Outcomes
    BY <1>2, <1>3, HitType
  <2>2. TryRemoveMiss(Tracker(r)[n], Stored(r)[n]) \in Outcomes
    BY <1>2, <1>3, MissType
  <2> QED BY <1>6, <2>1, <2>2, TrackStep DEF RemoveState
<1> QED BY <1>4, <1>5, <1>6 DEF UseState

\* After a save the instance of an activation is activated; the others go on.
LEMMA AfterSaveServes ==
    ASSUME ServingInv, NEW r \in Requests, Busy(r), NEW t \in Trackers, NEW objs,
           objs \in {instance, WithTracker(r, t)}, AfterSave(r, objs), store' = store
    PROVE  ServingInv'
<1>1. Serving(actors, request, objs)
  BY TrackServes DEF ServingInv
<1>2. request[r] \in Running /\ request[r].inst \in Instances /\ store' \in [Ids -> Stores]
  BY BusyShape DEF ServingInv
<1>3. CASE request[r].why = "activate"
  <2> DEFINE i == request[r].inst
             o == [objs[i] EXCEPT !.activated = TRUE]
             marked == [objs EXCEPT ![i] = o]
  <2>1. objs[i] \in Objects
    BY <1>1 DEF Serving, ServesWell, Busy, AtStage
  <2>2. o \in Objects /\ o.id = objs[i].id /\ o.activated
    BY <2>1 DEF Objects
  <2>3. marked = [objs EXCEPT ![i].activated = TRUE]
    OBVIOUS
  <2> HIDE DEF o
  <2>4. Serving(actors, request, marked) /\ marked[i] = o
    BY <1>1, <1>2, <2>2 DEF Serving, ServesWell
  <2>5. Heap(actors, Goto(r, "register"), marked)
    BY <1>3, <2>3 DEF AfterSave
  <2> HIDE DEF marked, i
  <2>6. Serving(actors, Goto(r, "register"), marked)
    BY <2>2, <2>4, GotoServes DEF Stages, i
  <2> QED BY <1>2, <2>5, <2>6, HeapServes
<1>4. CASE request[r].why = "deactivate"
  <2> DEFINE i == request[r].inst
             o == [objs[i] EXCEPT !.deactivated = TRUE]
             marked == [objs EXCEPT ![i] = o]
  <2>1. objs[i] \in Objects
    BY <1>1 DEF Serving, ServesWell, Busy, AtStage
  <2>2. o \in Objects /\ o.id = objs[i].id /\ o.activated = objs[i].activated
    BY <2>1 DEF Objects
  <2>3. marked = [objs EXCEPT ![i].deactivated = TRUE]
    OBVIOUS
  <2> HIDE DEF o
  <2>4. Serving(actors, request, marked)
    BY <1>1, <1>2, <2>2 DEF Serving, ServesWell
  <2>5. Heap(actors, Goto(r, "unregister"), marked)
    BY <1>4, <2>3 DEF AfterSave
  <2> HIDE DEF marked, i
  <2>6. Serving(actors, Goto(r, "unregister"), marked)
    BY <2>4, GotoServes DEF Stages
  <2> QED BY <1>2, <2>5, <2>6, HeapServes
<1>5. CASE request[r].why = "method"
  <2>1. Serving(actors, Ended(r), objs)
    BY <1>1, EndedServes
  <2> QED BY <1>2, <1>5, <2>1, HeapServes DEF AfterSave
<1> QED BY <1>2, <1>3, <1>4, <1>5 DEF Running

LEMMA ReturnServes ==
    ASSUME ServingInv, NEW r \in Requests, Return(r)
    PROVE  ServingInv'
<1>1. Busy(r) /\ EmptyTracker \in Trackers
  BY EmptyTrackerType DEF Return, HookThrows, HookReturnsUnchanged, SaveState, Busy, AtStage
<1>2. CASE HookThrows(r)
  BY <1>2, ThrowServes DEF HookThrows
<1>3. CASE HookReturnsUnchanged(r)
  BY <1>1, <1>3, AfterSaveServes DEF HookReturnsUnchanged
<1>4. CASE SaveState(r)
  <2> DEFINE objs == WithTracker(r, MarkUnmodified(Tracker(r)))
             q == [request[r] EXCEPT !.stage = "saving", !.batch = BatchOf(Tracker(r))]
             reqs == [request EXCEPT ![r] = q]
  <2>1. BatchOf(Tracker(r)) \in Trackers /\ MarkUnmodified(Tracker(r)) \in Trackers
    <3>1. Tracker(r) \in Trackers /\ Stored(r) \in Stores
      BY <1>1, BusyShape
    <3> QED BY <3>1, SaveType
  <2>2. Serving(actors, request, objs)
    BY <1>1, <2>1, TrackServes
  <2>3. request[r] \in Running /\ AtStage(r, "hook")
    BY <1>1, <1>4, BusyShape DEF SaveState
  <2>4. /\ q \in Running /\ q.inst = request[r].inst /\ q.id = request[r].id
        /\ q.why = request[r].why /\ q.stage = "saving"
    BY <2>1, <2>3 DEF Running, Stages
  <2>5. reqs = [request EXCEPT ![r].stage = "saving", ![r].batch = BatchOf(Tracker(r))]
    OBVIOUS
  <2> HIDE DEF objs, q
  <2>6. Serving(actors, reqs, objs)
    BY <1>1, <2>2, <2>3, <2>4 DEF Serving, ServesWell, Busy, AtStage
  <2>7. Heap(actors, reqs, objs) /\ store' = store
    BY <1>4, <2>5 DEF SaveState, objs
  <2> QED BY <2>6, <2>7, HeapServes DEF ServingInv
<1> QED BY <1>2, <1>3, <1>4 DEF Return

LEMMA ContinueServes ==
    ASSUME ServingInv, NEW r \in Requests, Continue(r)
    PROVE  ServingInv'
<1>1. Busy(r)
  BY DEF Continue, Register, GetActiveActor, CallMethod, MethodDoesNotExist, ResetState,
         Unregister, SaveStateResumes, Busy, AtStage
<1>2. /\ Serving(actors, request, instance) /\ store \in [Ids -> Stores]
      /\ request[r] \in Running /\ request[r].inst \in Instances /\ request[r].id \in Ids
      /\ ServesWell(request[r], Object(r))
  BY <1>1, BusyShape DEF ServingInv
<1>3. CASE Register(r)
  <2> DEFINE acts == [actors EXCEPT ![request[r].id] = request[r].inst]
  <2>1. Object(r) \in Objects /\ Object(r).id = request[r].id /\ Object(r).activated
    BY <1>2, <1>3 DEF Register, AtStage, ServesWell
  <2>2. Serving(acts, request, instance)
    BY <1>2, <2>1 DEF Serving, Object
  <2>3. Serving(acts, Goto(r, "fetch"), instance)
    BY <1>1, <2>1, <2>2, GotoServes DEF Stages, Object
  <2> QED BY <1>2, <1>3, <2>3, HeapServes DEF Register
<1>4. CASE GetActiveActor(r)
  <2> DEFINE i == actors[request[r].id]
             q == [request[r] EXCEPT !.stage = "ready", !.inst = i]
             reqs == [request EXCEPT ![r] = q]
  <2>1. CASE i = None
    BY <1>4, <2>1, ThrowServes DEF GetActiveActor
  <2>2. CASE i # None
    <3>1. i \in Instances /\ instance[i] \in Objects /\ instance[i].id = request[r].id
          /\ instance[i].activated
      BY <1>2, <2>2 DEF Serving
    <3>2. q \in Running /\ q.inst = i /\ q.id = request[r].id /\ q.stage = "ready"
      BY <1>2, <3>1 DEF Running, Stages
    <3>3. reqs = [request EXCEPT ![r].stage = "ready", ![r].inst = i]
      OBVIOUS
    <3>4. Heap(actors, reqs, instance) /\ store' = store
      BY <1>4, <2>2, <3>3 DEF GetActiveActor, Throw
    <3> HIDE DEF q, i
    <3>5. Serving(actors, reqs, instance)
      BY <1>2, <3>1, <3>2 DEF Serving, ServesWell
    <3> QED BY <1>2, <3>4, <3>5, HeapServes
  <2> QED BY <2>1, <2>2
<1>5. CASE CallMethod(r)
  <2> DEFINE q == [request[r] EXCEPT !.stage = "hook", !.why = "method"]
             reqs == [request EXCEPT ![r] = q]
  <2>1. Object(r).activated
    BY <1>2, <1>5 DEF CallMethod, AtStage, ServesWell
  <2>2. q \in Running /\ q.inst = request[r].inst /\ q.id = request[r].id
    BY <1>2 DEF Running, Stages
  <2>3. reqs = [request EXCEPT ![r].stage = "hook", ![r].why = "method"]
    OBVIOUS
  <2>4. Heap(actors, reqs, instance) /\ store' = store
    BY <1>5, <2>3 DEF CallMethod
  <2> HIDE DEF q
  <2>5. Serving(actors, reqs, instance)
    BY <1>2, <2>1, <2>2 DEF Serving, ServesWell, Object
  <2> QED BY <1>2, <2>4, <2>5, HeapServes
<1>6. CASE MethodDoesNotExist(r)
  BY <1>6, ThrowServes DEF MethodDoesNotExist
<1>7. CASE ResetState(r)
  <2> DEFINE o == [Object(r) EXCEPT !.tracker = EmptyTracker]
             objs == [instance EXCEPT ![request[r].inst] = o]
  <2>1. o \in Objects /\ o.id = Object(r).id /\ o.activated = Object(r).activated
    BY <1>2, EmptyTrackerType DEF ServesWell, Objects
  <2>2. objs = [instance EXCEPT ![request[r].inst].tracker = EmptyTracker]
    BY DEF Object
  <2> HIDE DEF o
  <2>3. Serving(actors, request, objs)
    BY <1>2, <2>1 DEF Serving, ServesWell, Object
  <2>4. Heap(actors, Goto(r, "hook"), objs) /\ store' = store
    BY <1>7, <2>2 DEF ResetState
  <2> HIDE DEF objs
  <2>5. Serving(actors, Goto(r, "hook"), objs)
    BY <1>1, <2>3, GotoServes DEF Stages
  <2> QED BY <1>2, <2>4, <2>5, HeapServes
<1>8. CASE Unregister(r)
  <2> DEFINE acts == [actors EXCEPT ![request[r].id] = None]
  <2>1. Serving(acts, request, instance)
    BY <1>2 DEF Serving
  <2>2. Serving(acts, Ended(r), instance)
    BY <2>1, EndedServes
  <2> QED BY <1>2, <1>8, <2>2, HeapServes DEF Unregister
<1>9. CASE SaveStateResumes(r)
  <2>1. DropRemoved(Tracker(r), request[r].batch) \in Trackers
    <3>1. Tracker(r) \in Trackers /\ Stored(r) \in Stores /\ request[r].batch \in Trackers
      BY <1>1, BusyShape
    <3> QED BY <3>1, SaveType
  <2> QED BY <1>1, <1>9, <2>1, AfterSaveServes DEF SaveStateResumes
<1> QED BY <1>3, <1>4, <1>5, <1>6, <1>7, <1>8, <1>9 DEF Continue

LEMMA SidecarServes ==
    ASSUME ServingInv, NEW r \in Requests, Sidecar(r)
    PROVE  ServingInv'
<1>1. CASE StateTransaction(r)
  <2>1. Busy(r)
    BY <1>1 DEF StateTransaction, Busy, AtStage
  <2>2. Object(r).id \in Ids /\ request[r].batch \in Trackers /\ Stored(r) \in Stores
    BY <2>1, BusyShape
  <2>3. Commit(Stored(r), request[r].batch) \in Stores
    BY <2>2, SaveType
  <2>4. store' \in [Ids -> Stores]
    BY <1>1, <2>2, <2>3 DEF StateTransaction, ServingInv, Stored
  <2>5. Serving(actors, Goto(r, "saved"), instance)
    BY <2>1, GotoServes DEF ServingInv, Stages
  <2> QED BY <1>1, <2>4, <2>5, HeapServes DEF StateTransaction
<1>2. CASE StateTransactionFails(r)
  BY <1>2, ThrowServes DEF StateTransactionFails
<1> QED BY <1>1, <1>2 DEF Sidecar

LEMMA CrashServes ==
    ASSUME ServingInv, Crash
    PROVE  ServingInv'
<1>1. Serving([id \in Ids |-> None], [r \in Requests |-> Idle], instance)
  BY DEF ServingInv, Serving, Idle
<1> QED BY <1>1, HeapServes DEF Crash, ServingInv

LEMMA ServingStep == ServingInv /\ [Next]_vars => ServingInv'
<1> SUFFICES ASSUME ServingInv, [Next]_vars
             PROVE  ServingInv'
  OBVIOUS
<1>1. CASE UNCHANGED vars
  BY <1>1 DEF vars, ServingInv
<1>2. ASSUME NEW r \in Requests, NEW id \in Ids, Deliver(r, id)
      PROVE  ServingInv'
  BY <1>2, DeliverServes
<1>3. ASSUME NEW r \in Requests, UseState(r) \/ Return(r) \/ Continue(r) \/ Sidecar(r)
      PROVE  ServingInv'
  BY <1>3, UseStateServes, ReturnServes, ContinueServes, SidecarServes
<1> QED BY <1>1, <1>2, <1>3, CrashServes DEF Next, Step

LEMMA ServingInit == Init => ServingInv
<1> SUFFICES ASSUME Init
             PROVE  ServingInv
  OBVIOUS
<1>1. Serving(actors, request, instance)
  BY DEF Init, Serving, Idle
<1> QED BY <1>1 DEF Init, ServingInv, Stores

\* Every reachable state is of its type.
THEOREM ManagerTypeCorrect == Spec => []TypeOK
<1> DEFINE Known == discipline \in Disciplines
<1>1. ServingInv /\ Known => TypeOK
  BY DEF ServingInv, Serving, TypeOK
<1>2. Init => Known
  BY DEF Init
<1>3. Known /\ [Next]_vars => Known'
  BY DEF Next, vars
<1> HIDE DEF Known
<1> QED BY <1>1, <1>2, <1>3, ServingInit, ServingStep, PTL DEF Spec

\* However requests of an actor overlap, and whatever fails or crashes, the
\* Map holds only instances whose activation finished and was saved, under
\* their own id, and methods and deactivations run only on such instances.
THEOREM ActivatedServe == Spec => []OnlyActivatedServe
<1>1. ServingInv => OnlyActivatedServe
  BY DEF ServingInv, Serving, ServesWell, OnlyActivatedServe, Busy, AtStage, Object
<1> QED BY <1>1, ServingInit, ServingStep, PTL DEF Spec

-----------------------------------------------------------------------------
(* One instance per id, as long as the sidecar does not let calls overlap. *)

Activating(q) == q.why = "activate" /\ q.stage \in {"hook", "saving", "saved", "register"}

\* Where a request is in the code tells what the Map holds for its id.
Placed(q, acts, objs) ==
    /\ q.kind = "deactivate" <=> q.why = "deactivate"
    /\ q.stage \in {"reset", "unregister"} => q.kind = "deactivate"
    /\ q.stage \in {"register", "fetch"} => q.why = "activate"
    /\ q.stage = "ready" => q.kind = "method"
    /\ acts[q.id] \in {None, q.inst}
    /\ Activating(q) => acts[q.id] = None
    /\ q.kind = "deactivate" => acts[q.id] = q.inst
    /\ q.stage = "unregister" => objs[q.inst].deactivated

InUse(reqs, r) == reqs[r].stage # "idle"

Alone(acts, reqs, objs) ==
    /\ \A r \in Requests : InUse(reqs, r) => Placed(reqs[r], acts, objs)
    /\ \A r, s \in Requests :
          /\ InUse(reqs, r) /\ InUse(reqs, s)
          /\ reqs[r].id = reqs[s].id /\ reqs[r].kind = reqs[s].kind
          => r = s

\* SingleInstance is not inductive: whether a registration makes a second
\* instance depends on what the Map holds while the request is on its way.
AloneInv ==
    /\ discipline \in Disciplines
    /\ discipline # "free" => Alone(actors, request, instance)

LEMMA HeapAlone ==
    ASSUME NEW acts, NEW reqs, NEW objs, Heap(acts, reqs, objs), ServingInv',
           Alone(acts, reqs, objs)
    PROVE  Alone(actors, request, instance)'
<1>1. actors' = acts /\ request' = reqs
  BY DEF Heap
<1>2. ASSUME NEW r \in Requests, InUse(reqs, r)
      PROVE  instance'[reqs[r].inst] = objs[reqs[r].inst]
  <2>1. reqs[r].inst \in Instances
    BY <1>1, <1>2 DEF ServingInv, Serving, Running, Idle, InUse
  <2>2. Reachable(acts, reqs, reqs[r].inst)
    BY <1>2 DEF Reachable, UsedBy, InUse
  <2> QED BY <2>1, <2>2 DEF Heap
<1> QED BY <1>1, <1>2 DEF Alone, Placed

\* Nothing a step does to the objects takes back a deactivation.
StillDeactivated(objs) ==
    \A s \in Requests : Busy(s) /\ instance[request[s].inst].deactivated
                           => objs[request[s].inst].deactivated

\* A request goes on under the same id and kind.
LEMMA MoveAlone ==
    ASSUME ServingInv, Alone(actors, request, instance), NEW r \in Requests, Busy(r),
           NEW q, q.id = request[r].id, q.kind = request[r].kind,
           NEW objs, StillDeactivated(objs),
           Placed(q, actors, objs)
    PROVE  Alone(actors, [request EXCEPT ![r] = q], objs)
<1> DEFINE reqs == [request EXCEPT ![r] = q]
<1>1. reqs[r] = q /\ \A s \in Requests : s # r => reqs[s] = request[s]
  BY DEF ServingInv, Serving
<1> HIDE DEF reqs
<1>2. InUse(request, r)
  BY DEF InUse, Busy, AtStage
<1>3. \A s \in Requests : InUse(reqs, s) => Placed(reqs[s], actors, objs)
  BY <1>1 DEF Alone, Placed, InUse, Busy, AtStage, StillDeactivated
<1>4. \A s, t \in Requests :
         /\ InUse(reqs, s) /\ InUse(reqs, t)
         /\ reqs[s].id = reqs[t].id /\ reqs[s].kind = reqs[t].kind
         => s = t
  BY <1>1, <1>2 DEF Alone, InUse
<1>5. Alone(actors, reqs, objs)
  BY <1>3, <1>4 DEF Alone
<1> QED BY <1>5 DEF reqs

LEMMA EndAlone ==
    ASSUME ServingInv, Alone(actors, request, instance), NEW r \in Requests,
           NEW objs, StillDeactivated(objs)
    PROVE  Alone(actors, Ended(r), objs)
<1>1. Ended(r)[r] = Idle /\ \A s \in Requests : s # r => Ended(r)[s] = request[s]
  BY DEF ServingInv, Serving, Ended
<1> QED BY <1>1 DEF Alone, Placed, InUse, Busy, AtStage, Idle, StillDeactivated

LEMMA ThrowAlone ==
    ASSUME ServingInv, ServingInv', Alone(actors, request, instance),
           NEW r \in Requests, Throw(r)
    PROVE  Alone(actors, request, instance)'
BY EndAlone, HeapAlone DEF Throw, StillDeactivated

\* A request comes that the discipline allows.
LEMMA StartAlone ==
    ASSUME ServingInv, AloneInv, discipline # "free",
           NEW r \in Requests, NEW id \in Ids, NEW k, MayStart(id, k), ~Busy(r),
           NEW s, NEW i, NEW w, NEW objs,
           \A t \in Requests : Busy(t) => objs[request[t].inst] = instance[request[t].inst],
           Placed(Start(r, s, k, id, i, w)[r], actors, objs)
    PROVE  Alone(actors, Start(r, s, k, id, i, w), objs)
<1> DEFINE q == [stage |-> s, kind |-> k, id |-> id, inst |-> i, why |-> w,
                 batch |-> EmptyTracker]
           reqs == Start(r, s, k, id, i, w)
<1>1. reqs[r] = q /\ \A t \in Requests : t # r => reqs[t] = request[t]
  BY DEF Start, ServingInv, Serving
<1>2. q.id = id /\ q.kind = k
  OBVIOUS
<1>3. \A t \in Requests : Busy(t) => request[t].id # id \/ request[t].kind # k
  <2>1. discipline \in {"turns", "drain"}
    BY ManagerAssumption DEF AloneInv
  <2> QED BY <2>1 DEF MayStart
<1> HIDE DEF q, reqs
<1>4. \A t \in Requests : InUse(reqs, t) => Placed(reqs[t], actors, objs)
  BY <1>1 DEF AloneInv, Alone, Placed, InUse, Busy, AtStage, reqs
<1>5. \A t, u \in Requests :
         /\ InUse(reqs, t) /\ InUse(reqs, u)
         /\ reqs[t].id = reqs[u].id /\ reqs[t].kind = reqs[u].kind
         => t = u
  BY <1>1, <1>2, <1>3 DEF AloneInv, Alone, InUse, Busy, AtStage
<1>6. Alone(actors, reqs, objs)
  BY <1>4, <1>5 DEF Alone
<1> QED BY <1>6 DEF reqs

LEMMA DeliverAlone ==
    ASSUME ServingInv, ServingInv', AloneInv, discipline # "free",
           NEW r \in Requests, NEW id \in Ids, Deliver(r, id)
    PROVE  Alone(actors, request, instance)'
<1>1. \A s, k, i, w : Start(r, s, k, id, i, w)[r] =
         [stage |-> s, kind |-> k, id |-> id, inst |-> i, why |-> w, batch |-> EmptyTracker]
  BY DEF Start, ServingInv, Serving
<1>2. CASE CallActive(r, id)
  <2>1. Placed(Start(r, "ready", "method", id, actors[id], "method")[r], actors, instance)
    <3> DEFINE q == [stage |-> "ready", kind |-> "method", id |-> id, inst |-> actors[id], why |-> "method",
                 batch |-> EmptyTracker]
    <3>1. Placed(q, actors, instance)
      BY DEF Placed, Activating
    <3> QED BY <1>1, <3>1
  <2>2. Alone(actors, Start(r, "ready", "method", id, actors[id], "method"), instance)
    BY <1>2, <2>1, StartAlone DEF CallActive
  <2> QED BY <1>2, <2>2, HeapAlone DEF CallActive
<1>3. CASE CallInactive(r, id)
  <2>1. PICK i \in Instances :
           /\ ~Reachable(actors, request, i)
           /\ Heap(actors, Start(r, "hook", "method", id, i, "activate"),
                   [instance EXCEPT ![i] = Created(id)])
    BY <1>3 DEF CallInactive
  <2> DEFINE objs == [instance EXCEPT ![i] = Created(id)]
  <2>2. Placed(Start(r, "hook", "method", id, i, "activate")[r], actors, objs)
    <3> DEFINE q == [stage |-> "hook", kind |-> "method", id |-> id, inst |-> i, why |-> "activate",
                 batch |-> EmptyTracker]
    <3>1. actors[id] = None
      BY <1>3 DEF CallInactive
    <3>2. Placed(q, actors, objs)
      BY <3>1 DEF Placed, Activating
    <3> QED BY <1>1, <3>2
  <2>3. \A t \in Requests : Busy(t) => objs[request[t].inst] = instance[request[t].inst]
    <3>1. \A t \in Requests : Busy(t) => request[t].inst \in Instances /\ request[t].inst # i
      BY <2>1, BusyShape DEF Reachable, UsedBy, Busy, AtStage
    <3> QED BY <3>1 DEF ServingInv, Serving
  <2> HIDE DEF objs
  <2>4. Alone(actors, Start(r, "hook", "method", id, i, "activate"), objs)
    BY <1>3, <2>2, <2>3, StartAlone DEF CallInactive
  <2> QED BY <2>1, <2>4, HeapAlone DEF objs
<1>4. CASE Deactivate(r, id)
  <2>1. Placed(Start(r, "reset", "deactivate", id, actors[id], "deactivate")[r], actors, instance)
    <3> DEFINE q == [stage |-> "reset", kind |-> "deactivate", id |-> id, inst |-> actors[id], why |-> "deactivate",
                 batch |-> EmptyTracker]
    <3>1. Placed(q, actors, instance)
      BY DEF Placed, Activating
    <3> QED BY <1>1, <3>1
  <2>2. Alone(actors, Start(r, "reset", "deactivate", id, actors[id], "deactivate"), instance)
    BY <1>4, <2>1, StartAlone DEF Deactivate
  <2> QED BY <1>4, <2>2, HeapAlone DEF Deactivate
<1> QED BY <1>2, <1>3, <1>4 DEF Deliver

LEMMA WriteKeeps ==
    ASSUME ServingInv, NEW r \in Requests, Busy(r), NEW t
    PROVE  /\ StillDeactivated(instance)
           /\ StillDeactivated(WithTracker(r, t))
           /\ StillDeactivated([WithTracker(r, t) EXCEPT ![request[r].inst].activated = TRUE])
           /\ StillDeactivated([instance EXCEPT ![request[r].inst].activated = TRUE])
           /\ \A objs \in {instance, WithTracker(r, t)} :
                 LET ended == [objs EXCEPT ![request[r].inst].deactivated = TRUE]
                 IN StillDeactivated(ended) /\ ended[request[r].inst].deactivated
<1>1. \A s \in Requests : Busy(s) => /\ request[s].inst \in Instances
                                     /\ instance[request[s].inst] \in Objects
  BY BusyShape DEF Object
<1>2. instance \in [Instances -> Objects \cup {Collected}]
  BY DEF ServingInv, Serving
<1>3. ASSUME NEW o, NEW f, f = [instance EXCEPT ![request[r].inst] = o],
             o.deactivated = Object(r).deactivated
      PROVE  StillDeactivated(f)
  BY <1>1, <1>2, <1>3 DEF StillDeactivated, Object
<1>4. Object(r) \in Objects
  BY BusyShape
<1>5. StillDeactivated(WithTracker(r, t))
  <2> DEFINE o == [Object(r) EXCEPT !.tracker = t]
  <2>1. WithTracker(r, t) = [instance EXCEPT ![request[r].inst] = o]
    BY DEF WithTracker, Object
  <2>2. o.deactivated = Object(r).deactivated
    BY <1>4 DEF Objects
  <2> QED BY <1>3, <2>1, <2>2
<1>6. StillDeactivated([WithTracker(r, t) EXCEPT ![request[r].inst].activated = TRUE])
  <2> DEFINE o == [Object(r) EXCEPT !.tracker = t, !.activated = TRUE]
             f == [WithTracker(r, t) EXCEPT ![request[r].inst].activated = TRUE]
  <2>1. f = [instance EXCEPT ![request[r].inst] = o]
    BY <1>1, <1>2 DEF WithTracker, Object
  <2>2. o.deactivated = Object(r).deactivated
    BY <1>4 DEF Objects
  <2> HIDE DEF o, f
  <2>3. StillDeactivated(f)
    BY <1>3, <2>1, <2>2
  <2> QED BY <2>3 DEF f
<1>7. StillDeactivated([instance EXCEPT ![request[r].inst].activated = TRUE])
  <2> DEFINE o == [Object(r) EXCEPT !.activated = TRUE]
             f == [instance EXCEPT ![request[r].inst].activated = TRUE]
  <2>1. f = [instance EXCEPT ![request[r].inst] = o]
    BY DEF Object
  <2>2. o.deactivated = Object(r).deactivated
    BY <1>4 DEF Objects
  <2> HIDE DEF o, f
  <2>3. StillDeactivated(f)
    BY <1>3, <2>1, <2>2
  <2> QED BY <2>3 DEF f
<1>8. ASSUME NEW objs \in {instance, WithTracker(r, t)}
      PROVE  LET ended == [objs EXCEPT ![request[r].inst].deactivated = TRUE]
             IN StillDeactivated(ended) /\ ended[request[r].inst].deactivated
  <2>1. objs[request[r].inst] \in {Object(r), [Object(r) EXCEPT !.tracker = t]}
    BY <1>1, <1>2 DEF WithTracker, Object
  <2>2. \A i \in Instances : i # request[r].inst => objs[i] = instance[i]
    BY <1>1, <1>2 DEF WithTracker
  <2>3. request[r].inst \in Instances /\ request[r].inst \in DOMAIN objs
        /\ "deactivated" \in DOMAIN objs[request[r].inst]
    BY <1>1, <1>2, <1>4, <2>1 DEF WithTracker, Objects
  <2> QED BY <1>1, <2>2, <2>3 DEF StillDeactivated
<1> QED BY <1>5, <1>6, <1>7, <1>8 DEF StillDeactivated

\* A request goes to its next stage, of one that fits its kind.
LEMMA GotoAlone ==
    ASSUME ServingInv, ServingInv', Alone(actors, request, instance),
           NEW r \in Requests, Busy(r), NEW s \in Stages, NEW objs, StillDeactivated(objs),
           s \notin {"ready", "reset"},
           s = "unregister" => request[r].kind = "deactivate",
           s \in {"register", "fetch"} => request[r].why = "activate",
           request[r].why = "activate" /\ s # "fetch" => Activating(request[r]),
           s = "unregister" => objs[request[r].inst].deactivated,
           Heap(actors, Goto(r, s), objs)
    PROVE  Alone(actors, request, instance)'
<1> DEFINE q == [request[r] EXCEPT !.stage = s]
<1>1. request[r] \in Running /\ Placed(request[r], actors, instance)
  BY BusyShape DEF Alone, InUse, Busy, AtStage
<1>2. /\ q.inst = request[r].inst /\ q.id = request[r].id /\ q.kind = request[r].kind
      /\ q.why = request[r].why /\ q.stage = s
  BY <1>1 DEF Running
<1>3. Goto(r, s) = [request EXCEPT ![r] = q]
  BY DEF Goto
<1> HIDE DEF q
<1>4. Placed(q, actors, objs)
  BY <1>1, <1>2 DEF Placed, Activating
<1>5. Alone(actors, [request EXCEPT ![r] = q], objs)
  BY <1>2, <1>4, MoveAlone
<1> QED BY <1>3, <1>5, HeapAlone

LEMMA TrackAlone ==
    ASSUME ServingInv, ServingInv', Alone(actors, request, instance),
           NEW r \in Requests, NEW n, NEW o, Track(r, n, o)
    PROVE  Alone(actors, request, instance)'
<1> DEFINE objs == WithTracker(r, [Tracker(r) EXCEPT ![n] = o.entry])
<1>1. Busy(r) /\ Heap(actors, request, objs)
  BY DEF Track, Busy, AtStage
<1>2. StillDeactivated(objs)
  BY <1>1, WriteKeeps
<1> HIDE DEF objs
<1>3. Alone(actors, request, objs)
  BY <1>2 DEF Alone, Placed, StillDeactivated, InUse, Busy, AtStage
<1> QED BY <1>1, <1>3, HeapAlone

LEMMA UseStateAlone ==
    ASSUME ServingInv, ServingInv', Alone(actors, request, instance),
           NEW r \in Requests, UseState(r)
    PROVE  Alone(actors, request, instance)'
BY TrackAlone DEF UseState, SetState, GetState, RemoveState

LEMMA AfterSaveAlone ==
    ASSUME ServingInv, ServingInv', Alone(actors, request, instance),
           NEW r \in Requests, request[r].stage \in {"hook", "saved"}, NEW t, NEW objs,
           objs \in {instance, WithTracker(r, t)}, AfterSave(r, objs)
    PROVE  Alone(actors, request, instance)'
<1>1. Busy(r) /\ request[r] \in Running
  BY BusyShape DEF Busy, AtStage
<1>2. Placed(request[r], actors, instance)
  BY <1>1 DEF Alone, InUse, Busy, AtStage
<1>3. /\ StillDeactivated(objs)
      /\ StillDeactivated([objs EXCEPT ![request[r].inst].activated = TRUE])
  BY <1>1, WriteKeeps
<1>4. CASE request[r].why = "activate"
  <2>1. Heap(actors, Goto(r, "register"), [objs EXCEPT ![request[r].inst].activated = TRUE])
    BY <1>4 DEF AfterSave
  <2>2. Activating(request[r]) /\ request[r].kind # "deactivate"
    BY <1>2, <1>4 DEF Activating, Placed
  <2> QED BY <1>1, <1>3, <1>4, <2>1, <2>2, GotoAlone DEF Stages
<1>5. CASE request[r].why = "deactivate"
  <2> DEFINE ended == [objs EXCEPT ![request[r].inst].deactivated = TRUE]
  <2>1. Heap(actors, Goto(r, "unregister"), ended)
    BY <1>5 DEF AfterSave
  <2>2. request[r].kind = "deactivate"
    BY <1>2, <1>5 DEF Placed
  <2>3. StillDeactivated(ended) /\ ended[request[r].inst].deactivated
    BY <1>1, WriteKeeps
  <2> HIDE DEF ended
  <2> QED BY <1>1, <1>5, <2>1, <2>2, <2>3, GotoAlone DEF Stages
<1>6. CASE request[r].why = "method"
  <2>1. Heap(actors, Ended(r), objs)
    BY <1>6 DEF AfterSave
  <2> QED BY <1>3, <2>1, EndAlone, HeapAlone
<1> QED BY <1>1, <1>4, <1>5, <1>6 DEF Running

LEMMA ReturnAlone ==
    ASSUME ServingInv, ServingInv', Alone(actors, request, instance),
           NEW r \in Requests, Return(r)
    PROVE  Alone(actors, request, instance)'
<1>1. CASE HookThrows(r)
  BY <1>1, ThrowAlone DEF HookThrows
<1>2. CASE HookReturnsUnchanged(r)
  BY <1>2, AfterSaveAlone DEF HookReturnsUnchanged, AtStage
<1>3. CASE SaveState(r)
  <2> DEFINE objs == WithTracker(r, MarkUnmodified(Tracker(r)))
             q == [request[r] EXCEPT !.stage = "saving", !.batch = BatchOf(Tracker(r))]
  <2>1. Busy(r) /\ request[r] \in Running /\ request[r].stage = "hook"
    BY <1>3, BusyShape DEF SaveState, Busy, AtStage
  <2>2. /\ q.inst = request[r].inst /\ q.id = request[r].id /\ q.kind = request[r].kind
        /\ q.why = request[r].why /\ q.stage = "saving"
    BY <2>1 DEF Running
  <2>3. Heap(actors, [request EXCEPT ![r] = q], objs)
    BY <1>3 DEF SaveState
  <2>4. StillDeactivated(objs) /\ Placed(request[r], actors, instance)
    BY <2>1, WriteKeeps DEF Alone, InUse
  <2> HIDE DEF objs, q
  <2>5. Placed(q, actors, objs)
    BY <2>1, <2>2, <2>4 DEF Placed, Activating, StillDeactivated
  <2>6. Alone(actors, [request EXCEPT ![r] = q], objs)
    BY <2>1, <2>2, <2>4, <2>5, MoveAlone
  <2> QED BY <2>3, <2>6, HeapAlone
<1> QED BY <1>1, <1>2, <1>3 DEF Return

LEMMA ContinueAlone ==
    ASSUME ServingInv, ServingInv', Alone(actors, request, instance),
           NEW r \in Requests, Continue(r)
    PROVE  Alone(actors, request, instance)'
<1>1. Busy(r)
  BY DEF Continue, Register, GetActiveActor, CallMethod, MethodDoesNotExist, ResetState,
         Unregister, SaveStateResumes, Busy, AtStage
<1>2. /\ request[r] \in Running /\ request[r].inst \in Instances /\ request[r].id \in Ids
      /\ request[r].inst # None
      /\ Placed(request[r], actors, instance) /\ StillDeactivated(instance)
  BY <1>1, BusyShape, ManagerAssumption DEF Alone, InUse, Busy, AtStage, StillDeactivated
<1>3. \A s \in Requests : InUse(request, s) /\ s # r /\ request[s].id = request[r].id
                             => request[s].kind # request[r].kind
  BY <1>1 DEF Alone, InUse, Busy, AtStage
<1>4. CASE Register(r)
  <2> DEFINE acts == [actors EXCEPT ![request[r].id] = request[r].inst]
             q == [request[r] EXCEPT !.stage = "fetch"]
             reqs == [request EXCEPT ![r] = q]
  <2>1. /\ Heap(acts, reqs, instance)
        /\ request[r].stage = "register" /\ request[r].why = "activate"
        /\ request[r].kind = "method" /\ actors[request[r].id] = None
    BY <1>2, <1>4 DEF Register, Goto, AtStage, Placed, Activating, Running
  <2>2. /\ q.inst = request[r].inst /\ q.id = request[r].id /\ q.kind = "method"
        /\ q.why = "activate" /\ q.stage = "fetch"
    BY <1>2, <2>1 DEF Running
  <2>3. reqs[r] = q /\ \A s \in Requests : s # r => reqs[s] = request[s]
    BY DEF ServingInv, Serving
  <2>4. /\ acts[request[r].id] = request[r].inst
        /\ \A id \in Ids : id # request[r].id => acts[id] = actors[id]
    BY <1>2 DEF ServingInv, Serving
  <2> HIDE DEF acts, q, reqs
  <2>5. ASSUME NEW s \in Requests, s # r, InUse(request, s)
        PROVE  request[s].id # request[r].id
    <3>1. request[s] \in Running /\ request[s].inst \in Instances
          /\ Placed(request[s], actors, instance)
      BY <2>5, BusyShape DEF Alone, InUse, Busy, AtStage
    <3> QED BY <1>3, <2>1, <2>5, <3>1, ManagerAssumption DEF Placed, Running
  <2>6. \A s \in Requests : s # r /\ InUse(request, s) => request[s].id \in Ids
    BY BusyShape DEF InUse, Busy, AtStage
  <2>7. Placed(q, acts, instance)
    BY <2>2, <2>4 DEF Placed, Activating
  <2>8. \A s \in Requests : InUse(reqs, s) => Placed(reqs[s], acts, instance)
    BY <2>3, <2>4, <2>5, <2>6, <2>7 DEF Alone, Placed, InUse
  <2>9. Alone(acts, reqs, instance)
    BY <2>2, <2>3, <2>5, <2>8 DEF Alone, InUse
  <2> QED BY <2>1, <2>9, HeapAlone
<1>5. CASE GetActiveActor(r)
  <2> DEFINE i == actors[request[r].id]
             q == [request[r] EXCEPT !.stage = "ready", !.inst = i]
  <2>1. CASE i = None
    BY <1>5, <2>1, ThrowAlone DEF GetActiveActor
  <2>2. CASE i # None
    <3>1. request[r].stage = "fetch" /\ request[r].why = "activate" /\ request[r].kind = "method"
          /\ i = request[r].inst
      BY <1>2, <1>5, <2>2 DEF GetActiveActor, AtStage, Placed, Running
    <3>2. /\ q.inst = i /\ q.id = request[r].id /\ q.kind = "method"
          /\ q.why = "activate" /\ q.stage = "ready"
      BY <1>2, <3>1 DEF Running
    <3>3. Heap(actors, [request EXCEPT ![r] = q], instance)
      BY <1>5, <2>2 DEF GetActiveActor, Throw
    <3> HIDE DEF q
    <3>4. Placed(q, actors, instance)
      BY <3>2 DEF Placed, Activating
    <3>5. Alone(actors, [request EXCEPT ![r] = q], instance)
      BY <1>1, <1>2, <3>1, <3>2, <3>4, MoveAlone
    <3> QED BY <3>3, <3>5, HeapAlone
  <2> QED BY <2>1, <2>2
<1>6. CASE CallMethod(r)
  <2> DEFINE q == [request[r] EXCEPT !.stage = "hook", !.why = "method"]
  <2>1. request[r].kind = "method"
    BY <1>2, <1>6 DEF CallMethod, AtStage, Placed
  <2>2. /\ q.inst = request[r].inst /\ q.id = request[r].id /\ q.kind = "method"
        /\ q.why = "method" /\ q.stage = "hook"
    BY <1>2, <2>1 DEF Running
  <2>3. Heap(actors, [request EXCEPT ![r] = q], instance)
    BY <1>6 DEF CallMethod
  <2> HIDE DEF q
  <2>4. Placed(q, actors, instance)
    BY <1>2, <2>2 DEF Placed, Activating
  <2>5. Alone(actors, [request EXCEPT ![r] = q], instance)
    BY <1>1, <1>2, <2>1, <2>2, <2>4, MoveAlone
  <2> QED BY <2>3, <2>5, HeapAlone
<1>7. CASE MethodDoesNotExist(r)
  BY <1>7, ThrowAlone DEF MethodDoesNotExist
<1>8. CASE ResetState(r)
  <2> DEFINE objs == [instance EXCEPT ![request[r].inst].tracker = EmptyTracker]
  <2>1. Heap(actors, Goto(r, "hook"), objs) /\ request[r].kind = "deactivate"
        /\ request[r].why = "deactivate"
    BY <1>2, <1>8 DEF ResetState, AtStage, Placed
  <2>2. instance \in [Instances -> Objects \cup {Collected}] /\ Object(r) \in Objects
        /\ \A s \in Requests : Busy(s) => /\ request[s].inst \in Instances
                                          /\ instance[request[s].inst] \in Objects
    BY <1>1, BusyShape DEF ServingInv, Serving, Object
  <2>3. StillDeactivated(objs)
    BY <1>2, <2>2 DEF StillDeactivated, Objects, Object
  <2> HIDE DEF objs
  <2> QED BY <1>1, <2>1, <2>3, GotoAlone DEF Stages
<1>9. CASE Unregister(r)
  <2> DEFINE acts == [actors EXCEPT ![request[r].id] = None]
  <2>1. Heap(acts, Ended(r), instance) /\ request[r].kind = "deactivate"
    BY <1>2, <1>9 DEF Unregister, AtStage, Placed
  <2>2. Ended(r)[r] = Idle /\ \A s \in Requests : s # r => Ended(r)[s] = request[s]
    BY DEF ServingInv, Serving, Ended
  <2>3. /\ acts[request[r].id] = None
        /\ \A id \in Ids : id # request[r].id => acts[id] = actors[id]
    BY <1>2 DEF ServingInv, Serving
  <2>4. \A s \in Requests : InUse(request, s) => request[s].id \in Ids
    BY BusyShape DEF InUse, Busy, AtStage
  <2> HIDE DEF acts
  <2>5. \A s \in Requests : InUse(Ended(r), s) => Placed(Ended(r)[s], acts, instance)
    BY <1>3, <2>1, <2>2, <2>3, <2>4 DEF Alone, Placed, InUse, Idle
  <2>6. Alone(acts, Ended(r), instance)
    BY <2>2, <2>5 DEF Alone, InUse, Idle
  <2> QED BY <2>1, <2>6, HeapAlone
<1>10. CASE SaveStateResumes(r)
  BY <1>10, AfterSaveAlone DEF SaveStateResumes, AtStage
<1> QED BY <1>4, <1>5, <1>6, <1>7, <1>8, <1>9, <1>10 DEF Continue

LEMMA SidecarAlone ==
    ASSUME ServingInv, ServingInv', Alone(actors, request, instance),
           NEW r \in Requests, Sidecar(r)
    PROVE  Alone(actors, request, instance)'
<1>1. CASE StateTransaction(r)
  <2>1. Busy(r) /\ request[r] \in Running /\ request[r].stage = "saving"
        /\ Heap(actors, Goto(r, "saved"), instance)
    BY <1>1, BusyShape DEF StateTransaction, Busy, AtStage
  <2>2. Placed(request[r], actors, instance)
    BY <2>1 DEF Alone, InUse
  <2> QED BY <2>1, <2>2, GotoAlone DEF Stages, Placed, Activating, StillDeactivated
<1>2. CASE StateTransactionFails(r)
  BY <1>2, ThrowAlone DEF StateTransactionFails
<1> QED BY <1>1, <1>2 DEF Sidecar

LEMMA CrashAlone ==
    ASSUME ServingInv', Crash
    PROVE  Alone(actors, request, instance)'
<1>1. Alone([id \in Ids |-> None], [r \in Requests |-> Idle], instance)
  BY DEF Alone, InUse, Idle
<1> QED BY <1>1, HeapAlone DEF Crash

LEMMA AloneStep == ServingInv /\ AloneInv /\ [Next]_vars => AloneInv'
<1> SUFFICES ASSUME ServingInv, AloneInv, [Next]_vars
             PROVE  AloneInv'
  OBVIOUS
<1>1. ServingInv' /\ discipline' = discipline
  BY ServingStep DEF Next, vars
<1>2. CASE UNCHANGED vars
  BY <1>2 DEF vars, AloneInv
<1>3. ASSUME discipline # "free", NEW r \in Requests, NEW id \in Ids, Deliver(r, id)
      PROVE  Alone(actors, request, instance)'
  BY <1>1, <1>3, DeliverAlone
<1>4. ASSUME discipline # "free", NEW r \in Requests,
             UseState(r) \/ Return(r) \/ Continue(r) \/ Sidecar(r)
      PROVE  Alone(actors, request, instance)'
  <2>1. Alone(actors, request, instance)
    BY <1>4 DEF AloneInv
  <2> QED BY <1>1, <1>4, <2>1, UseStateAlone, ReturnAlone, ContinueAlone, SidecarAlone
<1>5. ASSUME Crash
      PROVE  Alone(actors, request, instance)'
  BY <1>1, <1>5, CrashAlone
<1>6. CASE Next
  BY <1>1, <1>3, <1>4, <1>5, <1>6 DEF Next, Step, AloneInv
<1> QED BY <1>2, <1>6

LEMMA AloneInit == Init => AloneInv
BY DEF Init, AloneInv, Alone, InUse, Idle

\* What is used for an id is its instance in the Map or that of a request.
LEMMA OneInstance ==
    ASSUME ServingInv, AloneInv
    PROVE  SingleInstance
<1> SUFFICES ASSUME discipline # "free", NEW i \in Instances, NEW j \in Instances,
                    Used(i), Used(j), instance[i].id = instance[j].id
             PROVE  i = j
  BY DEF SingleInstance
<1> DEFINE id == instance[i].id
<1>1. Alone(actors, request, instance)
  BY DEF AloneInv
<1>2. ASSUME NEW k \in Instances, Used(k)
      PROVE  \/ instance[k].id \in Ids /\ actors[instance[k].id] = k
             \/ \E r \in Requests : /\ InUse(request, r) /\ request[r].inst = k
                                    /\ request[r].id = instance[k].id
  <2>1. CASE \E a \in Ids : actors[a] = k
    <3>1. PICK a \in Ids : actors[a] = k
      BY <2>1
    <3>2. instance[k].id = a
      BY <3>1, ManagerAssumption DEF ServingInv, Serving
    <3> QED BY <3>1, <3>2
  <2>2. CASE UsedBy(request, k)
    <3>1. PICK r \in Requests : request[r].stage # "idle" /\ request[r].inst = k
      BY <2>2 DEF UsedBy
    <3>2. instance[k].id = request[r].id
      BY <3>1 DEF ServingInv, Serving, ServesWell
    <3> QED BY <3>1, <3>2 DEF InUse
  <2> QED BY <1>2, <2>1, <2>2 DEF Used, Reachable
<1>3. \A r \in Requests : InUse(request, r) =>
         /\ Placed(request[r], actors, instance) /\ request[r] \in Running
  BY <1>1, BusyShape DEF Alone, InUse, Busy, AtStage
<1>4. CASE actors[id] = i
  BY <1>2, <1>3, <1>4, ManagerAssumption DEF Placed
<1>5. CASE actors[id] = j
  BY <1>2, <1>3, <1>5, ManagerAssumption DEF Placed
<1>6. CASE actors[id] # i /\ actors[id] # j
  <2>1. PICK r \in Requests : InUse(request, r) /\ request[r].inst = i /\ request[r].id = id
    BY <1>2, <1>6
  <2>2. PICK s \in Requests : InUse(request, s) /\ request[s].inst = j /\ request[s].id = id
    BY <1>2, <1>6
  <2>3. request[r].kind = "method" /\ request[s].kind = "method"
    BY <1>3, <1>6, <2>1, <2>2 DEF Placed, Running
  <2>4. r = s
    BY <1>1, <2>1, <2>2, <2>3 DEF Alone
  <2> QED BY <2>1, <2>2, <2>4
<1> QED BY <1>4, <1>5, <1>6

\* If the sidecar does not let the calls of an id overlap, an id is served by
\* one instance at a time, whatever is activated, deactivated, fails or
\* crashes, and however a deactivation overlaps the call in progress.
THEOREM OneInstanceServes == Spec => []SingleInstance
BY ServingInit, ServingStep, AloneInit, AloneStep, OneInstance, PTL DEF Spec

\* What the Map holds changes by a registration, a removal or a crash.
LEMMA MapKept ==
    ASSUME NEW r \in Requests,
           \/ \E id \in Ids : Deliver(r, id)
           \/ UseState(r) \/ Return(r) \/ Sidecar(r)
           \/ GetActiveActor(r) \/ CallMethod(r) \/ MethodDoesNotExist(r)
           \/ ResetState(r) \/ SaveStateResumes(r)
    PROVE  actors' = actors
<1> USE DEF Heap, Throw
<1>1. ASSUME NEW objs, AfterSave(r, objs)
      PROVE  actors' = actors
  BY <1>1 DEF AfterSave
<1>2. CASE \E id \in Ids : Deliver(r, id)
  BY <1>2 DEF Deliver, CallActive, CallInactive, Deactivate
<1>3. CASE UseState(r)
  BY <1>3 DEF UseState, SetState, GetState, RemoveState, Track
<1>4. CASE Return(r)
  BY <1>1, <1>4 DEF Return, HookThrows, HookReturnsUnchanged, SaveState
<1>5. CASE Sidecar(r)
  BY <1>5 DEF Sidecar, StateTransaction, StateTransactionFails
<1>6. CASE \/ GetActiveActor(r) \/ CallMethod(r) \/ MethodDoesNotExist(r)
           \/ ResetState(r) \/ SaveStateResumes(r)
  BY <1>1, <1>6 DEF GetActiveActor, CallMethod, MethodDoesNotExist, ResetState,
                    SaveStateResumes
<1> QED BY <1>2, <1>3, <1>4, <1>5, <1>6

\* One step takes from the Map only what has been deactivated, or it ends the
\* process.
LeaveStep ==
    \A id \in Ids :
        discipline # "free" /\ actors[id] # None /\ actors'[id] # actors[id] =>
            \/ instance[actors[id]].deactivated /\ actors'[id] = None
            \/ Crash /\ ~\E r \in Requests : Unregister(r)

LEMMA NextLeaves == ServingInv /\ AloneInv /\ [Next]_vars => [LeaveStep]_vars
<1> SUFFICES ASSUME ServingInv, AloneInv, Next, NEW id \in Ids, discipline # "free",
                    actors[id] # None, actors'[id] # actors[id],
                    ~(Crash /\ ~\E r \in Requests : Unregister(r))
             PROVE  instance[actors[id]].deactivated /\ actors'[id] = None
  BY DEF LeaveStep
<1>1. PICK r \in Requests : Register(r) \/ Unregister(r)
  BY MapKept DEF Next, Step, Continue
<1>2. Busy(r) /\ request[r] \in Running /\ Placed(request[r], actors, instance)
  <2>1. Busy(r)
    BY <1>1 DEF Register, Unregister, Busy, AtStage
  <2> QED BY <2>1, BusyShape DEF AloneInv, Alone, InUse, Busy, AtStage
<1>3. CASE Register(r)
  <2>1. actors' = [actors EXCEPT ![request[r].id] = request[r].inst] /\ Activating(request[r])
    BY <1>2, <1>3 DEF Register, Heap, AtStage, Placed, Activating
  <2> QED BY <1>2, <2>1 DEF Placed, ServingInv, Serving
<1>4. CASE Unregister(r)
  <2>1. actors' = [actors EXCEPT ![request[r].id] = None] /\ request[r].stage = "unregister"
    BY <1>4 DEF Unregister, Heap, AtStage
  <2> QED BY <1>2, <2>1 DEF Placed, ServingInv, Serving
<1> QED BY <1>1, <1>3, <1>4

\* If the sidecar does not let the calls of an id overlap, an instance leaves
\* the Map only once its own onDeactivate hook has ended and its changes are
\* saved, or because the process ends.
THEOREM DeactivatedLeave == Spec => OnlyDeactivatedLeave
<1>1. OnlyDeactivatedLeave <=> [][LeaveStep]_vars
  BY PTL DEF OnlyDeactivatedLeave, LeaveStep
<1> QED BY <1>1, ServingInit, ServingStep, AloneInit, AloneStep, NextLeaves, PTL DEF Spec

-----------------------------------------------------------------------------
(* What an instance has cached, when calls take turns and nothing fails    *)
(* but the process.                                                        *)

PlainTurns == Disciplines = {"turns"} /\ "hook" \notin Failures /\ "commit" \notin Failures

\* The cache of a tracker agrees with the store.
Agrees(t, s) == \A n \in Names : t[n].kind = "NONE" => t[n].value = s[n]

Clean(t, s) == Agrees(t, s) /\ \A n \in Names : t[n].kind \notin Pending

\* What a transaction has not carried, or is about to make true.
CleanAfter(t, batch, s) == \A n \in Names :
    /\ t[n].kind \notin Pending
    /\ t[n].kind = "NONE" => batch[n].kind = "REMOVE" \/ t[n].value = s[n]

Fits(q, o, s) ==
    /\ q.stage \in {"reset", "register", "fetch", "ready"} => Clean(o.tracker, s)
    /\ q.stage = "hook" => Agrees(o.tracker, s)
    /\ q.stage = "saving" => CleanAfter(o.tracker, q.batch, Commit(s, q.batch))
    /\ q.stage = "saved" => CleanAfter(o.tracker, q.batch, s)
    /\ q.why # "deactivate" => ~o.deactivated

Rests(reqs, id) == \A r \in Requests : InUse(reqs, r) => reqs[r].id # id

Turning(acts, reqs, objs, st) ==
    /\ \A r \in Requests : InUse(reqs, r) => Fits(reqs[r], objs[reqs[r].inst], st[reqs[r].id])
    /\ \A id \in Ids : acts[id] # None /\ Rests(reqs, id) =>
          Clean(objs[acts[id]].tracker, st[id]) /\ ~objs[acts[id]].deactivated
    /\ \A r, s \in Requests :
          InUse(reqs, r) /\ InUse(reqs, s) /\ reqs[r].id = reqs[s].id => r = s

\* That a call starts with a cache that is current is not inductive: it rests
\* on how each instance was left, by its last call or while one is running.
TurnsInv == Turning(actors, request, instance, store)

LEMMA HeapTurns ==
    ASSUME NEW acts, NEW reqs, NEW objs, Heap(acts, reqs, objs), ServingInv',
           Turning(acts, reqs, objs, store')
    PROVE  TurnsInv'
<1>1. actors' = acts /\ request' = reqs
  BY DEF Heap
<1>2. ASSUME NEW r \in Requests, InUse(reqs, r)
      PROVE  instance'[reqs[r].inst] = objs[reqs[r].inst]
  <2>1. reqs[r].inst \in Instances
    BY <1>1, <1>2 DEF ServingInv, Serving, Running, Idle, InUse
  <2>2. Reachable(acts, reqs, reqs[r].inst)
    BY <1>2 DEF Reachable, UsedBy, InUse
  <2> QED BY <2>1, <2>2 DEF Heap
<1>3. ASSUME NEW id \in Ids, acts[id] # None
      PROVE  instance'[acts[id]] = objs[acts[id]]
  <2>1. acts[id] \in Instances
    BY <1>1, <1>3 DEF ServingInv, Serving
  <2>2. Reachable(acts, reqs, acts[id])
    BY DEF Reachable
  <2> QED BY <2>1, <2>2 DEF Heap
<1> QED BY <1>1, <1>2, <1>3 DEF TurnsInv, Turning

\* What a step of one request may leave as it is: the instances of other ids
\* in the Map and of other requests, and what the sidecar holds for them.
Elsewhere(r, acts, objs, st) ==
    /\ \A id \in Ids : id # request[r].id => acts[id] = actors[id] /\ st[id] = store[id]
    /\ \A i \in Instances : i # request[r].inst => objs[i] = instance[i]

\* The other instances in use are not the one of this request.
LEMMA OthersApart ==
    ASSUME ServingInv, TurnsInv, NEW r \in Requests, Busy(r)
    PROVE  /\ request[r].inst \in Instances /\ request[r].id \in Ids
           /\ Object(r) \in Objects /\ Object(r).id = request[r].id
           /\ Stored(r) = store[request[r].id]
           /\ \A id \in Ids : actors[id] # None /\ id # request[r].id =>
                 actors[id] \in Instances /\ actors[id] # request[r].inst
           /\ \A s \in Requests : Busy(s) /\ s # r =>
                 /\ request[s].id \in Ids /\ request[s].id # request[r].id
                 /\ request[s].inst \in Instances /\ request[s].inst # request[r].inst
<1>1. /\ request[r].inst \in Instances /\ request[r].id \in Ids
      /\ Object(r) \in Objects /\ Object(r).id = request[r].id
  BY BusyShape DEF ServesWell
<1>2. ASSUME NEW s \in Requests, Busy(s), s # r
      PROVE  /\ request[s].id \in Ids /\ request[s].id # request[r].id
             /\ request[s].inst \in Instances /\ request[s].inst # request[r].inst
  <2>1. /\ request[s].inst \in Instances /\ request[s].id \in Ids
        /\ Object(s).id = request[s].id
    BY <1>2, BusyShape DEF ServesWell
  <2>2. request[s].id # request[r].id
    BY <1>2 DEF TurnsInv, Turning, InUse, Busy, AtStage
  <2> QED BY <1>1, <2>1, <2>2 DEF Object
<1>3. ASSUME NEW id \in Ids, actors[id] # None, id # request[r].id
      PROVE  actors[id] \in Instances /\ actors[id] # request[r].inst
  BY <1>1, <1>3 DEF ServingInv, Serving, Object
<1> QED BY <1>1, <1>2, <1>3 DEF Stored

LEMMA MoveTurns ==
    ASSUME ServingInv, TurnsInv, NEW r \in Requests, Busy(r),
           NEW q, q.id = request[r].id, q.inst = request[r].inst, q.stage # "idle",
           NEW acts, NEW objs, NEW st, Elsewhere(r, acts, objs, st),
           Fits(q, objs[q.inst], st[q.id])
    PROVE  Turning(acts, [request EXCEPT ![r] = q], objs, st)
<1> DEFINE reqs == [request EXCEPT ![r] = q]
<1>1. reqs[r] = q /\ \A s \in Requests : s # r => reqs[s] = request[s]
  BY DEF ServingInv, Serving
<1> HIDE DEF reqs
<1>2. InUse(request, r) /\ InUse(reqs, r)
  BY <1>1 DEF InUse, Busy, AtStage
<1>3. \A s \in Requests : s # r /\ InUse(request, s) =>
         /\ objs[request[s].inst] = instance[request[s].inst]
         /\ st[request[s].id] = store[request[s].id]
  BY OthersApart DEF Elsewhere, InUse, Busy, AtStage
<1>4. \A s \in Requests : InUse(reqs, s) => Fits(reqs[s], objs[reqs[s].inst], st[reqs[s].id])
  BY <1>1, <1>3 DEF TurnsInv, Turning, InUse
<1>5. \A id \in Ids : acts[id] # None /\ Rests(reqs, id) =>
         Clean(objs[acts[id]].tracker, st[id]) /\ ~objs[acts[id]].deactivated
  <2> SUFFICES ASSUME NEW id \in Ids, acts[id] # None, Rests(reqs, id)
               PROVE  Clean(objs[acts[id]].tracker, st[id]) /\ ~objs[acts[id]].deactivated
    OBVIOUS
  <2>1. id # request[r].id
    BY <1>1, <1>2 DEF Rests
  <2>2. acts[id] = actors[id] /\ st[id] = store[id] /\ objs[actors[id]] = instance[actors[id]]
    BY <2>1, OthersApart DEF Elsewhere
  <2>3. Rests(request, id)
    BY <1>1, <2>1 DEF Rests, InUse
  <2> QED BY <2>2, <2>3 DEF TurnsInv, Turning
<1>6. \A s, t \in Requests :
         InUse(reqs, s) /\ InUse(reqs, t) /\ reqs[s].id = reqs[t].id => s = t
  BY <1>1, <1>2 DEF TurnsInv, Turning, InUse
<1>7. Turning(acts, reqs, objs, st)
  BY <1>4, <1>5, <1>6 DEF Turning
<1> QED BY <1>7 DEF reqs

LEMMA EndTurns ==
    ASSUME ServingInv, TurnsInv, NEW r \in Requests, Busy(r),
           NEW acts, NEW objs, Elsewhere(r, acts, objs, store),
           acts[request[r].id] # None =>
              /\ acts[request[r].id] = request[r].inst
              /\ Clean(objs[request[r].inst].tracker, store[request[r].id])
              /\ ~objs[request[r].inst].deactivated
    PROVE  Turning(acts, Ended(r), objs, store)
<1> DEFINE reqs == Ended(r)
<1>1. ~InUse(reqs, r) /\ \A s \in Requests : s # r => reqs[s] = request[s]
  BY DEF ServingInv, Serving, InUse, Idle, Ended
<1> HIDE DEF reqs
<1>2. \A s \in Requests : s # r /\ InUse(request, s) =>
         objs[request[s].inst] = instance[request[s].inst]
  BY OthersApart DEF Elsewhere, InUse, Busy, AtStage
<1>3. \A s \in Requests : InUse(reqs, s) => Fits(reqs[s], objs[reqs[s].inst], store[reqs[s].id])
  BY <1>1, <1>2 DEF TurnsInv, Turning, InUse
<1>4. \A id \in Ids : acts[id] # None /\ Rests(reqs, id) =>
         Clean(objs[acts[id]].tracker, store[id]) /\ ~objs[acts[id]].deactivated
  <2> SUFFICES ASSUME NEW id \in Ids, acts[id] # None, Rests(reqs, id), id # request[r].id
               PROVE  Clean(objs[acts[id]].tracker, store[id]) /\ ~objs[acts[id]].deactivated
    OBVIOUS
  <2>1. acts[id] = actors[id] /\ objs[actors[id]] = instance[actors[id]]
    BY OthersApart DEF Elsewhere
  <2>2. Rests(request, id)
    BY <1>1 DEF Rests, InUse
  <2> QED BY <2>1, <2>2 DEF TurnsInv, Turning
<1>5. \A s, t \in Requests :
         InUse(reqs, s) /\ InUse(reqs, t) /\ reqs[s].id = reqs[t].id => s = t
  BY <1>1 DEF TurnsInv, Turning, InUse
<1>6. Turning(acts, reqs, objs, store)
  BY <1>3, <1>4, <1>5 DEF Turning
<1> QED BY <1>6 DEF reqs

\* A request comes while no other of its id is on its way.
LEMMA StartTurns ==
    ASSUME ServingInv, TurnsInv, NEW r \in Requests, NEW id \in Ids, ~Busy(r),
           Rests(request, id),
           NEW s, s # "idle", NEW k, NEW i, NEW w, NEW objs,
           \A t \in Requests : Busy(t) => objs[request[t].inst] = instance[request[t].inst],
           \A a \in Ids : actors[a] # None => objs[actors[a]] = instance[actors[a]],
           NEW q,
           q = [stage |-> s, kind |-> k, id |-> id, inst |-> i, why |-> w,
                batch |-> EmptyTracker],
           Fits(q, objs[i], store[id])
    PROVE  Turning(actors, Start(r, s, k, id, i, w), objs, store)
<1> DEFINE reqs == Start(r, s, k, id, i, w)
<1>1. reqs[r] = q /\ \A t \in Requests : t # r => reqs[t] = request[t]
  BY DEF Start, ServingInv, Serving
<1>2. q.id = id /\ q.inst = i /\ q.stage = s
  OBVIOUS
<1> HIDE DEF reqs
<1>3. \A t \in Requests : InUse(reqs, t) => Fits(reqs[t], objs[reqs[t].inst], store[reqs[t].id])
  BY <1>1, <1>2 DEF TurnsInv, Turning, InUse, Busy, AtStage
<1>4. \A a \in Ids : Rests(reqs, a) => Rests(request, a)
  BY <1>1 DEF Rests, InUse, Busy, AtStage
<1>5. \A t, u \in Requests :
         InUse(reqs, t) /\ InUse(reqs, u) /\ reqs[t].id = reqs[u].id => t = u
  BY <1>1, <1>2 DEF TurnsInv, Turning, InUse, Rests
<1>6. Turning(actors, reqs, objs, store)
  BY <1>3, <1>4, <1>5 DEF TurnsInv, Turning
<1> QED BY <1>6 DEF reqs

LEMMA EmptyAgrees == \A s : Clean(EmptyTracker, s)
BY DEF Clean, Agrees, EmptyTracker, Untracked, Entry, Pending

LEMMA DeliverTurns ==
    ASSUME PlainTurns, ServingInv, ServingInv', AloneInv, TurnsInv,
           NEW r \in Requests, NEW id \in Ids, Deliver(r, id)
    PROVE  TurnsInv'
<1>1. ASSUME NEW k, MayStart(id, k)
      PROVE  Rests(request, id)
  BY <1>1 DEF MayStart, PlainTurns, AloneInv, Rests, InUse, Busy, AtStage
<1>2. ASSUME actors[id] # None, Rests(request, id)
      PROVE  Clean(instance[actors[id]].tracker, store[id]) /\ ~instance[actors[id]].deactivated
  BY <1>2 DEF TurnsInv, Turning
<1>3. CASE CallActive(r, id)
  <2> DEFINE i == actors[id]
             q == [stage |-> "ready", kind |-> "method", id |-> id, inst |-> i,
                   why |-> "method", batch |-> EmptyTracker]
  <2>1. Rests(request, id) /\ actors[id] # None /\ ~Busy(r)
    BY <1>1, <1>3 DEF CallActive
  <2>2. Fits(q, instance[i], store[id])
    BY <1>2, <2>1 DEF Fits
  <2>3. Turning(actors, Start(r, "ready", "method", id, i, "method"), instance, store)
    BY <2>1, <2>2, StartTurns
  <2> QED BY <1>3, <2>3, HeapTurns DEF CallActive
<1>4. CASE CallInactive(r, id)
  <2>1. PICK i \in Instances :
           /\ ~Reachable(actors, request, i)
           /\ Heap(actors, Start(r, "hook", "method", id, i, "activate"),
                   [instance EXCEPT ![i] = Created(id)])
    BY <1>4 DEF CallInactive
  <2> DEFINE objs == [instance EXCEPT ![i] = Created(id)]
             q == [stage |-> "hook", kind |-> "method", id |-> id, inst |-> i,
                   why |-> "activate", batch |-> EmptyTracker]
  <2>2. Rests(request, id) /\ ~Busy(r)
    BY <1>1, <1>4 DEF CallInactive
  <2>3. \A t \in Requests : Busy(t) => objs[request[t].inst] = instance[request[t].inst]
    <3>1. \A t \in Requests : Busy(t) => request[t].inst \in Instances /\ request[t].inst # i
      BY <2>1, BusyShape DEF Reachable, UsedBy, Busy, AtStage
    <3> QED BY <3>1 DEF ServingInv, Serving
  <2>4. \A a \in Ids : actors[a] # None => objs[actors[a]] = instance[actors[a]]
    BY <2>1 DEF Reachable, ServingInv, Serving
  <2>5. objs[i] = Created(id)
    BY DEF ServingInv, Serving
  <2>6. Fits(q, objs[i], store[id])
    BY <2>5, EmptyAgrees DEF Fits, Created, Clean
  <2> HIDE DEF objs
  <2>7. Turning(actors, Start(r, "hook", "method", id, i, "activate"), objs, store)
    BY <2>2, <2>3, <2>4, <2>6, StartTurns
  <2> QED BY <1>4, <2>1, <2>7, HeapTurns DEF CallInactive, objs
<1>5. CASE Deactivate(r, id)
  <2> DEFINE i == actors[id]
             q == [stage |-> "reset", kind |-> "deactivate", id |-> id, inst |-> i,
                   why |-> "deactivate", batch |-> EmptyTracker]
  <2>1. Rests(request, id) /\ actors[id] # None /\ ~Busy(r)
    BY <1>1, <1>5 DEF Deactivate
  <2>2. Fits(q, instance[i], store[id])
    BY <1>2, <2>1 DEF Fits
  <2>3. Turning(actors, Start(r, "reset", "deactivate", id, i, "deactivate"), instance, store)
    BY <2>1, <2>2, StartTurns
  <2> QED BY <1>5, <2>3, HeapTurns DEF Deactivate
<1> QED BY <1>3, <1>4, <1>5 DEF Deliver

\* An operation that finds an entry leaves it or marks it.
LEMMA HitAgrees ==
    ASSUME NEW e, NEW v
    PROVE  /\ SetHit(e, v).entry.kind # "NONE"
           /\ TryRemoveHit(e).entry.kind # "NONE"
           /\ TryGetHit(e).entry = e
<1>1. SetHit(e, v).entry.kind # "NONE"
  BY DEF SetHit, Outcome, Entry
<1>2. TryRemoveHit(e).entry.kind # "NONE"
  BY DEF TryRemoveHit, Outcome, Entry, Untracked
<1>3. TryGetHit(e).entry = e
  BY DEF TryGetHit, Outcome
<1> QED BY <1>1, <1>2, <1>3

LEMMA UseStateTurns ==
    ASSUME ServingInv, ServingInv', TurnsInv, NEW r \in Requests, UseState(r)
    PROVE  TurnsInv'
<1>1. AtStage(r, "hook") /\ Busy(r)
  BY DEF UseState, SetState, GetState, RemoveState, Track, Busy, AtStage
<1>2. /\ request[r].inst \in Instances /\ Object(r) \in Objects
      /\ Object(r).id = request[r].id /\ Stored(r) = store[request[r].id]
  BY <1>1, OthersApart
<1>3. Fits(request[r], Object(r), Stored(r)) /\ Tracker(r) \in Trackers
  BY <1>1, <1>2 DEF TurnsInv, Turning, InUse, Busy, AtStage, Object, Tracker, Objects
<1>4. PICK n \in Names : \E o : /\ Track(r, n, o)
                                /\ o.entry.kind = "NONE" =>
                                     o.entry.value = Stored(r)[n] \/ o.entry = Tracker(r)[n]
  <2>1. ASSUME NEW n \in Names, NEW v \in Args, SetState(r, n, v)
        PROVE  \E o : Track(r, n, o) /\ o.entry.kind # "NONE"
    BY <2>1, HitAgrees DEF SetState, SetMiss, Outcome, Entry
  <2>2. ASSUME NEW n \in Names, GetState(r, n)
        PROVE  \E o : /\ Track(r, n, o)
                      /\ o.entry.kind = "NONE" =>
                            o.entry.value = Stored(r)[n] \/ o.entry = Tracker(r)[n]
    <3>1. /\ TryGetHit(Tracker(r)[n]).entry = Tracker(r)[n]
          /\ \/ TryGetMiss(Tracker(r)[n], Stored(r)[n]).entry = Tracker(r)[n]
             \/ TryGetMiss(Tracker(r)[n], Stored(r)[n]).entry.value = Stored(r)[n]
      BY HitAgrees DEF TryGetMiss, Outcome, Entry
    <3> QED BY <2>2, <3>1 DEF GetState
  <2>3. ASSUME NEW n \in Names, RemoveState(r, n)
        PROVE  \E o : /\ Track(r, n, o)
                      /\ o.entry.kind = "NONE" => o.entry = Tracker(r)[n]
    <3>1. /\ TryRemoveHit(Tracker(r)[n]).entry.kind # "NONE"
          /\ \/ TryRemoveMiss(Tracker(r)[n], Stored(r)[n]).entry = Tracker(r)[n]
             \/ TryRemoveMiss(Tracker(r)[n], Stored(r)[n]).entry.kind = "REMOVE"
      BY HitAgrees DEF TryRemoveMiss, Outcome, Entry
    <3> QED BY <2>3, <3>1 DEF RemoveState
  <2> QED BY <2>1, <2>2, <2>3 DEF UseState
<1>5. PICK o : /\ Track(r, n, o)
               /\ o.entry.kind = "NONE" =>
                     o.entry.value = Stored(r)[n] \/ o.entry = Tracker(r)[n]
  BY <1>4
<1> DEFINE t == [Tracker(r) EXCEPT ![n] = o.entry]
           new == [Object(r) EXCEPT !.tracker = t]
           objs == WithTracker(r, t)
<1>6. Agrees(t, Stored(r))
  <2>1. Agrees(Tracker(r), Stored(r)) /\ \A m \in Names : m # n => t[m] = Tracker(r)[m]
    BY <1>1, <1>3 DEF Fits, AtStage, Tracker, Trackers
  <2>2. t[n] = o.entry
    BY <1>3 DEF Trackers
  <2> HIDE DEF t
  <2> QED BY <1>5, <2>1, <2>2 DEF Agrees
<1>7. new.tracker = t /\ new.deactivated = Object(r).deactivated
  BY <1>2 DEF Objects
<1>8. objs = [instance EXCEPT ![request[r].inst] = new]
  BY DEF WithTracker, Object
<1>9. Heap(actors, request, objs) /\ store' = store
  BY <1>5 DEF Track
<1> HIDE DEF t, new, objs
<1>10. objs[request[r].inst] = new /\ Elsewhere(r, actors, objs, store)
  BY <1>2, <1>8 DEF ServingInv, Serving, Elsewhere
<1>11. Fits(request[r], new, store[request[r].id])
  BY <1>1, <1>2, <1>3, <1>6, <1>7 DEF Fits, AtStage
<1>12. Turning(actors, [request EXCEPT ![r] = request[r]], objs, store)
  BY <1>1, <1>10, <1>11, MoveTurns DEF AtStage
<1>13. [request EXCEPT ![r] = request[r]] = request
  BY DEF ServingInv, Serving
<1> QED BY <1>9, <1>12, <1>13, HeapTurns

\* User code has returned and what it changed is saved.
LEMMA AfterSaveTurns ==
    ASSUME ServingInv, ServingInv', AloneInv, discipline # "free", TurnsInv,
           NEW r \in Requests, request[r].stage \in {"hook", "saved"},
           NEW objs, NEW new, objs = [instance EXCEPT ![request[r].inst] = new],
           new \in Objects, new.deactivated = Object(r).deactivated,
           Clean(new.tracker, Stored(r)), AfterSave(r, objs), store' = store
    PROVE  TurnsInv'
<1>1. Busy(r) /\ request[r] \in Running
  BY BusyShape DEF Busy, AtStage
<1>2. /\ request[r].inst \in Instances /\ Stored(r) = store[request[r].id]
  BY <1>1, OthersApart
<1>3. /\ Placed(request[r], actors, instance)
      /\ Fits(request[r], Object(r), Stored(r))
  BY <1>1, <1>2 DEF AloneInv, Alone, TurnsInv, Turning, InUse, Busy, AtStage, Object
<1>4. objs[request[r].inst] = new /\ Elsewhere(r, actors, objs, store)
  BY <1>2 DEF ServingInv, Serving, Elsewhere
<1>5. CASE request[r].why = "activate"
  <2> DEFINE q == [request[r] EXCEPT !.stage = "register"]
             o == [new EXCEPT !.activated = TRUE]
             marked == [objs EXCEPT ![request[r].inst].activated = TRUE]
  <2>1. q.id = request[r].id /\ q.inst = request[r].inst /\ q.stage = "register"
        /\ q.why = "activate"
    BY <1>1, <1>5 DEF Running
  <2>2. o.tracker = new.tracker /\ o.deactivated = new.deactivated
    BY DEF Objects
  <2>3. marked[request[r].inst] = o /\ Elsewhere(r, actors, marked, store)
    BY <1>2, <1>4 DEF ServingInv, Serving, Elsewhere
  <2>4. Heap(actors, [request EXCEPT ![r] = q], marked)
    BY <1>5 DEF AfterSave, Goto
  <2> HIDE DEF q, o, marked
  <2>5. Fits(q, o, store[q.id])
    BY <1>2, <1>3, <1>5, <2>1, <2>2 DEF Fits
  <2>6. Turning(actors, [request EXCEPT ![r] = q], marked, store)
    BY <1>1, <2>1, <2>3, <2>5, MoveTurns
  <2> QED BY <2>4, <2>6, HeapTurns
<1>6. CASE request[r].why = "deactivate"
  <2> DEFINE q == [request[r] EXCEPT !.stage = "unregister"]
             o == [new EXCEPT !.deactivated = TRUE]
             ended == [objs EXCEPT ![request[r].inst].deactivated = TRUE]
  <2>1. q.id = request[r].id /\ q.inst = request[r].inst /\ q.stage = "unregister"
        /\ q.why = "deactivate"
    BY <1>1, <1>6 DEF Running
  <2>2. Heap(actors, [request EXCEPT ![r] = q], ended)
    BY <1>6 DEF AfterSave, Goto
  <2>3. ended[request[r].inst] = o /\ Elsewhere(r, actors, ended, store)
    BY <1>2, <1>4 DEF ServingInv, Serving, Elsewhere
  <2> HIDE DEF q, o, ended
  <2>4. Fits(q, o, store[q.id])
    BY <2>1 DEF Fits
  <2>5. Turning(actors, [request EXCEPT ![r] = q], ended, store)
    BY <1>1, <2>1, <2>3, <2>4, MoveTurns
  <2> QED BY <2>2, <2>5, HeapTurns
<1>7. CASE request[r].why = "method"
  <2>1. Heap(actors, Ended(r), objs)
    BY <1>7 DEF AfterSave
  <2>2. actors[request[r].id] \in {None, request[r].inst} /\ ~new.deactivated
    BY <1>3, <1>7 DEF Placed, Fits
  <2>3. Turning(actors, Ended(r), objs, store)
    BY <1>1, <1>2, <1>4, <2>2, EndTurns
  <2> QED BY <2>1, <2>3, HeapTurns
<1> QED BY <1>1, <1>5, <1>6, <1>7 DEF Running

LEMMA ThrowTurns ==
    ASSUME ServingInv, ServingInv', AloneInv, discipline # "free", TurnsInv,
           NEW r \in Requests, request[r].stage \in {"fetch", "ready"},
           actors[request[r].id] \in {None, request[r].inst},
           request[r].why # "deactivate", Throw(r), store' = store
    PROVE  TurnsInv'
<1>1. Busy(r)
  BY DEF Busy, AtStage
<1>2. /\ Fits(request[r], Object(r), Stored(r)) /\ Stored(r) = store[request[r].id]
      /\ Elsewhere(r, actors, instance, store)
  BY <1>1, OthersApart DEF TurnsInv, Turning, InUse, Busy, AtStage, Object, Elsewhere
<1>3. Clean(Object(r).tracker, store[request[r].id]) /\ ~Object(r).deactivated
  BY <1>2 DEF Fits
<1>4. Turning(actors, Ended(r), instance, store)
  BY <1>1, <1>2, <1>3, EndTurns DEF Object
<1> QED BY <1>4, HeapTurns DEF Throw

LEMMA ReturnTurns ==
    ASSUME PlainTurns, ServingInv, ServingInv', AloneInv, discipline # "free", TurnsInv,
           NEW r \in Requests, Return(r)
    PROVE  TurnsInv'
<1>1. AtStage(r, "hook") /\ Busy(r) /\ request[r] \in Running
  BY BusyShape DEF Return, HookThrows, HookReturnsUnchanged, SaveState, Busy, AtStage
<1>2. /\ request[r].inst \in Instances /\ Object(r) \in Objects
      /\ Object(r).id = request[r].id /\ Stored(r) = store[request[r].id]
  BY <1>1, OthersApart
<1>3. Fits(request[r], Object(r), Stored(r)) /\ Tracker(r) \in Trackers
  BY <1>1, <1>2 DEF TurnsInv, Turning, InUse, Busy, AtStage, Object, Tracker, Objects
<1>4. Agrees(Tracker(r), Stored(r))
  BY <1>1, <1>3 DEF Fits, AtStage, Tracker
<1>5. CASE HookReturnsUnchanged(r)
  <2>1. Changes(Tracker(r)) = {} /\ AfterSave(r, instance) /\ store' = store
    BY <1>5 DEF HookReturnsUnchanged
  <2>2. Clean(Object(r).tracker, Stored(r))
    BY <1>4, <2>1 DEF Clean, Changes, Tracker
  <2>3. instance = [instance EXCEPT ![request[r].inst] = Object(r)]
    BY <1>2 DEF ServingInv, Serving, Object
  <2> QED BY <1>1, <1>2, <2>1, <2>2, <2>3, AfterSaveTurns DEF AtStage
<1>6. CASE SaveState(r)
  <2> DEFINE t == MarkUnmodified(Tracker(r))
             b == BatchOf(Tracker(r))
             new == [Object(r) EXCEPT !.tracker = t]
             objs == WithTracker(r, t)
             q == [request[r] EXCEPT !.stage = "saving", !.batch = b]
  <2>1. Heap(actors, [request EXCEPT ![r] = q], objs) /\ store' = store
    BY <1>6 DEF SaveState
  <2>2. CleanAfter(t, b, Commit(Stored(r), b))
    BY <1>3, <1>4, SaveMarks DEF Agrees, CleanAfter
  <2>3. new.tracker = t /\ new.deactivated = Object(r).deactivated
    BY <1>2 DEF Objects
  <2>4. objs = [instance EXCEPT ![request[r].inst] = new]
    BY DEF WithTracker, Object
  <2>5. /\ q.id = request[r].id /\ q.inst = request[r].inst /\ q.why = request[r].why
        /\ q.stage = "saving" /\ q.batch = b
    BY <1>1 DEF Running
  <2> HIDE DEF t, b, new, objs, q
  <2>6. objs[request[r].inst] = new /\ Elsewhere(r, actors, objs, store)
    BY <1>2, <2>4 DEF ServingInv, Serving, Elsewhere
  <2>7. Fits(q, new, store[q.id])
    BY <1>2, <1>3, <2>2, <2>3, <2>5 DEF Fits
  <2>8. Turning(actors, [request EXCEPT ![r] = q], objs, store)
    BY <1>1, <2>5, <2>6, <2>7, MoveTurns
  <2> QED BY <2>1, <2>8, HeapTurns
<1> QED BY <1>5, <1>6 DEF Return, HookThrows, PlainTurns

\* What the transaction leaves of a tracker once it has returned.
LEMMA DropClean ==
    ASSUME NEW t, NEW b, NEW s, CleanAfter(t, b, s)
    PROVE  Clean(DropRemoved(t, b), s)
BY DEF CleanAfter, Clean, Agrees, DropRemoved, Untracked, Entry, Pending

LEMMA ContinueTurns ==
    ASSUME ServingInv, ServingInv', AloneInv, discipline # "free", TurnsInv,
           NEW r \in Requests, Continue(r)
    PROVE  TurnsInv'
<1>1. Busy(r) /\ request[r] \in Running
  <2>1. Busy(r)
    BY DEF Continue, Register, GetActiveActor, CallMethod, MethodDoesNotExist, ResetState,
           Unregister, SaveStateResumes, Busy, AtStage
  <2> QED BY <2>1, BusyShape
<1>2. /\ request[r].inst \in Instances /\ Object(r) \in Objects /\ request[r].id \in Ids
      /\ Stored(r) = store[request[r].id] /\ Elsewhere(r, actors, instance, store)
  BY <1>1, OthersApart DEF Elsewhere
<1>3. /\ Placed(request[r], actors, instance)
      /\ Fits(request[r], Object(r), store[request[r].id])
  BY <1>1, <1>2 DEF AloneInv, Alone, TurnsInv, Turning, InUse, Busy, AtStage, Object
<1>4. CASE Register(r)
  <2> DEFINE acts == [actors EXCEPT ![request[r].id] = request[r].inst]
             q == [request[r] EXCEPT !.stage = "fetch"]
  <2>1. /\ request[r].stage = "register"
        /\ Heap(acts, [request EXCEPT ![r] = q], instance) /\ store' = store
    BY <1>4 DEF Register, Goto, AtStage
  <2>2. /\ q.id = request[r].id /\ q.inst = request[r].inst /\ q.why = request[r].why
        /\ q.stage = "fetch"
    BY <1>1 DEF Running
  <2>3. Elsewhere(r, acts, instance, store)
    BY <1>2 DEF ServingInv, Serving, Elsewhere
  <2> HIDE DEF acts, q
  <2>4. Fits(q, instance[q.inst], store[q.id])
    BY <1>3, <2>1, <2>2 DEF Fits, Object
  <2>5. Turning(acts, [request EXCEPT ![r] = q], instance, store)
    BY <1>1, <2>2, <2>3, <2>4, MoveTurns
  <2> QED BY <2>1, <2>5, HeapTurns
<1>5. CASE GetActiveActor(r)
  <2> DEFINE i == actors[request[r].id]
             q == [request[r] EXCEPT !.stage = "ready", !.inst = i]
  <2>1. request[r].stage = "fetch" /\ request[r].why = "activate" /\ store' = store
    BY <1>3, <1>5 DEF GetActiveActor, AtStage, Placed
  <2>2. CASE i = None
    BY <1>5, <2>1, <2>2, ThrowTurns DEF GetActiveActor
  <2>3. CASE i # None
    <3>1. i = request[r].inst /\ Heap(actors, [request EXCEPT ![r] = q], instance)
      BY <1>3, <1>5, <2>3 DEF GetActiveActor, Placed, Throw
    <3>2. /\ q.id = request[r].id /\ q.inst = request[r].inst /\ q.why = request[r].why
          /\ q.stage = "ready"
      BY <1>1, <3>1 DEF Running
    <3> HIDE DEF i, q
    <3>3. Fits(q, instance[q.inst], store[q.id])
      BY <1>3, <2>1, <3>2 DEF Fits, Object
    <3>4. Turning(actors, [request EXCEPT ![r] = q], instance, store)
      BY <1>1, <1>2, <3>2, <3>3, MoveTurns
    <3> QED BY <2>1, <3>1, <3>4, HeapTurns
  <2> QED BY <2>2, <2>3
<1>6. CASE CallMethod(r)
  <2> DEFINE q == [request[r] EXCEPT !.stage = "hook", !.why = "method"]
  <2>1. /\ request[r].stage = "ready"
        /\ Heap(actors, [request EXCEPT ![r] = q], instance) /\ store' = store
    BY <1>6 DEF CallMethod, AtStage
  <2>2. q.id = request[r].id /\ q.inst = request[r].inst /\ q.why = "method" /\ q.stage = "hook"
    BY <1>1 DEF Running
  <2> HIDE DEF q
  <2>3. Fits(q, instance[q.inst], store[q.id])
    BY <1>3, <2>1, <2>2 DEF Fits, Object, Clean, Placed
  <2>4. Turning(actors, [request EXCEPT ![r] = q], instance, store)
    BY <1>1, <1>2, <2>2, <2>3, MoveTurns
  <2> QED BY <2>1, <2>4, HeapTurns
<1>7. CASE MethodDoesNotExist(r)
  BY <1>3, <1>7, ThrowTurns DEF MethodDoesNotExist, AtStage, Placed
<1>8. CASE ResetState(r)
  <2> DEFINE objs == [instance EXCEPT ![request[r].inst].tracker = EmptyTracker]
             q == [request[r] EXCEPT !.stage = "hook"]
  <2>1. /\ request[r].stage = "reset"
        /\ Heap(actors, [request EXCEPT ![r] = q], objs) /\ store' = store
    BY <1>8 DEF ResetState, Goto, AtStage
  <2>2. q.id = request[r].id /\ q.inst = request[r].inst /\ q.why = "deactivate"
        /\ q.stage = "hook"
    BY <1>1, <1>3, <2>1 DEF Running, Placed
  <2>3. objs[request[r].inst].tracker = EmptyTracker /\ Elsewhere(r, actors, objs, store)
    <3>1. instance \in [Instances -> Objects \cup {Collected}] /\ instance[request[r].inst] \in Objects
      BY <1>2 DEF ServingInv, Serving, Object
    <3> QED BY <1>2, <3>1 DEF Elsewhere, Objects
  <2> HIDE DEF objs, q
  <2>4. Fits(q, objs[q.inst], store[q.id])
    BY <2>2, <2>3, EmptyAgrees DEF Fits, Clean
  <2>5. Turning(actors, [request EXCEPT ![r] = q], objs, store)
    BY <1>1, <2>2, <2>3, <2>4, MoveTurns
  <2> QED BY <2>1, <2>5, HeapTurns
<1>9. CASE Unregister(r)
  <2> DEFINE acts == [actors EXCEPT ![request[r].id] = None]
  <2>1. Heap(acts, Ended(r), instance) /\ store' = store
    BY <1>9 DEF Unregister
  <2>2. acts[request[r].id] = None /\ Elsewhere(r, acts, instance, store)
    BY <1>2 DEF ServingInv, Serving, Elsewhere
  <2> HIDE DEF acts
  <2>3. Turning(acts, Ended(r), instance, store)
    BY <1>1, <2>2, EndTurns
  <2> QED BY <2>1, <2>3, HeapTurns
<1>10. CASE SaveStateResumes(r)
  <2> DEFINE t == DropRemoved(Tracker(r), request[r].batch)
             new == [Object(r) EXCEPT !.tracker = t]
  <2>1. request[r].stage = "saved" /\ AfterSave(r, WithTracker(r, t)) /\ store' = store
    BY <1>10 DEF SaveStateResumes, AtStage
  <2>2. WithTracker(r, t) = [instance EXCEPT ![request[r].inst] = new]
    BY DEF WithTracker, Object
  <2>3. t \in Trackers
    BY <1>1, BusyShape, SaveType
  <2>4. Clean(t, Stored(r))
    BY <1>2, <1>3, <2>1, DropClean DEF Fits, Tracker
  <2>5. new \in Objects /\ new.tracker = t /\ new.deactivated = Object(r).deactivated
    BY <1>2, <2>3 DEF Objects
  <2> HIDE DEF t, new
  <2> QED BY <2>1, <2>2, <2>4, <2>5, AfterSaveTurns
<1> QED BY <1>4, <1>5, <1>6, <1>7, <1>8, <1>9, <1>10 DEF Continue

LEMMA SidecarTurns ==
    ASSUME PlainTurns, ServingInv, ServingInv', TurnsInv, NEW r \in Requests, Sidecar(r)
    PROVE  TurnsInv'
<1> DEFINE st == [store EXCEPT ![Object(r).id] = Commit(@, request[r].batch)]
           q == [request[r] EXCEPT !.stage = "saved"]
<1>1. /\ request[r].stage = "saving" /\ Busy(r)
      /\ Heap(actors, [request EXCEPT ![r] = q], instance) /\ store' = st
  BY DEF Sidecar, StateTransaction, StateTransactionFails, PlainTurns, Goto, Busy, AtStage
<1>2. /\ request[r] \in Running /\ request[r].id \in Ids /\ Object(r).id = request[r].id
      /\ Fits(request[r], Object(r), store[request[r].id])
  BY <1>1, BusyShape, OthersApart DEF TurnsInv, Turning, InUse, Object
<1>3. /\ q.id = request[r].id /\ q.inst = request[r].inst /\ q.why = request[r].why
      /\ q.stage = "saved" /\ q.batch = request[r].batch
  BY <1>2 DEF Running
<1>4. st[request[r].id] = Commit(store[request[r].id], request[r].batch)
      /\ Elsewhere(r, actors, instance, st)
  BY <1>2 DEF ServingInv, Elsewhere
<1> HIDE DEF st, q
<1>5. Fits(q, instance[q.inst], st[q.id])
  BY <1>1, <1>2, <1>3, <1>4 DEF Fits, Object
<1>6. Turning(actors, [request EXCEPT ![r] = q], instance, st)
  BY <1>1, <1>3, <1>4, <1>5, MoveTurns
<1> QED BY <1>1, <1>6, HeapTurns

LEMMA CrashTurns ==
    ASSUME ServingInv', Crash
    PROVE  TurnsInv'
<1>1. Turning([id \in Ids |-> None], [r \in Requests |-> Idle], instance, store)
  BY DEF Turning, InUse, Idle
<1> QED BY <1>1, HeapTurns DEF Crash

LEMMA TurnsStep ==
    ASSUME PlainTurns
    PROVE  ServingInv /\ AloneInv /\ TurnsInv /\ [Next]_vars => TurnsInv'
<1> SUFFICES ASSUME ServingInv, AloneInv, TurnsInv, [Next]_vars
             PROVE  TurnsInv'
  OBVIOUS
<1>1. ServingInv' /\ discipline # "free"
  BY ServingStep DEF PlainTurns, AloneInv
<1>2. CASE UNCHANGED vars
  BY <1>2 DEF vars, TurnsInv
<1>3. ASSUME NEW r \in Requests, NEW id \in Ids, Deliver(r, id)
      PROVE  TurnsInv'
  BY <1>1, <1>3, DeliverTurns
<1>4. ASSUME NEW r \in Requests, UseState(r) \/ Return(r) \/ Continue(r) \/ Sidecar(r)
      PROVE  TurnsInv'
  BY <1>1, <1>4, UseStateTurns, ReturnTurns, ContinueTurns, SidecarTurns
<1>5. ASSUME Crash
      PROVE  TurnsInv'
  BY <1>1, <1>5, CrashTurns
<1> QED BY <1>2, <1>3, <1>4, <1>5 DEF Next, Step

LEMMA TurnsInit == Init => TurnsInv
BY DEF Init, TurnsInv, Turning, InUse, Idle

LEMMA TurnsServe ==
    ASSUME ServingInv, TurnsInv
    PROVE  CacheIsCurrent /\ NoChangeOutsideTurn
<1> SUFFICES ASSUME NEW r \in Requests, AtStage(r, "ready")
             PROVE  Clean(Tracker(r), Stored(r))
  BY DEF CacheIsCurrent, NoChangeOutsideTurn, Clean, Agrees, Changes
<1>1. Busy(r) /\ Stored(r) = store[request[r].id]
  BY OthersApart DEF Busy, AtStage
<1> QED BY <1>1 DEF TurnsInv, Turning, InUse, Fits, Busy, AtStage, Tracker, Object

\* When the calls of an id take turns and neither user code nor the sidecar
\* fails, a method starts with a cache that holds what the sidecar holds,
\* across activations, deactivations, collected objects and crashes.
THEOREM CacheStaysCurrent ==
    ASSUME PlainTurns
    PROVE  Spec => []CacheIsCurrent
BY ServingInit, ServingStep, AloneInit, AloneStep, TurnsInit, TurnsStep, TurnsServe, PTL
   DEF Spec

\* Under the same conditions the instance has no unsaved change when a method
\* starts.
THEOREM NothingIsLeftUnsaved ==
    ASSUME PlainTurns
    PROVE  Spec => []NoChangeOutsideTurn
BY ServingInit, ServingStep, AloneInit, AloneStep, TurnsInit, TurnsStep, TurnsServe, PTL
   DEF Spec

\* A method starts on an instance that nobody deactivates or has deactivated.
CallStep ==
    \A r \in Requests : CallMethod(r) =>
        /\ ~Object(r).deactivated
        /\ \A s \in Requests : Busy(s) /\ request[s].kind = "deactivate" =>
              request[s].inst # request[r].inst

LEMMA TurnsCall ==
    ASSUME ServingInv, AloneInv, discipline # "free", TurnsInv
    PROVE  CallStep
<1> SUFFICES ASSUME NEW r \in Requests, AtStage(r, "ready")
             PROVE  /\ ~Object(r).deactivated
                    /\ \A s \in Requests : Busy(s) /\ request[s].kind = "deactivate" =>
                          request[s].inst # request[r].inst
  BY DEF CallStep, CallMethod
<1>1. Busy(r) /\ request[r].kind = "method" /\ request[r].why # "deactivate"
  BY DEF AloneInv, Alone, Placed, InUse, Busy, AtStage
<1>2. ~Object(r).deactivated
  BY <1>1 DEF TurnsInv, Turning, InUse, Fits, Busy, AtStage, Object
<1>3. \A s \in Requests : Busy(s) /\ s # r => request[s].inst # request[r].inst
  BY <1>1, OthersApart
<1> QED BY <1>1, <1>2, <1>3

\* Under the same conditions no call reaches an instance that is being
\* deactivated or has been.
THEOREM DeactivatedNotCalled ==
    ASSUME PlainTurns
    PROVE  Spec => NoCallAfterDeactivate
<1>1. NoCallAfterDeactivate <=> [][CallStep]_vars
  BY PTL DEF NoCallAfterDeactivate, CallStep
<1>2. ServingInv /\ AloneInv /\ TurnsInv /\ [Next]_vars => [CallStep]_vars
  BY TurnsCall DEF PlainTurns, AloneInv
<1> QED BY <1>1, <1>2, ServingInit, ServingStep, AloneInit, AloneStep, TurnsInit, TurnsStep, PTL
        DEF Spec
=============================================================================
