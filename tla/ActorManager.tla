---------------------------- MODULE ActorManager ----------------------------
(***************************************************************************)
(* The life of the actors of one type: which instance answers for an actor *)
(* id, how a request activates it, runs a method on it and saves its state,*)
(* and how it is deactivated.  A request is a method call, a reminder or a *)
(* timer (all end in callActorMethod) or a deactivation, delivered by the  *)
(* sidecar.  An action is the code between two awaits of one request.      *)
(*                                                                         *)
(* The state operations of user code are those of StateTracker, each taken *)
(* in one step: their own awaits are the subject of ActorStateManager.     *)
(***************************************************************************)
EXTENDS StateTracker

CONSTANTS
    Ids,          \* actor ids
    Instances,    \* the objects of the actor class; unreachable ones are reused
    Requests,     \* the requests that can be outstanding at a time
    None,         \* no instance
    Args,         \* the values user code sets
    Disciplines,  \* External: which requests of an id the sidecar may let overlap
    Failures      \* what may go wrong

ASSUME ManagerAssumption ==
    /\ None \notin Instances
    /\ Args \subseteq Values
    /\ Disciplines \subseteq {"turns", "drain", "free"}
    /\ Failures \subseteq {"hook", "commit", "crash"}

VARIABLES
    discipline,   \* External: which of the disciplines the sidecar keeps
    actors,       \* the actors Map: the instance of each active id
    instance,     \* the objects, with their change trackers
    store,        \* External: what the sidecar holds for each actor id
    request       \* where each request is in the code

vars == <<discipline, actors, instance, store, request>>

Idle == [stage |-> "idle"]

\* "hook" is user code: a hook of activation or deactivation, or a method
\* between its pre and post hooks; why tells which.
Stages == {"hook", "saving", "saved", "register", "fetch", "ready", "reset", "unregister"}

Running == [stage : Stages, kind : {"method", "deactivate"}, id : Ids,
            inst : Instances, why : {"activate", "method", "deactivate"},
            batch : Trackers]

\* activated and deactivated record that the promises of onActivateInternal and
\* of onDeactivateInternal have resolved; the code keeps no such flags.
Objects == [id : Ids, activated : BOOLEAN, deactivated : BOOLEAN, tracker : Trackers]

Collected == [id |-> "none"]

TypeOK ==
    /\ discipline \in Disciplines
    /\ actors \in [Ids -> Instances \cup {None}]
    /\ instance \in [Instances -> Objects \cup {Collected}]
    /\ store \in [Ids -> Stores]
    /\ request \in [Requests -> {Idle} \cup Running]

Init ==
    /\ discipline \in Disciplines
    /\ actors = [id \in Ids |-> None]
    /\ instance = [i \in Instances |-> Collected]
    /\ store = [id \in Ids |-> [n \in Names |-> Missing]]
    /\ request = [r \in Requests |-> Idle]

-----------------------------------------------------------------------------
AtStage(r, s) == request[r].stage = s

Busy(r) == ~AtStage(r, "idle")

UsedBy(reqs, i) == \E r \in Requests : reqs[r].stage # "idle" /\ reqs[r].inst = i

Reachable(acts, reqs, i) == (\E id \in Ids : acts[id] = i) \/ UsedBy(reqs, i)

\* One step of the heap: what nothing refers to any more is collected.
Heap(acts, reqs, objects) ==
    /\ actors' = acts
    /\ request' = reqs
    /\ instance' = [i \in Instances |->
                       IF Reachable(acts, reqs, i) THEN objects[i] ELSE Collected]

Goto(r, s) == [request EXCEPT ![r].stage = s]

Ended(r) == [request EXCEPT ![r] = Idle]

\* A promise rejects; no handler below the HTTP route catches it.
Throw(r) == Heap(actors, Ended(r), instance)

\* External: the sidecar holds a lock per actor, so that requests of one id
\* take turns; a drained actor is deactivated without waiting for its call.
MayStart(id, kind) ==
    CASE discipline = "turns" -> \A r \in Requests : Busy(r) => request[r].id # id
      [] discipline = "drain" -> \A r \in Requests : Busy(r) =>
                                     request[r].id # id \/ request[r].kind # kind
      [] OTHER -> TRUE

Start(r, stage, kind, id, i, why) ==
    [request EXCEPT ![r] = [stage |-> stage, kind |-> kind, id |-> id, inst |-> i,
                            why |-> why, batch |-> EmptyTracker]]

Created(id) == [id |-> id, activated |-> FALSE, deactivated |-> FALSE,
                tracker |-> EmptyTracker]

-----------------------------------------------------------------------------
\* callActorMethod finds the id active.
CallActive(r, id) ==
    /\ ~Busy(r) /\ MayStart(id, "method")
    /\ actors[id] # None
    /\ Heap(actors, Start(r, "ready", "method", id, actors[id], "method"), instance)
    /\ UNCHANGED store

\* Mutant: the Map is not looked at.
CallInactiveUnchecked(r, id) ==
    /\ ~Busy(r) /\ MayStart(id, "method")
    /\ \E i \in Instances :
          /\ ~Reachable(actors, request, i)
          /\ Heap(actors, Start(r, "hook", "method", id, i, "activate"),
                  [instance EXCEPT ![i] = Created(id)])
    /\ UNCHANGED store

\* Mutant: the instance is put into the Map when it is created.
CallInactiveRegistersFirst(r, id) ==
    /\ ~Busy(r) /\ MayStart(id, "method")
    /\ actors[id] = None
    /\ \E i \in Instances :
          /\ ~Reachable(actors, request, i)
          /\ Heap([actors EXCEPT ![id] = i], Start(r, "hook", "method", id, i, "activate"),
                  [instance EXCEPT ![i] = Created(id)])
    /\ UNCHANGED store

\* It does not, creates an instance and enters its onActivate hook.
CallInactive(r, id) ==
    /\ ~Busy(r) /\ MayStart(id, "method")
    /\ actors[id] = None
    /\ \E i \in Instances :
          /\ ~Reachable(actors, request, i)
          /\ Heap(actors, Start(r, "hook", "method", id, i, "activate"),
                  [instance EXCEPT ![i] = Created(id)])
    /\ UNCHANGED store

\* activateActor puts the instance into the Map once it is activated.
Register(r) ==
    /\ AtStage(r, "register")
    /\ Heap([actors EXCEPT ![request[r].id] = request[r].inst], Goto(r, "fetch"), instance)
    /\ UNCHANGED store

\* Mutant: the request waits until the Map has the id.
GetActiveActorWaits(r) ==
    /\ AtStage(r, "fetch")
    /\ LET i == actors[request[r].id]
       IN  /\ i # None
           /\ Heap(actors, [request EXCEPT ![r].stage = "ready", ![r].inst = i], instance)
    /\ UNCHANGED store

\* getActiveActor reads the Map again and uses the instance it finds there.
GetActiveActor(r) ==
    /\ AtStage(r, "fetch")
    /\ LET i == actors[request[r].id]
       IN  \/ i = None /\ Throw(r)
           \/ /\ i # None
              /\ Heap(actors, [request EXCEPT ![r].stage = "ready", ![r].inst = i], instance)
    /\ UNCHANGED store

\* The pre hook, the method and the post hook run on the instance.
CallMethod(r) ==
    /\ AtStage(r, "ready")
    /\ Heap(actors, [request EXCEPT ![r].stage = "hook", ![r].why = "method"], instance)
    /\ UNCHANGED store

\* The instance has no method of the name.
MethodDoesNotExist(r) ==
    /\ AtStage(r, "ready")
    /\ Throw(r)
    /\ UNCHANGED store

Deactivate(r, id) ==
    /\ ~Busy(r) /\ MayStart(id, "deactivate")
    /\ actors[id] # None
    /\ Heap(actors, Start(r, "reset", "deactivate", id, actors[id], "deactivate"), instance)
    /\ UNCHANGED store

\* Mutant: nothing awaits the hook and the save of its changes.
ResetStateUnawaited(r) ==
    /\ AtStage(r, "reset")
    /\ Heap(actors, Goto(r, "unregister"),
            [instance EXCEPT ![request[r].inst].tracker = EmptyTracker])
    /\ UNCHANGED store

\* onDeactivateInternal clears the cache and enters the onDeactivate hook.
ResetState(r) ==
    /\ AtStage(r, "reset")
    /\ Heap(actors, Goto(r, "hook"),
            [instance EXCEPT ![request[r].inst].tracker = EmptyTracker])
    /\ UNCHANGED store

\* Mutant: the Map keeps the id.
UnregisterNothing(r) ==
    /\ AtStage(r, "unregister")
    /\ Heap(actors, Ended(r), instance)
    /\ UNCHANGED store

\* The Map forgets the id, whichever instance it holds by now.
Unregister(r) ==
    /\ AtStage(r, "unregister")
    /\ Heap([actors EXCEPT ![request[r].id] = None], Ended(r), instance)
    /\ UNCHANGED store

-----------------------------------------------------------------------------
(* User code, and the save that follows it.                                *)

Object(r) == instance[request[r].inst]

Tracker(r) == Object(r).tracker

Stored(r) == store[Object(r).id]

WithTracker(r, t) == [instance EXCEPT ![request[r].inst].tracker = t]

Track(r, n, outcome) ==
    /\ AtStage(r, "hook")
    /\ Heap(actors, request, WithTracker(r, [Tracker(r) EXCEPT ![n] = outcome.entry]))
    /\ UNCHANGED store

SetState(r, n, v) ==
    Track(r, n, IF Has(Tracker(r), n) THEN SetHit(Tracker(r)[n], v)
                                      ELSE SetMiss(Stored(r)[n], v))

GetState(r, n) ==
    Track(r, n, IF Has(Tracker(r), n) THEN TryGetHit(Tracker(r)[n])
                                      ELSE TryGetMiss(Tracker(r)[n], Stored(r)[n]))

RemoveState(r, n) ==
    Track(r, n, IF Has(Tracker(r), n) THEN TryRemoveHit(Tracker(r)[n])
                                      ELSE TryRemoveMiss(Tracker(r)[n], Stored(r)[n]))

\* User code throws: nothing below resets the state of the instance.
HookThrows(r) ==
    /\ "hook" \in Failures
    /\ AtStage(r, "hook")
    /\ Throw(r)
    /\ UNCHANGED store

\* What follows the save of each kind of user code.
AfterSave(r, objects) ==
    LET i == request[r].inst
    IN  CASE request[r].why = "activate" ->
               Heap(actors, Goto(r, "register"), [objects EXCEPT ![i].activated = TRUE])
          [] request[r].why = "deactivate" ->
               Heap(actors, Goto(r, "unregister"), [objects EXCEPT ![i].deactivated = TRUE])
          [] OTHER -> Heap(actors, Ended(r), objects)

\* saveState finds nothing to save.
HookReturnsUnchanged(r) ==
    /\ AtStage(r, "hook")
    /\ Changes(Tracker(r)) = {}
    /\ AfterSave(r, instance)
    /\ UNCHANGED store

SaveState(r) ==
    /\ AtStage(r, "hook")
    /\ Changes(Tracker(r)) # {}
    /\ Heap(actors,
            [request EXCEPT ![r].stage = "saving", ![r].batch = BatchOf(Tracker(r))],
            WithTracker(r, MarkUnmodified(Tracker(r))))
    /\ UNCHANGED store

\* External: the sidecar applies the transaction.
StateTransaction(r) ==
    /\ AtStage(r, "saving")
    /\ store' = [store EXCEPT ![Object(r).id] = Commit(@, request[r].batch)]
    /\ Heap(actors, Goto(r, "saved"), instance)

StateTransactionFails(r) ==
    /\ "commit" \in Failures
    /\ AtStage(r, "saving")
    /\ Throw(r)
    /\ UNCHANGED store

SaveStateResumes(r) ==
    /\ AtStage(r, "saved")
    /\ AfterSave(r, WithTracker(r, DropRemoved(Tracker(r), request[r].batch)))
    /\ UNCHANGED store

\* The process dies and another takes over; the store survives.
Crash ==
    /\ "crash" \in Failures
    /\ Heap([id \in Ids |-> None], [r \in Requests |-> Idle], instance)
    /\ UNCHANGED store

-----------------------------------------------------------------------------
Deliver(r, id) ==
    \/ CallActive(r, id)
    \/ CallInactive(r, id)
    \/ Deactivate(r, id)

UseState(r) == \E n \in Names :
    \/ \E v \in Args : SetState(r, n, v)
    \/ GetState(r, n)
    \/ RemoveState(r, n)

Return(r) ==
    \/ HookThrows(r)
    \/ HookReturnsUnchanged(r)
    \/ SaveState(r)

Continue(r) ==
    \/ Register(r)
    \/ GetActiveActor(r)
    \/ CallMethod(r)
    \/ MethodDoesNotExist(r)
    \/ ResetState(r)
    \/ Unregister(r)
    \/ SaveStateResumes(r)

Sidecar(r) ==
    \/ StateTransaction(r)
    \/ StateTransactionFails(r)

Step ==
    \/ \E r \in Requests :
          \/ \E id \in Ids : Deliver(r, id)
          \/ UseState(r)
          \/ Return(r)
          \/ Continue(r)
          \/ Sidecar(r)
    \/ Crash

Next == Step /\ UNCHANGED discipline

Spec == Init /\ [][Next]_vars

\* User code returns, the event loop runs what is ready and the sidecar
\* answers; whether requests come and what user code does is left open.
Fairness ==
    \A r \in Requests :
        /\ WF_vars(Return(r) /\ UNCHANGED discipline)
        /\ WF_vars(Continue(r) /\ UNCHANGED discipline)
        /\ WF_vars(Sidecar(r) /\ UNCHANGED discipline)

FairSpec == Spec /\ Fairness

-----------------------------------------------------------------------------
Used(i) == Reachable(actors, request, i)

\* An actor id whose calls the sidecar does not let overlap is served by one
\* instance at a time, so that one change tracker knows all its unsaved
\* changes: the check of getActiveActor, the register at the end of activation
\* and the unregister at the end of deactivation leave no window for a second.
SingleInstance ==
    \A i, j \in Instances :
        Used(i) /\ Used(j) /\ instance[i].id = instance[j].id
        /\ discipline # "free" => i = j

\* However requests overlap, a method runs only on an instance whose
\* onActivate has finished and whose state was saved after it, and only such
\* an instance is in the Map.
OnlyActivatedServe ==
    /\ \A id \in Ids : actors[id] # None =>
          instance[actors[id]].activated /\ instance[actors[id]].id = id
    /\ \A r \in Requests :
          Busy(r) /\ request[r].why \in {"method", "deactivate"} => Object(r).activated

\* If the calls of an id do not overlap, an instance leaves the Map only once
\* its own onDeactivate hook has ended and its changes are saved, or with the
\* process: deactivateActor awaits both, and takes away no instance activated
\* in the meantime.
OnlyDeactivatedLeave ==
    [][\A id \in Ids :
          discipline # "free" /\ actors[id] # None /\ actors'[id] # actors[id] =>
              \/ instance[actors[id]].deactivated /\ actors'[id] = None
              \/ Crash /\ ~\E r \in Requests : Unregister(r)]_vars

\* A method does not start on an instance that is being deactivated or whose
\* deactivation has ended.
NoCallAfterDeactivate ==
    [][\A r \in Requests : CallMethod(r) =>
          /\ ~Object(r).deactivated
          /\ \A s \in Requests : Busy(s) /\ request[s].kind = "deactivate" =>
                request[s].inst # request[r].inst]_vars

\* When a method starts, what its instance has cached is what the sidecar
\* holds: no earlier call, save, deactivation, fail-over or other instance
\* left it stale.
CacheIsCurrent ==
    \A r \in Requests : AtStage(r, "ready") =>
        \A n \in Names : Tracker(r)[n].kind = "NONE" => Tracker(r)[n].value = Stored(r)[n]

\* A call leaves no unsaved change behind on its instance: what the next
\* call saves are its own changes.
NoChangeOutsideTurn ==
    \A r \in Requests : AtStage(r, "ready") => Changes(Tracker(r)) = {}

\* Every request is answered once user code returns and the sidecar answers.
EveryRequestEnds == \A r \in Requests : Busy(r) ~> ~Busy(r)
=============================================================================
