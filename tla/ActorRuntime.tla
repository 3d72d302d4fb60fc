----------------------------- MODULE ActorRuntime -----------------------------
(***************************************************************************)
(* The path of a call to an actor and back, over HTTP: a method called     *)
(* through a proxy, or a timer or reminder that an actor registered and    *)
(* the sidecar fires.  What travels is converted at each step; the         *)
(* registry of actor types decides which manager is asked.  Activation and *)
(* turns are the subject of ActorManager.  There is one actor per type,    *)
(* with one timer and one reminder.                                        *)
(***************************************************************************)
EXTENDS JsValues

CONSTANTS
    Types,
    Methods,       \* the methods the actor classes have, REMINDER_METHOD_NAME excepted
    Callbacks,     \* what user code gives as the callback of a timer
    Calls,         \* the calls outstanding at a time
    ArgLists,      \* what user code calls methods with
    Results,       \* what methods return
    Data,          \* what user code registers as state
    Periods,       \* the periods it registers, the due time and ttl with them
    Failures,
    None

ASSUME RuntimeAssumption ==
    /\ "receiveReminder" \notin Methods
    /\ Periods \subseteq {"time", "dated", "missing"}
    /\ Failures \subseteq {"crash", "throw"}

VARIABLES
    managers,      \* actorManagers: the registered types
    hosted,        \* External: the types the sidecar was told of
    table,         \* External: the timers and reminders the sidecar keeps
    call           \* where each call is

vars == <<managers, hosted, table, call>>

Kinds == {"timer", "remind"}
Idle == [stage |-> "idle"]

Init ==
    /\ managers = {} /\ hosted = {}
    /\ table = [registered \in Kinds \X Types |-> None]
    /\ call = [c \in Calls |-> Idle]

At(c, stage) == call[c].stage = stage
Goto(c, state) == call' = [call EXCEPT ![c] = state]

-----------------------------------------------------------------------------
(* Conversions.                                                            *)

\* BufferSerializer.deserialize(v); a Buffer is the string it holds.
Deserialize(v) ==
    ParseOrKeep(IF v \in {Undefined, Null} THEN EmptyText ELSE ToText(v))

\* BufferSerializer.serialize(v)
Serialize(v) ==
    String(IF IsObject(v) THEN Stringify(v)
           ELSE IF v = Undefined THEN EmptyText ELSE ToText(v))

\* External: the body parser; a request without a body has an empty object.
RequestBody(body) == IF body = Undefined THEN EmptyObject ELSE ParseOrKeep(body)

\* The proxy's body: the array of arguments, or null when there are none, which
\* the HTTP client does not send.
ProxyBody(args) == IF args = <<>> THEN Undefined ELSE Stringify(Array(args))

\* What the manager makes of the body of a method call.
InvokeArgs(body) == Deserialize(Serialize(RequestBody(body)))

\* Mutant: the list is passed as one argument.
SpreadNothing(args) == <<args>>

\* An array is spread over the parameters.
Spread(args) == IF IsArray(args) THEN args.array ELSE <<args>>

\* Mutant: an object is printed like any other result.
ResultTextPrinted(result) == Template(result)

\* handleResult, with the server's send: the bytes of a Buffer, the JSON of an
\* object.
ResultText(result) ==
    IF IsBuffer(result) THEN result.buffer
    ELSE IF IsObject(result) /\ ~Falsy(result) THEN Stringify(result)
    ELSE Template(result)

\* Mutant: days are written like the rest.
FormatAnyDuration(d) == "go"

\* A duration as it is sent: "PT" is cut off, which leaves a duration the
\* sidecar can read only when there are no days in it.
FormatDuration(d) == IF d = "time" THEN "go" ELSE "p1d"

-----------------------------------------------------------------------------
(* Registration of types.                                                  *)

RegisterActor(t) ==
    /\ managers' = managers \cup {t}
    /\ UNCHANGED <<hosted, table, call>>

\* GET /dapr/config
HandlerConfig ==
    /\ hosted' = managers
    /\ UNCHANGED <<managers, table, call>>

-----------------------------------------------------------------------------
(* Timers and reminders are registered with the sidecar.                   *)

Registration(callback, data, period) ==
    [callback |-> callback, data |-> data, period |-> period]

\* External: the sidecar refuses what it cannot read.
Accepts(registration) == FormatDuration(registration.period) = "go"

\* period.toString() throws before anything is sent.
Begin(c, k, t, registration) ==
    /\ At(c, "idle")
    /\ Goto(c, IF registration.period = "missing"
               THEN [stage |-> "settled", ok |-> FALSE]
               ELSE [stage |-> "registering", kind |-> k, type |-> t, what |-> registration])
    /\ UNCHANGED <<managers, hosted, table>>

RegisterActorTimer(c, t, callback, data, period) ==
    Begin(c, "timer", t, Registration(callback, data, period))

RegisterActorReminder(c, t, data, period) ==
    Begin(c, "remind", t, Registration(None, data, period))

Unregister(c, k, t) ==
    /\ At(c, "idle")
    /\ Goto(c, [stage |-> "registering", kind |-> k, type |-> t, what |-> None])
    /\ UNCHANGED <<managers, hosted, table>>

UnregisterActorTimer(c, t) == Unregister(c, "timer", t)

UnregisterActorReminder(c, t) == Unregister(c, "remind", t)

\* External: the sidecar keeps, replaces or forgets, and answers.
Schedule(c) ==
    /\ At(c, "registering")
    /\ LET what == call[c].what
           ok == what = None \/ Accepts(what)
       IN /\ table' = IF ok THEN [table EXCEPT ![<<call[c].kind, call[c].type>>] = what] ELSE table
          /\ Goto(c, [stage |-> "settled", ok |-> ok])
    /\ UNCHANGED <<managers, hosted>>

-----------------------------------------------------------------------------
(* Calls.                                                                  *)

\* asked is kept for the properties.
Request(kind, t, method, body, asked) ==
    [stage |-> "sent", kind |-> kind, type |-> t, method |-> method, body |-> body,
     asked |-> asked]

\* A method of the proxy.
ProxyInvoke(c, t, method, args) ==
    /\ At(c, "idle") /\ t \in hosted
    /\ Goto(c, Request("method", t, method, ProxyBody(args), args))
    /\ UNCHANGED <<managers, hosted, table>>

\* External: what the sidecar sends of a registration; a reminder has no callback.
FiredBody(k, registration) ==
    StringifyObject(
        [callback |-> IF k = "remind" THEN Undefined ELSE String(PlainText(registration.callback)),
         data |-> Json(registration.data)])

\* External: the sidecar fires what is registered.
Fire(c, k, t) ==
    /\ At(c, "idle") /\ t \in hosted
    /\ table[<<k, t>>] # None
    /\ Goto(c, Request(k, t, None, FiredBody(k, table[<<k, t>>]), table[<<k, t>>]))
    /\ UNCHANGED <<managers, hosted, table>>

\* Mutant: a request for an unknown type gets no answer.
NotRegisteredIsIgnored(c) ==
    /\ At(c, "sent") /\ call[c].type \notin managers
    /\ UNCHANGED vars

\* getActorManager throws; the route answers with an error.
NotRegistered(c) ==
    /\ At(c, "sent") /\ call[c].type \notin managers
    /\ Goto(c, [stage |-> "settled", ok |-> FALSE])
    /\ UNCHANGED <<managers, hosted, table>>

\* callActorMethod, once the actor is active.
CallActorMethod(c, method, args) ==
    /\ At(c, "sent") /\ call[c].type \in managers
    /\ Goto(c, IF method \in Methods \cup {"receiveReminder"}
               THEN [stage |-> "running", kind |-> call[c].kind, type |-> call[c].type,
                     method |-> method, args |-> Spread(args), asked |-> call[c].asked]
               ELSE [stage |-> "settled", ok |-> FALSE])
    /\ UNCHANGED <<managers, hosted, table>>

\* PUT .../method/:methodName and ActorManager.invoke
HandlerMethod(c) ==
    /\ call[c].stage = "sent" /\ call[c].kind = "method"
    /\ CallActorMethod(c, call[c].method, InvokeArgs(call[c].body))

\* Mutant: the whole body is taken for the data.
FromObjectWhole(body) ==
    LET fields == InvokeArgs(body).object
    IN [callback |-> fields.callback, state |-> Deserialize(Object(fields))]

\* ActorTimerData.fromObject and ActorReminderData.fromObject
FromObject(body) ==
    LET fields == InvokeArgs(body).object
    IN [callback |-> fields.callback, state |-> Deserialize(fields.data)]

\* PUT .../method/timer/:timerName and ActorManager.fireTimer
HandlerTimer(c) ==
    /\ call[c].stage = "sent" /\ call[c].kind = "timer"
    /\ LET timerData == FromObject(call[c].body)
       IN CallActorMethod(c, timerData.callback.string.plain, timerData.state)

\* PUT .../method/remind/:reminderName and ActorManager.fireReminder
HandlerReminder(c) ==
    /\ call[c].stage = "sent" /\ call[c].kind = "remind"
    /\ CallActorMethod(c, "receiveReminder", FromObject(call[c].body).state)

\* The method returns.  What a proxy asked for goes back through handleResult,
\* the sidecar and the client that parses it.
MethodReturns(c, result) ==
    /\ At(c, "running")
    /\ Goto(c, IF call[c].kind = "method"
               THEN [stage |-> "settled", ok |-> TRUE, returned |-> result,
                     value |-> ParseOrKeep(ResultText(result))]
               ELSE [stage |-> "settled", ok |-> TRUE])
    /\ UNCHANGED <<managers, hosted, table>>

MethodThrows(c) ==
    /\ At(c, "running") /\ "throw" \in Failures
    /\ Goto(c, [stage |-> "settled", ok |-> FALSE])
    /\ UNCHANGED <<managers, hosted, table>>

\* The caller goes on.
Forget(c) ==
    /\ At(c, "settled") /\ Goto(c, Idle)
    /\ UNCHANGED <<managers, hosted, table>>

-----------------------------------------------------------------------------
\* External: the process ends.  The sidecar keeps its table, remembers what it
\* was told, and answers its callers with an error.
Crash ==
    /\ "crash" \in Failures
    /\ managers' = {}
    /\ call' = [c \in Calls |->
          IF call[c].stage = "running" THEN [stage |-> "settled", ok |-> FALSE] ELSE call[c]]
    /\ UNCHANGED <<hosted, table>>

-----------------------------------------------------------------------------
Ask(c, t) ==
    \/ \E m \in Methods, args \in ArgLists : ProxyInvoke(c, t, m, args)
    \/ \E data \in Data, period \in Periods :
          \/ \E callback \in Callbacks : RegisterActorTimer(c, t, callback, data, period)
          \/ RegisterActorReminder(c, t, data, period)
    \/ UnregisterActorTimer(c, t)
    \/ UnregisterActorReminder(c, t)

Serve(c) ==
    \/ NotRegistered(c)
    \/ HandlerMethod(c)
    \/ HandlerTimer(c)
    \/ HandlerReminder(c)

Return(c) == (\E r \in Results : MethodReturns(c, r)) \/ MethodThrows(c)

Next ==
    \/ \E c \in Calls :
          \/ \E t \in Types : Ask(c, t) \/ (\E k \in Kinds : Fire(c, k, t))
          \/ Schedule(c)
          \/ Serve(c)
          \/ Return(c)
          \/ Forget(c)
    \/ \E t \in Types : RegisterActor(t)
    \/ HandlerConfig
    \/ Crash

Spec == Init /\ [][Next]_vars

\* The sidecar answers, the server handles what it receives, methods return.
Fairness == \A c \in Calls : WF_vars(Schedule(c)) /\ WF_vars(Serve(c)) /\ WF_vars(Return(c))

FairSpec == Spec /\ Fairness

-----------------------------------------------------------------------------
Stages == {"idle", "registering", "sent", "running", "settled"}

TypeOK ==
    /\ managers \subseteq Types /\ hosted \subseteq Types
    /\ table \in [Kinds \X Types ->
          {None} \cup [callback : Callbacks \cup {None}, data : Data, period : {"time"}]]
    /\ \A c \in Calls :
          /\ call[c].stage \in Stages
          /\ At(c, "running") => call[c].type \in managers
                /\ call[c].method \in Methods \cup {"receiveReminder"}

\* A method called through a proxy with arguments gets what their JSON reads as,
\* each in its place and as it was if JSON keeps it, after the client, the body
\* parser, and the serializer on both sides of the runtime.
ArgumentsArrive ==
    \A c \in Calls : At(c, "running") /\ call[c].kind = "method" /\ call[c].asked # <<>> =>
        /\ call[c].args = Json(Array(call[c].asked)).array
        /\ \A i \in DOMAIN call[c].asked :
              IsJson(call[c].asked[i]) => call[c].args[i] = call[c].asked[i]

\* A timer calls the callback and a reminder calls receiveReminder, with the
\* state of the same registration, whatever was registered over it, restarted
\* or unregistered since it fired.
ScheduledArrive ==
    \A c \in Calls : At(c, "running") /\ call[c].kind \in Kinds =>
        /\ call[c].args = <<call[c].asked.data>>
        /\ call[c].method = IF call[c].kind = "timer" THEN call[c].asked.callback
                            ELSE "receiveReminder"

\* What a method returns is what its proxy resolves with.
ResultArrives ==
    \A c \in Calls : At(c, "settled") /\ "returned" \in DOMAIN call[c]
        => call[c].value = call[c].returned

\* Every call is answered: unknown types and methods, throwing methods and a
\* server that ends and starts again included.
EveryCallEnds ==
    \A c \in Calls : ~At(c, "idle") /\ ~At(c, "settled") ~> At(c, "settled")
=============================================================================
