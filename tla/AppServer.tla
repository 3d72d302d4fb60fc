------------------------------ MODULE AppServer ------------------------------
(***************************************************************************)
(* A DaprServer: how it starts, is told healthy by the sidecar and stops,  *)
(* the handlers user code registers on it, and the requests of the sidecar *)
(* that it dispatches to them, over HTTP or gRPC.  An action is the code   *)
(* between two awaits.                                                     *)
(*                                                                         *)
(* A name is the name of a method, of a binding or of a topic with its     *)
(* pubsub component; Lower is what toLowerCase makes of it.  A topic's key *)
(* has a bar between the two; Cut is what is left of a key when only the   *)
(* first two parts between bars are kept.  Path and Route are the paths of *)
(* a method or binding and of a topic, as far as the router tells paths    *)
(* apart.                                                                  *)
(***************************************************************************)
EXTENDS AppEvents

CONSTANTS
    Protocols,    \* the communication protocols servers are made for
    Names,
    Lower,
    Cut,
    Paths,
    Path,
    Route,
    Endpoints,    \* the kinds and names user code has handlers for
    Payloads,     \* what is sent to each kind: texts with their content types
    Results,      \* what the handlers of invocations return
    Calls,        \* the requests of the sidecar outstanding at a time
    MaxRetry,     \* isHealthyMaxRetryCount
    Failures      \* what may go wrong

ASSUME ServerAssumption ==
    /\ Protocols \subseteq {"http", "grpc"}
    /\ Lower \in [Names -> Names]
    /\ \A n \in Names : Lower[Lower[n]] = Lower[n]
    /\ Cut \in [Names -> Names]
    /\ \A n \in Names : Lower[Cut[Lower[n]]] = Cut[Lower[n]]
    /\ Path \in [Names -> Paths] /\ Route \in [Names -> Paths]
    /\ Endpoints \subseteq Kinds \X Names
    /\ \A kind \in Kinds : \A payload \in Payloads[kind] :
          IsText(payload.text) /\ IsJson(ParseOrKeep(payload.text))
    /\ MaxRetry \in Nat
    /\ Failures \subseteq {"bind", "throw"}

VARIABLES
    protocol,
    handlers,       \* by the key of its table, or its route, what a handler is for
    registered,     \* what user code registered handlers for
    heard,          \* External: the topics and bindings the sidecar was told of
    listening,
    isInitialized,
    start,          \* where the current start is in the code
    stopping,       \* is a stop waiting for the server to shut down
    call            \* where each request is in the code

server == <<listening, isInitialized, start, stopping>>
tables == <<handlers, registered, heard>>
vars == <<protocol, handlers, registered, heard, listening, isInitialized, start,
          stopping, call>>

Idle == [stage |-> "idle"]

StartStages == {"idle", "binding", "sleeping", "probing", "probed"}

\* A "dropped" request is one nothing in the code will answer any more.
CallStages == {"idle", "handling", "dropped", "answered"}

TypeOK ==
    /\ protocol \in Protocols
    /\ DOMAIN handlers \subseteq Kinds \X (Names \cup Paths)
    /\ \A key \in DOMAIN handlers : handlers[key] \in Endpoints
    /\ registered \subseteq Endpoints /\ heard \subseteq Kinds \X Names
    /\ listening \in BOOLEAN /\ isInitialized \in BOOLEAN /\ stopping \in BOOLEAN
    /\ start \in [stage : StartStages, retries : 0..MaxRetry, healthy : BOOLEAN]
    /\ DOMAIN call = Calls
    /\ \A c \in Calls :
          /\ call[c].stage \in CallStages
          /\ call[c].stage # "idle" => call[c].kind \in Kinds /\ call[c].name \in Names
          /\ call[c].stage = "handling" => call[c].handler \in Endpoints

NotStarting == [stage |-> "idle", retries |-> 0, healthy |-> FALSE]

Init ==
    /\ protocol \in Protocols
    /\ handlers = <<>> /\ registered = {} /\ heard = {}
    /\ listening = FALSE /\ isInitialized = FALSE /\ stopping = FALSE
    /\ start = NotStarting
    /\ call = [c \in Calls |-> Idle]

Over(p) == protocol = p

Starting(s) == start.stage = s

-----------------------------------------------------------------------------
(* Registration, at any time before or after the start.                    *)

\* The key of a handler.
HandlerKey(kind, n) == <<kind, Lower[n]>>

Register(kind, n, table) ==
    /\ <<kind, n>> \in Endpoints
    /\ handlers' = table
    /\ registered' = registered \cup {<<kind, n>>}
    /\ UNCHANGED <<protocol, heard, server, call>>

\* Over gRPC the last handler of a key stays.
GRPCRegister(kind, n) ==
    Over("grpc") /\ Register(kind, n, Overlay(Single(HandlerKey(kind, n), <<kind, n>>), handlers))

GRPCListen(verb, n) == GRPCRegister(verb, n)

GRPCReceive(n) == GRPCRegister("binding", n)

GRPCSubscribe(n) == GRPCRegister("topic", n)

\* External: of the routes of one path and verb the router takes the first.
HTTPRegister(kind, n, route) ==
    Over("http") /\ Register(kind, n, Overlay(handlers, Single(route, <<kind, n>>)))

HTTPListen(verb, n) == HTTPRegister(verb, n, <<verb, Path[n]>>)

HTTPReceive(n) == HTTPRegister("binding", n, <<"post", Path[n]>>)

HTTPSubscribe(n) == HTTPRegister("topic", n, <<"post", Route[n]>>)

-----------------------------------------------------------------------------
(* The sidecar asks which topics and bindings there are.                   *)

Of(kind, keys) == {key \in keys : key[1] = kind}

Hear(kind, keys) ==
    /\ listening
    /\ heard' = (heard \ Of(kind, heard)) \cup Of(kind, keys)
    /\ UNCHANGED <<protocol, handlers, registered, server, call>>

\* The names are read back from the keys, the first two parts of each.
ListTopicSubscriptions ==
    Over("grpc") /\ Hear("topic", {<<"topic", Cut[key[2]]>> : key \in Of("topic", DOMAIN handlers)})

ListInputBindings == Over("grpc") /\ Hear("binding", DOMAIN handlers)

DaprSubscribe == Over("http") /\ Hear("topic", registered)

\* OPTIONS of each binding, which has a route of its own.
BindingOptions == Over("http") /\ Hear("binding", registered)

-----------------------------------------------------------------------------
(* Dispatch.  External: what the sidecar sends, to a server that listens.  *)

Sendable(kind, n) == <<kind, n>> \in (IF kind \in Verbs THEN Endpoints ELSE heard)

Handle(kind, n, payload, handler, argument) ==
    [stage |-> "handling", kind |-> kind, name |-> n, payload |-> payload,
     handler |-> handler, argument |-> argument]

Enter(c, request) ==
    /\ listening /\ call[c] = Idle
    /\ call' = [call EXCEPT ![c] = request]
    /\ UNCHANGED <<protocol, tables, server>>

\* gRPC: without a handler the method returns and never calls back.
Dispatch(c, kind, n, payload, sought, argument) ==
    LET key == HandlerKey(sought[1], sought[2])
    IN /\ Over("grpc") /\ Sendable(kind, n)
       /\ \/ /\ key \in DOMAIN handlers
             /\ Enter(c, Handle(kind, n, payload, handlers[key], argument))
          \/ /\ key \notin DOMAIN handlers
             /\ Enter(c, [stage |-> "dropped", kind |-> kind, name |-> n])

OnInvoke(c, verb, n, payload) ==
    LET bytes == GRPCEvent(verb, n, payload)
    IN Dispatch(c, verb, n, payload, InvocationOf(bytes), InvocationBody(bytes))

OnBindingEvent(c, n, payload) ==
    LET bytes == GRPCEvent("binding", n, payload)
    IN Dispatch(c, "binding", n, payload, BindingOf(bytes), BindingData(bytes))

OnTopicEvent(c, n, payload) ==
    LET bytes == GRPCEvent("topic", n, payload)
    IN Dispatch(c, "topic", n, payload, TopicOf(bytes), TopicData(bytes))

\* HTTP: the body is parsed, and may be refused, before a route is looked for.
\* Without a route the router answers that there is none.
RouteOf(kind, n) ==
    CASE kind \in Verbs -> <<kind, Path[n]>>
      [] kind = "binding" -> <<"post", Path[n]>>
      [] kind = "topic" -> <<"post", Route[n]>>

RouterCalls(c, kind, n, payload) ==
    LET event == HTTPEvent(kind, payload)
        handler == handlers[RouteOf(kind, n)]
    IN /\ Over("http") /\ Sendable(kind, n)
       /\ ~Refused(event) /\ RouteOf(kind, n) \in DOMAIN handlers
       /\ Enter(c, Handle(kind, n, payload, handler, RouteArgument(handler[1], RequestBody(event))))

Answered(kind, n, outcome, result, answer) ==
    [stage |-> "answered", kind |-> kind, name |-> n,
     outcome |-> outcome, result |-> result, answer |-> answer]

RouterRefuses(c, kind, n, payload) ==
    /\ Over("http") /\ Sendable(kind, n)
    /\ Refused(HTTPEvent(kind, payload))
    /\ Enter(c, Answered(kind, n, "refused", Undefined, Response(400, EmptyText)))

-----------------------------------------------------------------------------
(* The handler returns or throws.                                          *)

Handling(c, p, kinds) == Over(p) /\ call[c].stage = "handling" /\ call[c].handler[1] \in kinds

Answer(c, outcome, result, answer) ==
    /\ call' = [call EXCEPT ![c] = Answered(call[c].kind, call[c].name, outcome, result, answer)]
    /\ UNCHANGED <<protocol, tables, server>>

Returns(c, answer) == Answer(c, "returned", Undefined, answer)

Throws(c, answer) == "throw" \in Failures /\ Answer(c, "threw", Undefined, answer)

\* The handler threw and the promise of the callback rejects unobserved.
Drop(c) ==
    /\ "throw" \in Failures
    /\ call' = [call EXCEPT ![c] = [stage |-> "dropped", kind |-> call[c].kind, name |-> call[c].name]]
    /\ UNCHANGED <<protocol, tables, server>>

OnInvokeResumes(c) ==
    /\ Handling(c, "grpc", Verbs)
    /\ Drop(c) \/ \E result \in Results : Answer(c, "returned", result, InvocationResponse(result))

OnBindingEventResumes(c) ==
    Handling(c, "grpc", {"binding"}) /\ (Drop(c) \/ Returns(c, BindingResponse))

\* Mutant: the status is set before the handler is called.
OnTopicEventAlwaysSucceeds(c) ==
    LET success == TopicResponse(TopicEventResponseStatus.SUCCESS)
    IN Handling(c, "grpc", {"topic"}) /\ (Returns(c, success) \/ Throws(c, success))

\* Mutant: nothing catches what the handler throws.
OnTopicEventUncaught(c) ==
    /\ Handling(c, "grpc", {"topic"})
    /\ Drop(c) \/ Returns(c, TopicResponse(TopicEventResponseStatus.SUCCESS))

OnTopicEventResumes(c) ==
    /\ Handling(c, "grpc", {"topic"})
    /\ \/ Returns(c, TopicResponse(TopicEventResponseStatus.SUCCESS))
       \/ Throws(c, TopicResponse(TopicEventResponseStatus.DROP))

\* Whether the router answers a route that threw is the router's affair.
HTTPInvokeResumes(c) ==
    /\ Handling(c, "http", Verbs)
    /\ Drop(c) \/ \E result \in Results : Answer(c, "returned", result, RouteResponse(result))

HTTPBindingResumes(c) ==
    /\ Handling(c, "http", {"binding"})
    /\ Returns(c, Response(200, EmptyText)) \/ Throws(c, RouteFailed)

HTTPTopicResumes(c) ==
    /\ Handling(c, "http", {"topic"})
    /\ Drop(c) \/ Returns(c, RouteAcknowledged)

\* External: the sidecar takes the answer, or stops waiting for one that does
\* not come.
Ends(c) ==
    /\ call' = [call EXCEPT ![c] = Idle]
    /\ UNCHANGED <<protocol, tables, server>>

Take(c) == call[c].stage = "answered" /\ Ends(c)

GiveUp(c) == call[c].stage = "dropped" /\ Ends(c)

-----------------------------------------------------------------------------
(* Start and stop, called by one flow of user code that awaits them.       *)

Starts(stage, retries, healthy) ==
    start' = [stage |-> stage, retries |-> retries, healthy |-> healthy]

Start ==
    /\ Starting("idle") /\ ~stopping
    /\ Starts("binding", 0, FALSE)
    /\ UNCHANGED <<protocol, tables, listening, isInitialized, stopping, call>>

Listens ==
    /\ Starting("binding") /\ ~listening
    /\ listening' = TRUE
    /\ Starts("sleeping", 0, FALSE)
    /\ UNCHANGED <<protocol, tables, isInitialized, stopping, call>>

InitializeBind == Over("grpc") /\ Listens

RestanaStarts == Over("http") /\ Listens

\* The port is in use, by this server or another; the start rejects.
BindFails ==
    /\ Starting("binding")
    /\ listening \/ "bind" \in Failures
    /\ start' = NotStarting
    /\ UNCHANGED <<protocol, tables, listening, isInitialized, stopping, call>>

\* The polling delay is over and the sidecar is asked for its health.
Sleep ==
    /\ Starting("sleeping")
    /\ Starts("probing", start.retries, FALSE)
    /\ UNCHANGED <<protocol, tables, listening, isInitialized, stopping, call>>

IsHealthy(healthy) ==
    /\ Starting("probing")
    /\ Starts("probed", start.retries, healthy)
    /\ UNCHANGED <<protocol, tables, listening, isInitialized, stopping, call>>

\* A request that fails and an answer that is no success both count as not
\* healthy; neither implementation rejects.
GRPCIsHealthy == Over("grpc") /\ \E healthy \in BOOLEAN : IsHealthy(healthy)

HTTPIsHealthy == Over("http") /\ \E healthy \in BOOLEAN : IsHealthy(healthy)

\* Mutant: the probes are not counted.
PollUncounted ==
    /\ Starting("probed")
    /\ IF start.healthy THEN start' = NotStarting /\ isInitialized' = TRUE
                        ELSE Starts("sleeping", start.retries, FALSE) /\ UNCHANGED isInitialized
    /\ UNCHANGED <<protocol, tables, listening, stopping, call>>

\* Mutant: the loop ends after the last probe and the start goes on.
PollGivesUpSilently ==
    /\ Starting("probed")
    /\ IF start.healthy \/ start.retries = MaxRetry
       THEN start' = NotStarting /\ isInitialized' = TRUE
       ELSE Starts("sleeping", start.retries + 1, FALSE) /\ UNCHANGED isInitialized
    /\ UNCHANGED <<protocol, tables, listening, stopping, call>>

\* Mutant: the error comes one probe late.
PollOffByOne ==
    /\ Starting("probed")
    /\ \/ start.retries > MaxRetry /\ start' = NotStarting /\ UNCHANGED isInitialized
       \/ /\ start.retries <= MaxRetry /\ start.healthy
          /\ start' = NotStarting /\ isInitialized' = TRUE
       \/ /\ start.retries <= MaxRetry /\ ~start.healthy
          /\ Starts("sleeping", start.retries + 1, FALSE) /\ UNCHANGED isInitialized
    /\ UNCHANGED <<protocol, tables, listening, stopping, call>>

\* The probe is counted; one too many is an error whatever it found.
Poll ==
    /\ Starting("probed")
    /\ \/ /\ start.retries + 1 > MaxRetry
          /\ start' = NotStarting /\ UNCHANGED isInitialized
       \/ /\ start.retries + 1 <= MaxRetry /\ start.healthy
          /\ start' = NotStarting /\ isInitialized' = TRUE
       \/ /\ start.retries + 1 <= MaxRetry /\ ~start.healthy
          /\ Starts("sleeping", start.retries + 1, FALSE) /\ UNCHANGED isInitialized
    /\ UNCHANGED <<protocol, tables, listening, stopping, call>>

\* Mutant: the server goes on accepting requests while it stops.
StopAccepting ==
    /\ listening /\ Starting("idle") /\ ~stopping
    /\ stopping' = TRUE
    /\ UNCHANGED <<protocol, tables, listening, isInitialized, start, call>>

\* External: a server that is shutting down accepts nothing any more.
Stop ==
    /\ listening /\ Starting("idle") /\ ~stopping
    /\ stopping' = TRUE /\ listening' = FALSE
    /\ UNCHANGED <<protocol, tables, isInitialized, start, call>>

\* Mutant: the server stays initialized.
TryShutdownOnly ==
    /\ Over("grpc") /\ stopping
    /\ \A c \in Calls : call[c].stage \in {"idle", "answered"}
    /\ stopping' = FALSE
    /\ UNCHANGED <<protocol, tables, listening, isInitialized, start, call>>

\* tryShutdown calls back when the last request has been answered.
TryShutdown ==
    /\ Over("grpc") /\ stopping
    /\ \A c \in Calls : call[c].stage \in {"idle", "answered"}
    /\ stopping' = FALSE /\ isInitialized' = FALSE
    /\ UNCHANGED <<protocol, tables, listening, start, call>>

\* The terminator waits a while and then destroys the open connections.
Terminate ==
    /\ Over("http") /\ stopping
    /\ stopping' = FALSE /\ isInitialized' = FALSE
    /\ call' = [c \in Calls |-> Idle]
    /\ UNCHANGED <<protocol, tables, listening, start>>

-----------------------------------------------------------------------------
Registers == \E n \in Names :
    \/ \E verb \in Verbs : GRPCListen(verb, n) \/ HTTPListen(verb, n)
    \/ GRPCReceive(n) \/ GRPCSubscribe(n) \/ HTTPReceive(n) \/ HTTPSubscribe(n)

Hears == ListTopicSubscriptions \/ ListInputBindings \/ DaprSubscribe \/ BindingOptions

Sends(c) == \E n \in Names :
    \/ \E verb \in Verbs : \E payload \in Payloads[verb] : OnInvoke(c, verb, n, payload)
    \/ \E payload \in Payloads["binding"] : OnBindingEvent(c, n, payload)
    \/ \E payload \in Payloads["topic"] : OnTopicEvent(c, n, payload)
    \/ \E kind \in Kinds : \E payload \in Payloads[kind] :
          RouterCalls(c, kind, n, payload) \/ RouterRefuses(c, kind, n, payload)

Resumes(c) ==
    \/ OnInvokeResumes(c) \/ OnBindingEventResumes(c) \/ OnTopicEventResumes(c)
    \/ HTTPInvokeResumes(c) \/ HTTPBindingResumes(c) \/ HTTPTopicResumes(c)

Continues ==
    \/ InitializeBind \/ RestanaStarts \/ BindFails
    \/ Sleep \/ GRPCIsHealthy \/ HTTPIsHealthy \/ Poll

Next ==
    \/ Registers
    \/ Hears
    \/ \E c \in Calls : Sends(c) \/ Resumes(c) \/ Take(c) \/ GiveUp(c)
    \/ Start \/ Continues
    \/ Stop \/ TryShutdown \/ Terminate

Spec == Init /\ [][Next]_vars

\* Timers fire, the sidecar answers a probe and does not wait for ever for an
\* answer, and handlers return; nothing else is sure to happen.
Fairness ==
    /\ WF_vars(Continues)
    /\ WF_vars(TryShutdown \/ Terminate)
    /\ \A c \in Calls : WF_vars(Resumes(c)) /\ WF_vars(GiveUp(c))

FairSpec == Spec /\ Fairness

-----------------------------------------------------------------------------
\* A server that says it is initialized, and is not being stopped, listens:
\* a failed start, a stop or a second start leave no initialized server that
\* nobody can reach.
InitializedListens == isInitialized /\ ~stopping => listening

\* A server becomes initialized only in a start of its own, while it listens,
\* and on an answer of the sidecar that it is healthy.
InitializedOnHealth ==
    [][~isInitialized /\ isInitialized' => listening /\ Starting("probed") /\ start.healthy]_vars

\* Over gRPC a topic event is left without an answer only because of a bar in a
\* name: nobody subscribed to the name of the event, in any spelling, and the key
\* of a topic somebody did subscribe to was cut to it.  All other names the
\* sidecar is told lead back to a handler, whenever they are subscribed to, and a
\* handler that throws is answered with DROP.
LeavesUnanswered(c) ==
    call'[c].stage = "dropped" /\ call[c].stage # "dropped" /\ call'[c].kind = "topic"

BarWasCut(name) ==
    /\ ~\E n \in Names : <<"topic", n>> \in registered /\ Lower[n] = Lower[name]
    /\ \E n \in Names : <<"topic", n>> \in registered /\ Cut[Lower[n]] = name /\ Lower[n] # name

TopicEventsAnswered ==
    [][Over("grpc") => \A c \in Calls : LeavesUnanswered(c) => BarWasCut(call'[c].name)]_vars

\* A start ends, successful or not, however unhealthy the sidecar stays: the
\* polling is bounded.
StartEnds == ~Starting("idle") ~> Starting("idle")

\* A stop ends, also when requests were left unanswered, provided the sidecar
\* gives up on those: no new request keeps the server from shutting down.
StopEnds == stopping ~> ~stopping

\* A request is handled by a handler that was registered for its kind, of an
\* invocation for its verb, and up to spelling for its name: the numbers of the
\* verbs and the keys of the tables lead back to where they came from.  Over HTTP
\* it may be another one, of another kind even, but only one registered for the
\* very same route.
HandledByItsOwn ==
    \A c \in Calls : call[c].stage = "handling" =>
        LET handler == call[c].handler
        IN /\ handler \in registered
           /\ \/ handler[1] = call[c].kind /\ Lower[handler[2]] = Lower[call[c].name]
              \/ Over("http")
                 /\ RouteOf(handler[1], handler[2]) = RouteOf(call[c].kind, call[c].name)

\* What was sent, and what a handler of that kind takes its argument for.
Sent(kind, payload) ==
    IF Over("http") /\ kind # "binding" /\ payload.type # "json" THEN String(payload.text)
    ELSE ParseOrKeep(payload.text)

Received(kind, argument) == IF kind \in Verbs THEN ParseOrKeep(argument.string) ELSE argument

\* What no parser of an HTTP server is for: the body of an invocation that is
\* neither JSON nor text, and an empty one.
Unparsed(kind, payload) ==
    /\ Over("http")
    /\ \/ kind \in Verbs /\ payload.type \notin {"json", "text"}
       \/ kind # "topic" /\ payload.text = EmptyText

\* A handler of the request's kind gets what was sent: a binding's and a topic's
\* the value, and an invocation's a text that reads as the value.  Over HTTP, text
\* that is JSON stays a text.
PayloadArrives ==
    \A c \in Calls :
        LET kind == call[c].kind
        IN call[c].stage = "handling" /\ call[c].handler[1] = kind
           /\ ~Unparsed(kind, call[c].payload) =>
              Received(kind, call[c].argument) = Sent(kind, call[c].payload)

\* An answer tells what became of the request: it acknowledges it only if its
\* handler was called and did not throw, and the one to an invocation carries what
\* JSON makes of what its handler returned, unless that is falsy.
AnswerTellsOutcome ==
    \A c \in Calls : call[c].stage = "answered" =>
        /\ Acknowledges(call[c].kind, call[c].answer) <=> call[c].outcome = "returned"
        /\ call[c].kind \in Verbs /\ ~Falsy(call[c].result) =>
              ParseOrKeep(AnswerText(call[c].answer)) = Json(call[c].result)

\* "initialize subscribtions, ... before server start; the dapr sidecar
\* relies on these" (js-server/_index.md:77): what the sidecar is told of is
\* what user code subscribed to.
SubscribedIsHeard == [][Of("topic", heard') \subseteq registered]_vars
=============================================================================
