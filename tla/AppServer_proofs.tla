-------------------------- MODULE AppServer_proofs --------------------------
(***************************************************************************)
(* Invariants of a server for any names, any number of requests and any    *)
(* number of health probes, over either protocol.                          *)
(***************************************************************************)
EXTENDS AppServer, DaprMessages_proofs

\* Where a start can be, whatever the last probe found.
LEMMA StartType ==
    ASSUME NEW s \in StartStages, NEW r \in 0..MaxRetry, NEW h \in BOOLEAN
    PROVE  [stage |-> s, retries |-> r, healthy |-> h]
              \in [stage : StartStages, retries : 0..MaxRetry, healthy : BOOLEAN]
BY Zenon

LEMMA NoAnswerType ==
    ASSUME NEW s \in StartStages, NEW r \in 0..MaxRetry
    PROVE  /\ [stage |-> s, retries |-> r, healthy |-> FALSE]
                 \in [stage : StartStages, retries : 0..MaxRetry, healthy : BOOLEAN]
           /\ NotStarting \in [stage : StartStages, retries : 0..MaxRetry, healthy : BOOLEAN]
<1>1. 0 \in 0..MaxRetry /\ "idle" \in StartStages
  BY ServerAssumption DEF StartStages
<1>2. FALSE \in BOOLEAN
  OBVIOUS
<1> QED BY <1>1, <1>2, StartType, Zenon DEF NotStarting

LEMMA InitTypes == Init => TypeOK
<1>1. 0 \in 0..MaxRetry /\ "idle" \in StartStages
  BY ServerAssumption DEF StartStages
<1>2. NotStarting \in [stage : StartStages, retries : 0..MaxRetry, healthy : BOOLEAN]
  BY <1>1, NoAnswerType
<1>3. ASSUME Init
      PROVE  DOMAIN call = Calls /\ \A c \in Calls : call[c].stage = "idle"
  BY <1>3 DEF Init, Idle
<1>4. DOMAIN <<>> = {}
  OBVIOUS
<1> QED BY <1>2, <1>3, <1>4 DEF Init, TypeOK, CallStages

\* Where the handler of a kind and a name is, over either protocol.
KeyOf(kind, n) == IF protocol = "grpc" THEN HandlerKey(kind, n) ELSE RouteOf(kind, n)

LEMMA KeyTypes ==
    ASSUME NEW kind \in Kinds, NEW n \in Names
    PROVE  KeyOf(kind, n) \in Kinds \X (Names \cup Paths)
<1>1. Lower[n] \in Names /\ Path[n] \in Paths /\ Route[n] \in Paths
  BY ServerAssumption
<1>2. "post" \in Kinds /\ (kind \in Verbs \/ kind = "binding" \/ kind = "topic")
  BY DEF Kinds, Verbs
<1> QED BY <1>1, <1>2 DEF KeyOf, HandlerKey, RouteOf

\* A registration is of one endpoint: a handler comes to its key, or over HTTP
\* stands back for the one that is there.
LEMMA RegistersOne ==
    ASSUME Registers
    PROVE  \E kind \in Kinds, n \in Names :
              /\ <<kind, n>> \in Endpoints
              /\ registered' = registered \cup {<<kind, n>>}
              /\ UNCHANGED <<protocol, heard, server, call>>
              /\ DOMAIN handlers' = DOMAIN handlers \cup {KeyOf(kind, n)}
              /\ \A key \in DOMAIN handlers' :
                    \/ key = KeyOf(kind, n) /\ handlers'[key] = <<kind, n>>
                    \/ key \in DOMAIN handlers /\ handlers'[key] = handlers[key]
<1>1. PICK n \in Names :
         \/ \E verb \in Verbs : GRPCListen(verb, n) \/ HTTPListen(verb, n)
         \/ GRPCReceive(n) \/ GRPCSubscribe(n) \/ HTTPReceive(n) \/ HTTPSubscribe(n)
  BY DEF Registers
<1>2. "binding" \notin Verbs /\ "topic" \notin Verbs /\ Verbs \subseteq Kinds
      /\ "binding" \in Kinds /\ "topic" \in Kinds
  BY DEF Verbs, Kinds
<1>3. PICK kind \in Kinds :
         \/ GRPCRegister(kind, n)
         \/ HTTPRegister(kind, n, RouteOf(kind, n))
  BY <1>1, <1>2 DEF GRPCListen, GRPCReceive, GRPCSubscribe, HTTPListen, HTTPReceive, HTTPSubscribe,
                    RouteOf
<1> DEFINE key == KeyOf(kind, n)
           one == Single(key, <<kind, n>>)
<1>4. /\ <<kind, n>> \in Endpoints
      /\ registered' = registered \cup {<<kind, n>>}
      /\ UNCHANGED <<protocol, heard, server, call>>
      /\ handlers' = Overlay(one, handlers) \/ handlers' = Overlay(handlers, one)
  BY <1>3 DEF GRPCRegister, HTTPRegister, Register, Over, KeyOf
<1>5. /\ DOMAIN handlers' = DOMAIN handlers \cup {key}
      /\ \A k \in DOMAIN handlers' :
            \/ k = key /\ handlers'[k] = <<kind, n>>
            \/ k \in DOMAIN handlers /\ handlers'[k] = handlers[k]
  <2>1. DOMAIN one = {key} /\ one[key] = <<kind, n>>
    BY DEF Single
  <2> HIDE DEF key, one
  <2> QED BY <1>4, <2>1 DEF Overlay
<1> QED BY <1>4, <1>5

\* The kind and the name a request is looked up with are the ones it was sent
\* with.
LEMMA LookedUp ==
    ASSUME NEW n, NEW payload
    PROVE  /\ \A verb \in Verbs : InvocationOf(GRPCEvent(verb, n, payload)) = <<verb, n>>
           /\ BindingOf(GRPCEvent("binding", n, payload)) = <<"binding", n>>
           /\ TopicOf(GRPCEvent("topic", n, payload)) = <<"topic", n>>
<1>1. WellFormed(TopicEventRequest) /\ WellFormed(BindingEventRequest)
      /\ WellFormed(InvokeRequest) /\ WellFormed(HTTPExtension)
  BY FieldNumbers DEF AllSchemas
<1>2. BindingOf(GRPCEvent("binding", n, payload)) = <<"binding", n>>
  <2> DEFINE message == [name |-> n, data |-> payload.text]
  <2>1. GRPCEvent("binding", n, payload) = Wire(BindingEventRequest, message)
    BY DEF GRPCEvent
  <2>2. /\ DOMAIN message \subseteq DOMAIN BindingEventRequest
        /\ "name" \in DOMAIN message /\ message.name = n
    BY DEF BindingEventRequest
  <2> HIDE DEF message
  <2>3. Read(BindingEventRequest, Wire(BindingEventRequest, message)).name = n
    BY <1>1, <2>2, WireKeeps
  <2> QED BY <2>1, <2>3 DEF BindingOf
<1>3. TopicOf(GRPCEvent("topic", n, payload)) = <<"topic", n>>
  <2> DEFINE message == [pubsubName |-> Pubsub, topic |-> n, data |-> payload.text]
  <2>1. GRPCEvent("topic", n, payload) = Wire(TopicEventRequest, message)
    BY DEF GRPCEvent
  <2>2. /\ DOMAIN message \subseteq DOMAIN TopicEventRequest
        /\ "topic" \in DOMAIN message /\ message.topic = n
    BY DEF TopicEventRequest
  <2> HIDE DEF message
  <2>3. Read(TopicEventRequest, Wire(TopicEventRequest, message)).topic = n
    BY <1>1, <2>2, WireKeeps
  <2> QED BY <2>1, <2>3 DEF TopicOf
<1>4. ASSUME NEW verb \in Verbs
      PROVE  InvocationOf(GRPCEvent(verb, n, payload)) = <<verb, n>>
  <2> DEFINE extension == [verb |-> HTTPExtensionVerb[verb]]
             message == [method |-> n, data |-> Wire(AnyMessage, [value |-> payload.text]),
                         httpExtension |-> Wire(HTTPExtension, extension)]
             bytes == Wire(InvokeRequest, message)
  <2>1. GRPCEvent(verb, n, payload) = bytes
    BY DEF GRPCEvent, Verbs
  <2>2. /\ DOMAIN message \subseteq DOMAIN InvokeRequest
        /\ "method" \in DOMAIN message /\ message.method = n
        /\ "httpExtension" \in DOMAIN message
        /\ message.httpExtension = Wire(HTTPExtension, extension)
    BY DEF InvokeRequest
  <2>3. /\ DOMAIN extension \subseteq DOMAIN HTTPExtension
        /\ "verb" \in DOMAIN extension /\ extension.verb = HTTPExtensionVerb[verb]
    BY DEF HTTPExtension
  <2> HIDE DEF message, extension
  <2>4. /\ Read(InvokeRequest, bytes).method = n
        /\ Read(InvokeRequest, bytes).httpExtension = Wire(HTTPExtension, extension)
    BY <1>1, <2>2, WireKeeps
  <2>5. Read(HTTPExtension, Wire(HTTPExtension, extension)).verb = HTTPExtensionVerb[verb]
    BY <1>1, <2>3, WireKeeps
  <2>6. VerbOf(HTTPExtensionVerb[verb]) = verb
    <3>1. /\ verb \in DOMAIN HTTPExtensionVerb
          /\ HTTPExtensionVerb[verb] # HTTPExtensionVerb.patch
          /\ \A other \in DOMAIN HTTPExtensionVerb :
                HTTPExtensionVerb[other] = HTTPExtensionVerb[verb] => other = verb
      BY DEF Verbs, HTTPExtensionVerb
    <3> QED BY <3>1 DEF VerbOf
  <2> QED BY <2>1, <2>4, <2>5, <2>6 DEF InvocationOf
<1> QED BY <1>2, <1>3, <1>4

\* What a request comes to over gRPC, its payload having arrived, and over HTTP.
GRPCRequest(r) ==
    \E kind \in Kinds, n \in Names : \E payload \in Payloads[kind] : \E argument :
        /\ Sendable(kind, n)
        /\ Received(kind, argument) = ParseOrKeep(payload.text)
        /\ \/ /\ HandlerKey(kind, n) \in DOMAIN handlers
              /\ r = Handle(kind, n, payload, handlers[HandlerKey(kind, n)], argument)
           \/ /\ HandlerKey(kind, n) \notin DOMAIN handlers
              /\ r = [stage |-> "dropped", kind |-> kind, name |-> n]

HTTPRequest(r) ==
    \E kind \in Kinds, n \in Names : \E payload \in Payloads[kind] :
        LET event == HTTPEvent(kind, payload)
            handler == handlers[RouteOf(kind, n)]
        IN \/ /\ RouteOf(kind, n) \in DOMAIN handlers
              /\ r = Handle(kind, n, payload, handler,
                            RouteArgument(handler[1], RequestBody(event)))
           \/ r = Answered(kind, n, "refused", Undefined, Response(400, EmptyText))

Comes(r) ==
    \/ protocol = "grpc" /\ GRPCRequest(r)
    \/ protocol = "http" /\ HTTPRequest(r)

LEMMA EventArrives ==
    ASSUME NEW n, NEW payload
    PROVE  /\ \A verb \in Verbs : InvocationBody(GRPCEvent(verb, n, payload)) = String(payload.text)
           /\ BindingData(GRPCEvent("binding", n, payload)) = ParseOrKeep(payload.text)
           /\ TopicData(GRPCEvent("topic", n, payload)) = ParseOrKeep(payload.text)
<1>1. WellFormed(TopicEventRequest) /\ WellFormed(BindingEventRequest)
      /\ WellFormed(InvokeRequest) /\ WellFormed(AnyMessage)
  BY FieldNumbers DEF AllSchemas
<1>2. BindingData(GRPCEvent("binding", n, payload)) = ParseOrKeep(payload.text)
  <2> DEFINE message == [name |-> n, data |-> payload.text]
  <2>1. GRPCEvent("binding", n, payload) = Wire(BindingEventRequest, message)
    BY DEF GRPCEvent
  <2>2. /\ DOMAIN message \subseteq DOMAIN BindingEventRequest
        /\ "data" \in DOMAIN message /\ message.data = payload.text
    BY DEF BindingEventRequest
  <2> HIDE DEF message
  <2>3. Read(BindingEventRequest, Wire(BindingEventRequest, message)).data = payload.text
    BY <1>1, <2>2, WireKeeps
  <2> QED BY <2>1, <2>3 DEF BindingData
<1>3. TopicData(GRPCEvent("topic", n, payload)) = ParseOrKeep(payload.text)
  <2> DEFINE message == [pubsubName |-> Pubsub, topic |-> n, data |-> payload.text]
  <2>1. GRPCEvent("topic", n, payload) = Wire(TopicEventRequest, message)
    BY DEF GRPCEvent
  <2>2. /\ DOMAIN message \subseteq DOMAIN TopicEventRequest
        /\ "data" \in DOMAIN message /\ message.data = payload.text
    BY DEF TopicEventRequest
  <2> HIDE DEF message
  <2>3. Read(TopicEventRequest, Wire(TopicEventRequest, message)).data = payload.text
    BY <1>1, <2>2, WireKeeps
  <2> QED BY <2>1, <2>3 DEF TopicData
<1>4. ASSUME NEW verb \in Verbs
      PROVE  InvocationBody(GRPCEvent(verb, n, payload)) = String(payload.text)
  <2> DEFINE any == [value |-> payload.text]
             message == [method |-> n, data |-> Wire(AnyMessage, any),
                         httpExtension |-> Wire(HTTPExtension, [verb |-> HTTPExtensionVerb[verb]])]
  <2>1. GRPCEvent(verb, n, payload) = Wire(InvokeRequest, message)
    BY DEF GRPCEvent, Verbs
  <2>2. /\ DOMAIN message \subseteq DOMAIN InvokeRequest
        /\ "data" \in DOMAIN message /\ message.data = Wire(AnyMessage, any)
    BY DEF InvokeRequest
  <2>3. DOMAIN any \subseteq DOMAIN AnyMessage /\ "value" \in DOMAIN any /\ any.value = payload.text
    BY DEF AnyMessage
  <2> HIDE DEF message, any
  <2>4. Read(InvokeRequest, Wire(InvokeRequest, message)).data = Wire(AnyMessage, any)
    BY <1>1, <2>2, WireKeeps
  <2>5. Read(AnyMessage, Wire(AnyMessage, any)).value = payload.text
    BY <1>1, <2>3, WireKeeps
  <2> QED BY <2>1, <2>4, <2>5 DEF InvocationBody
<1> QED BY <1>2, <1>3, <1>4


LEMMA DispatchComes ==
    ASSUME NEW c \in Calls, NEW kind \in Kinds, NEW n \in Names, NEW payload \in Payloads[kind],
           NEW argument, Dispatch(c, kind, n, payload, <<kind, n>>, argument),
           Received(kind, argument) = ParseOrKeep(payload.text)
    PROVE  \E r : Enter(c, r) /\ Comes(r)
<1>0. protocol = "grpc"
  BY DEF Dispatch, Over
<1>1. /\ Sendable(kind, n)
      /\ \/ /\ HandlerKey(kind, n) \in DOMAIN handlers
            /\ Enter(c, Handle(kind, n, payload, handlers[HandlerKey(kind, n)], argument))
         \/ /\ HandlerKey(kind, n) \notin DOMAIN handlers
            /\ Enter(c, [stage |-> "dropped", kind |-> kind, name |-> n])
  BY DEF Dispatch, Over
<1>2. CASE HandlerKey(kind, n) \in DOMAIN handlers
  <2> DEFINE r == Handle(kind, n, payload, handlers[HandlerKey(kind, n)], argument)
  <2>1. GRPCRequest(r)
    BY <1>1, <1>2 DEF GRPCRequest
  <2>2. Comes(r)
    BY <1>0, <2>1 DEF Comes
  <2>3. Enter(c, r)
    BY <1>1, <1>2
  <2> HIDE DEF r
  <2> QED BY <2>2, <2>3
<1>3. CASE HandlerKey(kind, n) \notin DOMAIN handlers
  <2> DEFINE r == [stage |-> "dropped", kind |-> kind, name |-> n]
  <2>1. GRPCRequest(r)
    BY <1>1, <1>3 DEF GRPCRequest
  <2>2. Comes(r)
    BY <1>0, <2>1 DEF Comes
  <2>3. Enter(c, r)
    BY <1>1, <1>3
  <2> HIDE DEF r
  <2> QED BY <2>2, <2>3
<1> QED BY <1>2, <1>3

LEMMA RouterComes ==
    ASSUME NEW c \in Calls, NEW kind \in Kinds, NEW n \in Names, NEW payload \in Payloads[kind],
           RouterCalls(c, kind, n, payload) \/ RouterRefuses(c, kind, n, payload)
    PROVE  \E r : Enter(c, r) /\ Comes(r)
<1> DEFINE handler == handlers[RouteOf(kind, n)]
           handled == Handle(kind, n, payload, handler,
                             RouteArgument(handler[1], RequestBody(HTTPEvent(kind, payload))))
           refused == Answered(kind, n, "refused", Undefined, Response(400, EmptyText))
<1>1. CASE RouterCalls(c, kind, n, payload)
  <2>1. protocol = "http" /\ RouteOf(kind, n) \in DOMAIN handlers /\ Enter(c, handled)
    BY <1>1 DEF RouterCalls, Over
  <2>2. HTTPRequest(handled)
    BY <2>1 DEF HTTPRequest
  <2> QED BY <2>1, <2>2 DEF Comes
<1>2. CASE RouterRefuses(c, kind, n, payload)
  <2>1. protocol = "http" /\ Enter(c, refused)
    BY <1>2 DEF RouterRefuses, Over
  <2>2. HTTPRequest(refused)
    BY DEF HTTPRequest
  <2> QED BY <2>1, <2>2 DEF Comes
<1> QED BY <1>1, <1>2

LEMMA SendsOne ==
    ASSUME NEW c \in Calls, Sends(c)
    PROVE  \E r : Enter(c, r) /\ Comes(r)
<1>1. PICK n \in Names :
        \/ \E verb \in Verbs : \E payload \in Payloads[verb] : OnInvoke(c, verb, n, payload)
        \/ \E payload \in Payloads["binding"] : OnBindingEvent(c, n, payload)
        \/ \E payload \in Payloads["topic"] : OnTopicEvent(c, n, payload)
        \/ \E kind \in Kinds : \E payload \in Payloads[kind] :
              RouterCalls(c, kind, n, payload) \/ RouterRefuses(c, kind, n, payload)
  BY DEF Sends
<1>2. /\ "binding" \notin Verbs /\ "topic" \notin Verbs
      /\ Verbs \subseteq Kinds /\ "binding" \in Kinds /\ "topic" \in Kinds
  BY DEF Verbs, Kinds
<1>3. ASSUME NEW verb \in Verbs, NEW payload \in Payloads[verb], OnInvoke(c, verb, n, payload)
      PROVE  \E r : Enter(c, r) /\ Comes(r)
  <2> DEFINE argument == InvocationBody(GRPCEvent(verb, n, payload))
  <2>1. Dispatch(c, verb, n, payload, <<verb, n>>, argument)
    BY <1>3, LookedUp DEF OnInvoke
  <2>2. argument = String(payload.text)
    BY EventArrives
  <2>3. Received(verb, argument) = ParseOrKeep(payload.text)
    BY <2>2 DEF Received, String
  <2> HIDE DEF argument
  <2> QED BY <1>2, <2>1, <2>3, DispatchComes
<1>4. ASSUME NEW payload \in Payloads["binding"], OnBindingEvent(c, n, payload)
      PROVE  \E r : Enter(c, r) /\ Comes(r)
  <2> DEFINE argument == BindingData(GRPCEvent("binding", n, payload))
  <2>1. Dispatch(c, "binding", n, payload, <<"binding", n>>, argument)
    BY <1>4, LookedUp DEF OnBindingEvent
  <2>2. Received("binding", argument) = ParseOrKeep(payload.text)
    BY <1>2, EventArrives DEF Received
  <2> HIDE DEF argument
  <2> QED BY <1>2, <2>1, <2>2, DispatchComes
<1>5. ASSUME NEW payload \in Payloads["topic"], OnTopicEvent(c, n, payload)
      PROVE  \E r : Enter(c, r) /\ Comes(r)
  <2> DEFINE argument == TopicData(GRPCEvent("topic", n, payload))
  <2>1. Dispatch(c, "topic", n, payload, <<"topic", n>>, argument)
    BY <1>5, LookedUp DEF OnTopicEvent
  <2>2. Received("topic", argument) = ParseOrKeep(payload.text)
    BY <1>2, EventArrives DEF Received
  <2> HIDE DEF argument
  <2> QED BY <1>2, <2>1, <2>2, DispatchComes
<1> QED BY <1>1, <1>3, <1>4, <1>5, RouterComes

\* A step that sends a request leaves the others and the tables.
LEMMA RequestComes ==
    ASSUME TypeOK, NEW c \in Calls, Sends(c)
    PROVE  /\ UNCHANGED <<protocol, tables, server>>
           /\ DOMAIN call' = Calls
           /\ \A d \in Calls : d # c => call'[d] = call[d]
           /\ Comes(call'[c]) /\ call[c] = Idle
BY SendsOne DEF Enter, TypeOK

\* The answer to one request tells what its handler did.
Tells(kind, outcome, result, answer) ==
    /\ Acknowledges(kind, answer) <=> outcome = "returned"
    /\ kind \in Verbs /\ ~Falsy(result) => ParseOrKeep(AnswerText(answer)) = Json(result)

LEMMA TextReads == \A v : ParseOrKeep(Stringify(v)) = Json(v) /\ ParseOrKeep(JsonText(v)) = v
  <1> HIDE DEF Json
  <1> QED BY DEF ParseOrKeep, Stringify, JsonText

LEMMA InvocationTells ==
    ASSUME NEW kind \in Verbs, NEW result
    PROVE  Tells(kind, "returned", result, InvocationResponse(result))
<1>1. WellFormed(InvokeResponse) /\ WellFormed(AnyMessage)
  BY FieldNumbers DEF AllSchemas
<1>2. DOMAIN InvocationResponse(result) = {"wire"} /\ kind # "topic"
  BY DEF InvocationResponse, Wire, Verbs
<1>3. ASSUME ~Falsy(result)
      PROVE  AnswerText(InvocationResponse(result)) = Stringify(result)
  <2> DEFINE any == [value |-> Stringify(result)]
             message == [contentType |-> PlainText("application/json"),
                         data |-> Wire(AnyMessage, any)]
  <2>1. InvocationResponse(result) = Wire(InvokeResponse, message)
    BY <1>3 DEF InvocationResponse
  <2>2. /\ DOMAIN message \subseteq DOMAIN InvokeResponse
        /\ "data" \in DOMAIN message /\ message.data = Wire(AnyMessage, any)
    BY DEF InvokeResponse
  <2>3. /\ DOMAIN any \subseteq DOMAIN AnyMessage
        /\ "value" \in DOMAIN any /\ any.value = Stringify(result)
    BY DEF AnyMessage
  <2>4. Wire(AnyMessage, any) # Undefined
    <3>1. DOMAIN Wire(AnyMessage, any) = {"wire"} /\ DOMAIN Undefined = {"constant"}
      BY DEF Wire, Undefined
    <3> QED BY <3>1
  <2> HIDE DEF message, any
  <2>5. Read(InvokeResponse, Wire(InvokeResponse, message)).data = Wire(AnyMessage, any)
    BY <1>1, <2>2, WireKeeps
  <2>6. Read(AnyMessage, Wire(AnyMessage, any)).value = Stringify(result)
    BY <1>1, <2>3, WireKeeps
  <2> QED BY <1>2, <2>1, <2>4, <2>5, <2>6 DEF AnswerText
<1> QED BY <1>2, <1>3, TextReads DEF Tells, Acknowledges

LEMMA EventTells ==
    /\ \A r : Tells("binding", "returned", r, BindingResponse)
    /\ \A r : Tells("topic", "returned", r, TopicResponse(TopicEventResponseStatus.SUCCESS))
    /\ \A r : Tells("topic", "threw", r, TopicResponse(TopicEventResponseStatus.DROP))
<1>1. "binding" \notin Verbs /\ "topic" \notin Verbs
  BY DEF Verbs
<1>2. \A r : Tells("binding", "returned", r, BindingResponse)
  <2>1. DOMAIN BindingResponse = {"wire"}
    BY DEF BindingResponse, Wire
  <2> QED BY <1>1, <2>1 DEF Tells, Acknowledges
<1>3. ASSUME NEW status
      PROVE  /\ DOMAIN TopicResponse(status) = {"wire"}
             /\ Read(TopicEventResponse, TopicResponse(status)).status = status
  <2> DEFINE message == [status |-> status]
  <2>1. WellFormed(TopicEventResponse)
    BY FieldNumbers DEF AllSchemas
  <2>2. /\ DOMAIN message \subseteq DOMAIN TopicEventResponse
        /\ "status" \in DOMAIN message /\ message.status = status
    BY DEF TopicEventResponse
  <2>3. TopicResponse(status) = Wire(TopicEventResponse, message)
    BY DEF TopicResponse
  <2> HIDE DEF message
  <2>4. Read(TopicEventResponse, Wire(TopicEventResponse, message)).status = status
    BY <2>1, <2>2, WireKeeps
  <2> QED BY <2>3, <2>4 DEF Wire
<1>4. TopicEventResponseStatus.DROP # TopicEventResponseStatus.SUCCESS
  BY DEF TopicEventResponseStatus
<1> QED BY <1>1, <1>2, <1>3, <1>4 DEF Tells, Acknowledges

\* Over HTTP the handler of a route may be of another kind than the request:
\* only that of an invocation has a result to tell.
LEMMA RouteTells ==
    ASSUME NEW kind
    PROVE  /\ \A r : Tells(kind, "returned", r, RouteResponse(r))
           /\ Tells(kind, "returned", Undefined, Response(200, EmptyText))
           /\ Tells(kind, "returned", Undefined, RouteAcknowledged)
           /\ Tells(kind, "threw", Undefined, RouteFailed)
           /\ Tells(kind, "refused", Undefined, Response(400, EmptyText))
<1>1. ASSUME NEW status, NEW text
      PROVE  /\ DOMAIN Response(status, text) # {"wire"}
             /\ Response(status, text).status = status /\ Response(status, text).text = text
  BY DEF Response
<1>2. Falsy(Undefined)
  BY DEF Falsy
<1>3. ASSUME NEW r
      PROVE  Tells(kind, "returned", r, RouteResponse(r))
  <2>1. PICK text : /\ RouteResponse(r) = Response(200, text)
                    /\ ~Falsy(r) => text = Stringify(r)
    BY DEF RouteResponse
  <2> QED BY <1>1, <2>1, TextReads DEF Tells, Acknowledges, AnswerText
<1>4. ASSUME NEW text
      PROVE  /\ Tells(kind, "returned", Undefined, Response(200, text))
             /\ Tells(kind, "threw", Undefined, Response(500, text))
             /\ Tells(kind, "refused", Undefined, Response(400, text))
  BY <1>1, <1>2 DEF Tells, Acknowledges
<1> QED BY <1>3, <1>4 DEF RouteAcknowledged, RouteFailed

\* The keys of the tables are those of the handlers they hold, which user code
\* registered; so a request comes to a handler of its own.
OwnInv ==
    /\ HandledByItsOwn
    /\ \A key \in DOMAIN handlers :
          /\ handlers[key] \in registered
          /\ key = KeyOf(handlers[key][1], handlers[key][2])

LEMMA OwnKind ==
    ASSUME TypeOK, OwnInv, NEW c \in Calls, call[c].stage = "handling", protocol = "grpc"
    PROVE  call[c].handler[1] = call[c].kind
BY DEF OwnInv, HandledByItsOwn, Over

LEMMA OwnKeys ==
    ASSUME TypeOK, OwnInv, NEW key \in DOMAIN handlers, protocol = "grpc"
    PROVE  \E kind \in Kinds, n \in Names : handlers[key] = <<kind, n>> /\ key = HandlerKey(kind, n)
<1>1. handlers[key] \in Kinds \X Names
  BY ServerAssumption DEF TypeOK
<1>2. PICK kind \in Kinds, n \in Names : handlers[key] = <<kind, n>>
  BY <1>1
<1>3. key = HandlerKey(kind, n)
  BY <1>2 DEF OwnInv, KeyOf
<1> QED BY <1>2, <1>3

\* A handler that is done leaves an answer that tells what it did, or a request
\* without an answer, but over gRPC not the handler of a topic.  There a handler
\* only has requests of its own kind.
LEMMA ResumesOne ==
    ASSUME TypeOK, OwnInv, NEW c \in Calls, Resumes(c)
    PROVE  /\ call[c].stage = "handling"
           /\ \/ \E outcome, result, answer : /\ Answer(c, outcome, result, answer)
                                              /\ Tells(call[c].kind, outcome, result, answer)
              \/ Drop(c) /\ (protocol = "grpc" => call[c].kind # "topic")
<1> USE DEF Handling, Over, Returns, Throws
<1>1. "topic" \notin Verbs
  BY DEF Verbs
<1>0. call[c].stage = "handling" /\ protocol = "grpc" => call[c].handler[1] = call[c].kind
  BY OwnKind
<1>2. CASE OnInvokeResumes(c)
  BY <1>1, <1>0, <1>2, InvocationTells DEF OnInvokeResumes
<1>3. CASE HTTPInvokeResumes(c)
  BY <1>3, RouteTells DEF HTTPInvokeResumes
<1>4. CASE OnBindingEventResumes(c)
  BY <1>4, <1>0, EventTells DEF OnBindingEventResumes
<1>5. CASE OnTopicEventResumes(c)
  BY <1>5, <1>0, EventTells DEF OnTopicEventResumes
<1>6. CASE HTTPBindingResumes(c)
  BY <1>6, RouteTells DEF HTTPBindingResumes
<1>7. CASE HTTPTopicResumes(c)
  BY <1>7, RouteTells DEF HTTPTopicResumes
<1> QED BY <1>2, <1>3, <1>4, <1>5, <1>6, <1>7 DEF Resumes

\* A step that resumes, or ends, a request leaves the others and the tables;
\* the request is over, or waits for its end.
LEMMA RequestGoesOn ==
    ASSUME TypeOK, OwnInv, NEW c \in Calls, Resumes(c) \/ Take(c) \/ GiveUp(c)
    PROVE  /\ UNCHANGED <<protocol, tables, server>>
           /\ DOMAIN call' = Calls
           /\ \A d \in Calls : d # c => call'[d] = call[d]
           /\ call[c].stage # "idle"
           /\ \/ call'[c] = Idle
              \/ /\ call'[c].stage = "answered"
                 /\ call'[c].kind = call[c].kind /\ call'[c].name = call[c].name
                 /\ Tells(call'[c].kind, call'[c].outcome, call'[c].result, call'[c].answer)
              \/ /\ call'[c].stage = "dropped"
                 /\ call'[c].kind = call[c].kind /\ call'[c].name = call[c].name
                 /\ protocol = "grpc" => call[c].kind # "topic"
<1>1. CASE Take(c) \/ GiveUp(c)
  BY <1>1 DEF Take, GiveUp, Ends, TypeOK
<1>2. ASSUME NEW outcome, NEW result, NEW answer, Answer(c, outcome, result, answer),
             Tells(call[c].kind, outcome, result, answer)
      PROVE  /\ UNCHANGED <<protocol, tables, server>>
             /\ DOMAIN call' = Calls
             /\ \A d \in Calls : d # c => call'[d] = call[d]
             /\ call'[c].stage = "answered"
             /\ call'[c].kind = call[c].kind /\ call'[c].name = call[c].name
             /\ Tells(call'[c].kind, call'[c].outcome, call'[c].result, call'[c].answer)
  <2>1. /\ UNCHANGED <<protocol, tables, server>>
        /\ DOMAIN call' = Calls
        /\ \A d \in Calls : d # c => call'[d] = call[d]
        /\ call'[c] = Answered(call[c].kind, call[c].name, outcome, result, answer)
    BY <1>2 DEF Answer, TypeOK
  <2> QED BY <1>2, <2>1 DEF Answered
<1>3. CASE Drop(c) /\ (protocol = "grpc" => call[c].kind # "topic") /\ call[c].stage = "handling"
  <2>1. /\ UNCHANGED <<protocol, tables, server>>
        /\ DOMAIN call' = Calls
        /\ \A d \in Calls : d # c => call'[d] = call[d]
        /\ call'[c] = [stage |-> "dropped", kind |-> call[c].kind, name |-> call[c].name]
    BY <1>3 DEF Drop, TypeOK
  <2> QED BY <1>3, <2>1
<1>4. CASE Resumes(c)
  BY <1>2, <1>3, <1>4, ResumesOne
<1> QED BY <1>1, <1>4

\* The steps that concern neither the tables nor a request, but that a stop may
\* end every request.
LEMMA ServerGoesOn ==
    ASSUME TypeOK, Start \/ Continues \/ Stop \/ TryShutdown \/ Terminate
    PROVE  /\ UNCHANGED <<protocol, tables>>
           /\ DOMAIN call' = Calls
           /\ UNCHANGED call \/ \A d \in Calls : call'[d] = Idle
<1>1. UNCHANGED <<protocol, tables>> /\ (UNCHANGED call \/ call' = [c \in Calls |-> Idle])
  BY DEF Start, Continues, InitializeBind, RestanaStarts, Listens, BindFails, Sleep, GRPCIsHealthy,
         HTTPIsHealthy, IsHealthy, Poll, Stop, TryShutdown, Terminate
<1> QED BY <1>1 DEF TypeOK

\* What kind and name a request has, and whose handler it came to.
LEMMA ComesTo ==
    ASSUME NEW r, Comes(r)
    PROVE  /\ r.stage \in {"handling", "dropped", "answered"}
           /\ r.kind \in Kinds /\ r.name \in Names
           /\ r.stage = "handling" =>
                 /\ KeyOf(r.kind, r.name) \in DOMAIN handlers
                 /\ r.handler = handlers[KeyOf(r.kind, r.name)]
           /\ r.stage = "dropped" =>
                 /\ protocol = "grpc" /\ Sendable(r.kind, r.name)
                 /\ HandlerKey(r.kind, r.name) \notin DOMAIN handlers
<1>1. CASE protocol = "grpc" /\ GRPCRequest(r)
  BY <1>1 DEF GRPCRequest, Handle, KeyOf
<1>2. CASE protocol = "http" /\ HTTPRequest(r)
  BY <1>2 DEF HTTPRequest, Handle, Answered, KeyOf
<1> QED BY <1>1, <1>2 DEF Comes

LEMMA StepTypes == TypeOK /\ OwnInv /\ [Next]_vars => TypeOK'
<1> SUFFICES ASSUME TypeOK, OwnInv, [Next]_vars
             PROVE  TypeOK'
  OBVIOUS
<1> USE DEF TypeOK
<1>1. CASE UNCHANGED vars
  BY <1>1 DEF vars
<1>2. CASE Registers
  <2>1. PICK kind \in Kinds, n \in Names :
              /\ <<kind, n>> \in Endpoints
              /\ registered' = registered \cup {<<kind, n>>}
              /\ UNCHANGED <<protocol, heard, server, call>>
              /\ DOMAIN handlers' = DOMAIN handlers \cup {KeyOf(kind, n)}
              /\ \A key \in DOMAIN handlers' :
                    \/ key = KeyOf(kind, n) /\ handlers'[key] = <<kind, n>>
                    \/ key \in DOMAIN handlers /\ handlers'[key] = handlers[key]
    BY <1>2, RegistersOne
  <2>2. KeyOf(kind, n) \in Kinds \X (Names \cup Paths)
    BY KeyTypes
  <2> QED BY <2>1, <2>2 DEF server
<1>3. CASE Hears
  <2>1. PICK kind, keys : Hear(kind, keys) /\ Of(kind, keys) \subseteq Kinds \X Names
    <3>1. CASE ListTopicSubscriptions
      <4> DEFINE told == {<<"topic", Cut[k[2]]>> : k \in Of("topic", DOMAIN handlers)}
      <4>1. Hear("topic", told) /\ protocol = "grpc"
        BY <3>1 DEF ListTopicSubscriptions, Over
      <4>2. ASSUME NEW key \in Of("topic", DOMAIN handlers)
            PROVE  Cut[key[2]] \in Names
        <5>1. key \in DOMAIN handlers
          BY DEF Of
        <5>2. PICK kind \in Kinds, n \in Names : key = HandlerKey(kind, n)
          BY <4>1, <5>1, OwnKeys
        <5>3. key[2] = Lower[n]
          BY <5>2 DEF HandlerKey
        <5> QED BY <5>3, ServerAssumption
      <4>3. "topic" \in Kinds
        BY DEF Kinds
      <4>4. told \subseteq Kinds \X Names
        BY <4>2, <4>3
      <4> QED BY <4>1, <4>4 DEF Of
    <3>2. CASE ListInputBindings
      <4>1. Hear("binding", DOMAIN handlers) /\ protocol = "grpc"
        BY <3>2 DEF ListInputBindings, Over
      <4>2. DOMAIN handlers \subseteq Kinds \X Names
        BY <4>1, OwnKeys, ServerAssumption DEF HandlerKey
      <4> QED BY <4>1, <4>2 DEF Of
    <3>3. CASE DaprSubscribe \/ BindingOptions
      <4>1. registered \subseteq Kinds \X Names
        BY ServerAssumption
      <4> QED BY <3>3, <4>1 DEF DaprSubscribe, BindingOptions, Of
    <3> QED BY <1>3, <3>1, <3>2, <3>3 DEF Hears
  <2>2. heard' \subseteq Kinds \X Names
    BY <2>1 DEF Hear, Of
  <2> QED BY <2>1, <2>2 DEF Hear, server
<1>4. ASSUME NEW c \in Calls, Sends(c)
      PROVE  TypeOK'
  <2>1. /\ UNCHANGED <<protocol, tables, server>> /\ DOMAIN call' = Calls
        /\ \A d \in Calls : d # c => call'[d] = call[d]
        /\ Comes(call'[c])
    BY <1>4, RequestComes
  <2>2. /\ call'[c].stage \in CallStages
        /\ call'[c].kind \in Kinds /\ call'[c].name \in Names
        /\ call'[c].stage = "handling" => call'[c].handler \in Endpoints
    BY <2>1, ComesTo DEF CallStages
  <2> QED BY <2>1, <2>2 DEF tables, server
<1>5. ASSUME NEW c \in Calls, Resumes(c) \/ Take(c) \/ GiveUp(c)
      PROVE  TypeOK'
  <2>1. /\ UNCHANGED <<protocol, tables, server>> /\ DOMAIN call' = Calls
        /\ \A d \in Calls : d # c => call'[d] = call[d]
        /\ call[c].stage # "idle"
        /\ \/ call'[c] = Idle
           \/ /\ call'[c].stage \in {"answered", "dropped"}
              /\ call'[c].kind = call[c].kind /\ call'[c].name = call[c].name
    BY <1>5, RequestGoesOn
  <2> QED BY <2>1 DEF tables, server, CallStages, Idle
<1>6. CASE Start \/ Continues
  <2>1. /\ start.retries \in 0..MaxRetry /\ 0 \in 0..MaxRetry
        /\ start.retries + 1 <= MaxRetry => start.retries + 1 \in 0..MaxRetry
    BY ServerAssumption
  <2>2. {"idle", "binding", "sleeping", "probing", "probed"} \subseteq StartStages
    BY DEF StartStages
  <2> USE DEF tables, Starts
  <2>3. CASE Start \/ BindFails \/ Sleep
    <3>1. start' \in [stage : StartStages, retries : 0..MaxRetry, healthy : BOOLEAN]
      BY <2>1, <2>2, <2>3, NoAnswerType DEF Start, BindFails, Sleep
    <3> QED BY <2>3, <3>1 DEF Start, BindFails, Sleep
  <2>4. CASE InitializeBind \/ RestanaStarts
    <3>1. start' \in [stage : StartStages, retries : 0..MaxRetry, healthy : BOOLEAN]
      BY <2>1, <2>2, <2>4, NoAnswerType DEF InitializeBind, RestanaStarts, Listens
    <3> QED BY <2>4, <3>1 DEF InitializeBind, RestanaStarts, Listens
  <2>5. CASE GRPCIsHealthy \/ HTTPIsHealthy
    <3>1. start' \in [stage : StartStages, retries : 0..MaxRetry, healthy : BOOLEAN]
      BY <2>1, <2>2, <2>5, StartType DEF GRPCIsHealthy, HTTPIsHealthy, IsHealthy
    <3> QED BY <2>5, <3>1 DEF GRPCIsHealthy, HTTPIsHealthy, IsHealthy
  <2>6. CASE Poll
    <3>1. start' \in [stage : StartStages, retries : 0..MaxRetry, healthy : BOOLEAN]
      BY <2>1, <2>2, <2>6, NoAnswerType DEF Poll
    <3>2. isInitialized' \in BOOLEAN
      BY <2>6 DEF Poll
    <3> QED BY <2>6, <3>1, <3>2 DEF Poll
  <2> QED BY <1>6, <2>3, <2>4, <2>5, <2>6 DEF Continues
<1>7. CASE Stop \/ TryShutdown \/ Terminate
  <2>1. CASE Stop \/ TryShutdown
    BY <2>1 DEF Stop, TryShutdown, tables
  <2>2. CASE Terminate
    <3>1. \A c \in Calls : call'[c] = Idle
      BY <2>2 DEF Terminate
    <3>2. DOMAIN call' = Calls
      BY <2>2 DEF Terminate
    <3> QED BY <2>2, <3>1, <3>2 DEF Terminate, tables, Idle, CallStages
  <2> QED BY <1>7, <2>1, <2>2
<1> QED BY <1>1, <1>2, <1>3, <1>4, <1>5, <1>6, <1>7 DEF Next

LEMMA OwnStep == TypeOK /\ OwnInv /\ [Next]_vars => OwnInv'
<1> SUFFICES ASSUME TypeOK, OwnInv, [Next]_vars
             PROVE  OwnInv'
  OBVIOUS
<1> DEFINE Fits(handler, kind, n, p) ==
              \/ handler[1] = kind /\ Lower[handler[2]] = Lower[n]
              \/ p = "http" /\ RouteOf(handler[1], handler[2]) = RouteOf(kind, n)
           Own(r, reg, p) == r.stage = "handling" => /\ r.handler \in reg
                                                      /\ Fits(r.handler, r.kind, r.name, p)
           Keyed(table, reg) == \A key \in DOMAIN table :
              table[key] \in reg /\ key = KeyOf(table[key][1], table[key][2])
<1>1. /\ \A c \in Calls : Own(call[c], registered, protocol)
      /\ Keyed(handlers, registered)
  BY DEF OwnInv, HandledByItsOwn, Over
<1>2. ASSUME UNCHANGED protocol, Keyed(handlers', registered'),
             \A c \in Calls : Own(call'[c], registered', protocol)
      PROVE  OwnInv'
  BY <1>2 DEF OwnInv, HandledByItsOwn, Over, KeyOf
<1>3. CASE UNCHANGED <<protocol, handlers, registered, call>>
  BY <1>1, <1>2, <1>3
<1>4. CASE Registers
  <2>1. PICK kind \in Kinds, n \in Names :
              /\ registered' = registered \cup {<<kind, n>>}
              /\ UNCHANGED <<protocol, heard, server, call>>
              /\ \A key \in DOMAIN handlers' :
                    \/ key = KeyOf(kind, n) /\ handlers'[key] = <<kind, n>>
                    \/ key \in DOMAIN handlers /\ handlers'[key] = handlers[key]
    BY <1>4, RegistersOne
  <2>2. Keyed(handlers', registered')
    <3> SUFFICES ASSUME NEW key \in DOMAIN handlers'
                 PROVE  /\ handlers'[key] \in registered'
                        /\ key = KeyOf(handlers'[key][1], handlers'[key][2])
      OBVIOUS
    <3>1. CASE key = KeyOf(kind, n) /\ handlers'[key] = <<kind, n>>
      <4>1. handlers'[key][1] = kind /\ handlers'[key][2] = n
        BY <3>1
      <4> QED BY <2>1, <3>1, <4>1
    <3>2. CASE key \in DOMAIN handlers /\ handlers'[key] = handlers[key]
      BY <1>1, <2>1, <3>2
    <3> QED BY <2>1, <3>1, <3>2
  <2>3. \A c \in Calls : Own(call'[c], registered', protocol)
    BY <1>1, <2>1
  <2> QED BY <1>2, <2>1, <2>2, <2>3
<1>5. CASE Hears
  BY <1>3, <1>5 DEF Hears, ListTopicSubscriptions, ListInputBindings, DaprSubscribe, BindingOptions, Hear
<1>6. ASSUME NEW c \in Calls, Sends(c)
      PROVE  OwnInv'
  <2>1. /\ UNCHANGED <<protocol, handlers, registered>>
        /\ \A d \in Calls : d # c => call'[d] = call[d]
        /\ Comes(call'[c])
    BY <1>6, RequestComes DEF tables
  <2>2. PICK r : r = call'[c]
    OBVIOUS
  <2>3. Own(r, registered, protocol)
    <3> SUFFICES ASSUME r.stage = "handling"
                 PROVE  r.handler \in registered /\ Fits(r.handler, r.kind, r.name, protocol)
      OBVIOUS
    <3> DEFINE key == KeyOf(r.kind, r.name)
    <3>1. key \in DOMAIN handlers /\ r.handler = handlers[key]
      BY <2>1, <2>2, ComesTo
    <3>2. r.handler \in registered /\ key = KeyOf(r.handler[1], r.handler[2])
      BY <1>1, <3>1
    <3>3. CASE protocol = "grpc"
      <4>1. HandlerKey(r.kind, r.name) = HandlerKey(r.handler[1], r.handler[2])
        BY <3>2, <3>3 DEF KeyOf
      <4> QED BY <3>2, <4>1 DEF HandlerKey
    <3>4. CASE protocol = "http"
      <4>1. RouteOf(r.kind, r.name) = RouteOf(r.handler[1], r.handler[2])
        BY <3>2, <3>4 DEF KeyOf
      <4> QED BY <3>2, <3>4, <4>1
    <3> QED BY <3>3, <3>4, ServerAssumption DEF TypeOK
  <2>4. \A d \in Calls : Own(call'[d], registered', protocol)
    BY <1>1, <2>1, <2>2, <2>3
  <2>5. Keyed(handlers', registered')
    BY <1>1, <2>1
  <2> QED BY <1>2, <2>1, <2>4, <2>5
<1>7. ASSUME NEW c \in Calls, Resumes(c) \/ Take(c) \/ GiveUp(c)
      PROVE  OwnInv'
  <2>1. /\ UNCHANGED <<protocol, handlers, registered>>
        /\ \A d \in Calls : d # c => call'[d] = call[d]
        /\ call'[c].stage # "handling"
    BY <1>7, RequestGoesOn DEF tables, Idle
  <2>2. \A d \in Calls : Own(call'[d], registered', protocol)
    BY <1>1, <2>1
  <2>3. Keyed(handlers', registered')
    BY <1>1, <2>1
  <2> QED BY <1>2, <2>1, <2>2, <2>3
<1>8. CASE Start \/ Continues \/ Stop \/ TryShutdown \/ Terminate
  <2>1. /\ UNCHANGED <<protocol, handlers, registered>>
        /\ UNCHANGED call \/ \A d \in Calls : call'[d].stage = "idle"
    BY <1>8, ServerGoesOn DEF tables, Idle
  <2>2. \A d \in Calls : Own(call'[d], registered', protocol)
    BY <1>1, <2>1
  <2>3. Keyed(handlers', registered')
    BY <1>1, <2>1
  <2> QED BY <1>2, <2>1, <2>2, <2>3
<1> QED BY <1>3, <1>4, <1>5, <1>6, <1>7, <1>8 DEF Next, vars

LEMMA OwnInit == Init => OwnInv
<1>1. DOMAIN <<>> = {}
  OBVIOUS
<1> QED BY <1>1 DEF Init, OwnInv, HandledByItsOwn, Idle

\* Every reachable state of a server is of its type: the retry counter of a
\* start in particular never passes its bound.
THEOREM ServerTypeCorrect == Spec => []TypeOK
BY InitTypes, OwnInit, StepTypes, OwnStep, PTL DEF Spec

\* However many handlers there are, whatever names and routes they have and
\* whatever is registered while requests come, a request reaches a handler of its
\* own kind, verb and name, or over HTTP one registered for the same route.
THEOREM AlwaysHandledByItsOwn == Spec => []HandledByItsOwn
<1>1. OwnInv => HandledByItsOwn
  BY DEF OwnInv
<1> QED BY <1>1, InitTypes, OwnInit, StepTypes, OwnStep, PTL DEF Spec

-----------------------------------------------------------------------------
(* Topics over gRPC.  The sidecar is told what the keys of subscriptions   *)
(* are cut to; a subscription has a handler, now and later.                *)

TopicInv ==
    protocol = "grpc" => \A n \in Names :
        /\ <<"topic", n>> \in registered => HandlerKey("topic", n) \in DOMAIN handlers
        /\ <<"topic", n>> \in heard =>
              \E m \in Names : <<"topic", m>> \in registered /\ Cut[Lower[m]] = n

LEMMA TopicStep == TypeOK /\ OwnInv /\ TopicInv /\ [Next]_vars => TopicInv'
<1> SUFFICES ASSUME TypeOK, OwnInv, TopicInv, [Next]_vars
             PROVE  TopicInv'
  OBVIOUS
<1> USE DEF TopicInv, HandlerKey
<1>1. CASE UNCHANGED <<protocol, tables>>
  BY <1>1 DEF tables
<1>2. CASE Registers
  <2>1. PICK kind \in Kinds, n \in Names :
              /\ registered' = registered \cup {<<kind, n>>}
              /\ UNCHANGED <<protocol, heard, server, call>>
              /\ DOMAIN handlers' = DOMAIN handlers \cup {KeyOf(kind, n)}
    BY <1>2, RegistersOne
  <2> QED BY <2>1 DEF KeyOf
<1>3. CASE Hears
  <2>1. UNCHANGED <<protocol, handlers, registered>>
    BY <1>3 DEF Hears, ListTopicSubscriptions, ListInputBindings, DaprSubscribe, BindingOptions, Hear
  <2>2. ASSUME NEW n \in Names, <<"topic", n>> \in heard', protocol = "grpc",
               <<"topic", n>> \notin heard
        PROVE  \E m \in Names : <<"topic", m>> \in registered /\ Cut[Lower[m]] = n
    <3>1. PICK key \in Of("topic", DOMAIN handlers) : <<"topic", n>> = <<"topic", Cut[key[2]]>>
      <4> DEFINE told == {<<"topic", Cut[k[2]]>> : k \in Of("topic", DOMAIN handlers)}
      <4>1. \/ Hear("topic", told) \/ Hear("binding", DOMAIN handlers)
        BY <1>3, <2>2 DEF Hears, ListTopicSubscriptions, ListInputBindings, DaprSubscribe,
                          BindingOptions, Over
      <4>2. ASSUME NEW keys, Hear("binding", keys)
            PROVE  <<"topic", n>> \notin heard'
        BY <2>2, <4>2 DEF Hear, Of
      <4>3. Hear("topic", told)
        BY <2>2, <4>1, <4>2
      <4>4. <<"topic", n>> \in told
        BY <2>2, <4>3 DEF Hear, Of
      <4> QED BY <4>4
    <3>2. key \in DOMAIN handlers /\ key[1] = "topic"
      BY DEF Of
    <3>3. PICK kind \in Kinds, m \in Names : handlers[key] = <<kind, m>> /\ key = <<kind, Lower[m]>>
      BY <2>2, <3>2, OwnKeys
    <3>4. kind = "topic" /\ key[2] = Lower[m]
      BY <3>2, <3>3
    <3>5. <<"topic", m>> \in registered
      BY <3>2, <3>3, <3>4 DEF OwnInv
    <3> QED BY <3>1, <3>4, <3>5
  <2> QED BY <2>1, <2>2
<1>4. ASSUME NEW c \in Calls, Sends(c) \/ Resumes(c) \/ Take(c) \/ GiveUp(c)
      PROVE  UNCHANGED <<protocol, tables>>
  BY <1>4, RequestComes, RequestGoesOn
<1>5. CASE Start \/ Continues \/ Stop \/ TryShutdown \/ Terminate
  BY <1>1, <1>5, ServerGoesOn
<1>6. CASE UNCHANGED vars
  BY <1>1, <1>6 DEF vars, tables
<1> QED BY <1>1, <1>2, <1>3, <1>4, <1>5, <1>6 DEF Next

LEMMA AnswersTopics ==
    TypeOK /\ OwnInv /\ TopicInv /\ [Next]_vars =>
        (Over("grpc") => \A c \in Calls : LeavesUnanswered(c) => BarWasCut(call'[c].name))
<1> SUFFICES ASSUME TypeOK, OwnInv, TopicInv, [Next]_vars, protocol = "grpc",
                    NEW c \in Calls, LeavesUnanswered(c)
             PROVE  BarWasCut(call'[c].name)
  BY DEF Over
<1> USE DEF LeavesUnanswered
<1>1. CASE UNCHANGED call
  BY <1>1
<1>2. CASE Registers \/ Hears
  <2>1. UNCHANGED call
    BY <1>2, RegistersOne DEF Hears, ListTopicSubscriptions, ListInputBindings, DaprSubscribe,
                              BindingOptions, Hear
  <2> QED BY <1>1, <2>1
<1>3. ASSUME NEW d \in Calls, Sends(d)
      PROVE  BarWasCut(call'[c].name)
  <2>1. c = d /\ Comes(call'[c])
    BY <1>3, RequestComes
  <2>2. PICK n \in Names : /\ n = call'[c].name /\ Sendable("topic", n)
                           /\ HandlerKey("topic", n) \notin DOMAIN handlers
    BY <2>1, ComesTo
  <2>3. <<"topic", n>> \in heard
    BY <2>2 DEF Sendable, Verbs
  <2>4. ASSUME NEW m \in Names, <<"topic", m>> \in registered, Lower[m] = Lower[n]
        PROVE  FALSE
    BY <2>2, <2>4 DEF TopicInv, HandlerKey
  <2>5. PICK m \in Names : <<"topic", m>> \in registered /\ Cut[Lower[m]] = n
    BY <2>3 DEF TopicInv
  <2>6. Lower[m] # n
    BY <2>4, <2>5, ServerAssumption
  <2> QED BY <2>2, <2>4, <2>5, <2>6 DEF BarWasCut
<1>4. ASSUME NEW d \in Calls, Resumes(d) \/ Take(d) \/ GiveUp(d)
      PROVE  FALSE
  BY <1>4, RequestGoesOn DEF Idle
<1>5. CASE Start \/ Continues \/ Stop \/ TryShutdown \/ Terminate
  BY <1>1, <1>5, ServerGoesOn DEF Idle
<1>6. CASE UNCHANGED vars
  BY <1>1, <1>6 DEF vars
<1> QED BY <1>2, <1>3, <1>4, <1>5, <1>6 DEF Next

\* Over gRPC a topic event is left without an answer only when a bar in the name
\* of a subscription made the sidecar hear of another topic, which nobody
\* subscribed to; not by how topics are spelled, by when they are subscribed to
\* or by what handlers throw.
THEOREM UnansweredOnlyAfterCut == Spec => TopicEventsAnswered
<1>1. Init => TopicInv
  BY DEF Init, TopicInv
<1> QED BY <1>1, InitTypes, OwnInit, StepTypes, OwnStep, TopicStep, AnswersTopics, PTL
        DEF Spec, TopicEventsAnswered

-----------------------------------------------------------------------------
(* What is sent is what the handler is called with, and what it does is    *)
(* what the answer tells.                                                  *)

LEMMA StringIsJson == \A text : Json(String(text)) = String(text)
<1>1. ASSUME NEW text
      PROVE  /\ ~IsArray(String(text)) /\ ~IsBuffer(String(text))
             /\ DOMAIN String(text) # {"object"}
  BY DEF IsArray, IsBuffer, String
<1> QED BY <1>1 DEF Json, JsonOver, JsonLeaf

\* The body of a request is what the payload was, for a handler of its kind.
LEMMA BodyArrives ==
    ASSUME NEW kind \in Kinds, NEW payload \in Payloads[kind], protocol = "http",
           ~Unparsed(kind, payload)
    PROVE  Received(kind, RouteArgument(kind, RequestBody(HTTPEvent(kind, payload))))
              = Sent(kind, payload)
<1>1. "binding" \notin Verbs /\ "topic" \notin Verbs
  BY DEF Verbs
<1>2. Json(ParseOrKeep(payload.text)) = ParseOrKeep(payload.text)
  BY ServerAssumption DEF IsJson
<1> HIDE DEF Json
<1>3. CASE kind \in Verbs
  <2>1. /\ HTTPEvent(kind, payload) = payload /\ payload.type \in {"json", "text"}
        /\ payload.text # EmptyText
    BY <1>1, <1>3 DEF HTTPEvent, Unparsed, Over
  <2> DEFINE body == RequestBody(payload)
  <2>2. body = Sent(kind, payload)
    BY <1>1, <1>3, <2>1 DEF RequestBody, Sent, Over
  <2>3. Json(body) = body
    BY <1>2, <2>2, StringIsJson DEF Sent
  <2>4. RequestBody(HTTPEvent(kind, payload)) = body
    BY <2>1
  <2> HIDE DEF body
  <2>5. ParseOrKeep(RouteBody(body).string) = body
    BY <2>3, TextReads DEF RouteBody, String
  <2>6. RouteArgument(kind, body) = RouteBody(body)
    BY <1>1, <1>3 DEF RouteArgument
  <2> QED BY <1>3, <2>2, <2>4, <2>5, <2>6 DEF Received
<1>4. CASE kind = "binding"
  <2>1. payload.text # EmptyText
    BY <1>1, <1>4 DEF Unparsed, Over
  <2>2. RequestBody(HTTPEvent(kind, payload)) = ParseOrKeep(payload.text)
    BY <1>4, <2>1 DEF HTTPEvent, RequestBody
  <2> QED BY <1>1, <1>4, <2>2 DEF Received, RouteArgument, Sent
<1>5. CASE kind = "topic"
  <2> DEFINE members == [data |-> Sent(kind, payload)]
  <2>1. HTTPEvent(kind, payload) = [type |-> "json", text |-> JsonText(Object(members))]
    BY <1>1, <1>5 DEF HTTPEvent, StringifyObject, Sent, Over
  <2>2. "data" \in DOMAIN members /\ members.data = Sent(kind, payload)
    OBVIOUS
  <2> HIDE DEF members
  <2>3. JsonText(Object(members)) # EmptyText
    <3>1. DOMAIN JsonText(Object(members)) = {"json"} /\ DOMAIN EmptyText = {"plain"}
      BY DEF JsonText, EmptyText, PlainText
    <3> QED BY <3>1
  <2>4. RequestBody(HTTPEvent(kind, payload)) = Object(members)
    BY <2>1, <2>3, TextReads DEF RequestBody
  <2>5. RouteTopicData(Object(members)) = Sent(kind, payload)
    BY <2>2 DEF RouteTopicData, Object
  <2> QED BY <1>1, <1>5, <2>4, <2>5 DEF Received, RouteArgument
<1> QED BY <1>3, <1>4, <1>5 DEF Kinds

\* Of one request: what it carries to its handler, and what its answer tells.
Arrived(r) ==
    r.stage = "handling" /\ r.handler[1] = r.kind /\ ~Unparsed(r.kind, r.payload)
        => Received(r.kind, r.argument) = Sent(r.kind, r.payload)

Told(r) == r.stage = "answered" => Tells(r.kind, r.outcome, r.result, r.answer)

LEMMA ComesCarrying ==
    ASSUME NEW r, Comes(r)
    PROVE  Arrived(r) /\ Told(r)
<1>1. CASE protocol = "grpc" /\ GRPCRequest(r)
  <2>1. PICK kind \in Kinds, n \in Names : \E payload \in Payloads[kind] : \E argument :
        /\ Received(kind, argument) = ParseOrKeep(payload.text)
        /\ \/ r = Handle(kind, n, payload, handlers[HandlerKey(kind, n)], argument)
           \/ r = [stage |-> "dropped", kind |-> kind, name |-> n]
    BY <1>1 DEF GRPCRequest
  <2>2. PICK payload \in Payloads[kind] : \E argument :
        /\ Received(kind, argument) = ParseOrKeep(payload.text)
        /\ \/ r = Handle(kind, n, payload, handlers[HandlerKey(kind, n)], argument)
           \/ r = [stage |-> "dropped", kind |-> kind, name |-> n]
    BY <2>1
  <2>3. Sent(kind, payload) = ParseOrKeep(payload.text)
    BY <1>1 DEF Sent, Over
  <2> QED BY <2>2, <2>3 DEF Arrived, Told, Handle
<1>2. CASE protocol = "http" /\ HTTPRequest(r)
  <2>1. PICK kind \in Kinds, n \in Names : \E payload \in Payloads[kind] :
          \/ r = Handle(kind, n, payload, handlers[RouteOf(kind, n)],
                        RouteArgument(handlers[RouteOf(kind, n)][1],
                                      RequestBody(HTTPEvent(kind, payload))))
          \/ r = Answered(kind, n, "refused", Undefined, Response(400, EmptyText))
    BY <1>2 DEF HTTPRequest
  <2>2. PICK payload \in Payloads[kind] :
          \/ r = Handle(kind, n, payload, handlers[RouteOf(kind, n)],
                        RouteArgument(handlers[RouteOf(kind, n)][1],
                                      RequestBody(HTTPEvent(kind, payload))))
          \/ r = Answered(kind, n, "refused", Undefined, Response(400, EmptyText))
    BY <2>1
  <2>3. CASE r = Answered(kind, n, "refused", Undefined, Response(400, EmptyText))
    BY <2>3, RouteTells DEF Arrived, Told, Answered
  <2>4. CASE r = Handle(kind, n, payload, handlers[RouteOf(kind, n)],
                        RouteArgument(handlers[RouteOf(kind, n)][1],
                                      RequestBody(HTTPEvent(kind, payload))))
    <3>1. /\ r.stage = "handling" /\ r.kind = kind /\ r.payload = payload
          /\ r.argument = RouteArgument(r.handler[1], RequestBody(HTTPEvent(kind, payload)))
      BY <2>4 DEF Handle
    <3> QED BY <1>2, <3>1, BodyArrives DEF Arrived, Told
  <2> QED BY <2>2, <2>3, <2>4
<1> QED BY <1>1, <1>2 DEF Comes

\* Both hold of each request by itself: of its argument from when it is sent, of
\* its answer from when its handler is done.
LEMMA CarriesStep ==
    TypeOK /\ OwnInv /\ PayloadArrives /\ AnswerTellsOutcome /\ [Next]_vars
        => PayloadArrives' /\ AnswerTellsOutcome'
<1> SUFFICES ASSUME TypeOK, OwnInv, PayloadArrives, AnswerTellsOutcome, [Next]_vars
             PROVE  PayloadArrives' /\ AnswerTellsOutcome'
  OBVIOUS
<1>1. \A c \in Calls : Arrived(call[c]) /\ Told(call[c])
  BY DEF PayloadArrives, AnswerTellsOutcome, Arrived, Told, Tells
<1>2. ASSUME UNCHANGED protocol, \A c \in Calls : Arrived(call'[c]) /\ Told(call'[c])
      PROVE  PayloadArrives' /\ AnswerTellsOutcome'
  BY <1>2 DEF PayloadArrives, AnswerTellsOutcome, Arrived, Told, Tells, Unparsed, Sent, Over
<1>3. CASE UNCHANGED <<protocol, call>>
  BY <1>1, <1>2, <1>3
<1>4. CASE Registers \/ Hears
  <2>1. UNCHANGED <<protocol, call>>
    BY <1>4, RegistersOne DEF Hears, ListTopicSubscriptions, ListInputBindings, DaprSubscribe,
                              BindingOptions, Hear
  <2> QED BY <1>3, <2>1
<1>5. ASSUME NEW c \in Calls, Sends(c)
      PROVE  PayloadArrives' /\ AnswerTellsOutcome'
  <2>1. /\ UNCHANGED protocol /\ \A d \in Calls : d # c => call'[d] = call[d]
        /\ Comes(call'[c])
    BY <1>5, RequestComes
  <2>2. Arrived(call'[c]) /\ Told(call'[c])
    BY <2>1, ComesCarrying
  <2> QED BY <1>1, <1>2, <2>1, <2>2
<1>6. ASSUME NEW c \in Calls, Resumes(c) \/ Take(c) \/ GiveUp(c)
      PROVE  PayloadArrives' /\ AnswerTellsOutcome'
  <2>1. /\ UNCHANGED protocol /\ \A d \in Calls : d # c => call'[d] = call[d]
        /\ call'[c].stage # "handling"
        /\ call'[c].stage = "answered" =>
              Tells(call'[c].kind, call'[c].outcome, call'[c].result, call'[c].answer)
    BY <1>6, RequestGoesOn DEF Idle
  <2>2. Arrived(call'[c]) /\ Told(call'[c])
    BY <2>1 DEF Arrived, Told
  <2> QED BY <1>1, <1>2, <2>1, <2>2
<1>7. CASE Start \/ Continues \/ Stop \/ TryShutdown \/ Terminate
  <2>1. UNCHANGED protocol /\ (UNCHANGED call \/ \A d \in Calls : call'[d] = Idle)
    BY <1>7, ServerGoesOn
  <2>2. Arrived(Idle) /\ Told(Idle)
    BY DEF Arrived, Told, Idle
  <2> QED BY <1>1, <1>2, <2>1, <2>2
<1> QED BY <1>3, <1>4, <1>5, <1>6, <1>7 DEF Next, vars

LEMMA CarriesInit == Init => PayloadArrives /\ AnswerTellsOutcome
BY DEF Init, PayloadArrives, AnswerTellsOutcome, Idle

\* Whatever payload of whatever content type, a handler of the request's kind is
\* called with what was sent, unless no parser of the HTTP server is for it: over
\* gRPC with the value, over HTTP with the value of JSON and with the text of text.
THEOREM PayloadsAlwaysArrive == Spec => []PayloadArrives
BY InitTypes, OwnInit, StepTypes, OwnStep, CarriesInit, CarriesStep, PTL DEF Spec

\* Whatever handlers return, an answer acknowledges a request exactly if its
\* handler was called and did not throw, and carries what JSON makes of the result
\* of an invocation unless that is falsy.
THEOREM AnswersAlwaysTell == Spec => []AnswerTellsOutcome
BY InitTypes, OwnInit, StepTypes, OwnStep, CarriesInit, CarriesStep, PTL DEF Spec

-----------------------------------------------------------------------------
(* Starts and stops do not overlap, and a start that polls has a server    *)
(* that listens.                                                           *)

ListenInv ==
    /\ InitializedListens
    /\ start.stage # "idle" => ~stopping
    /\ start.stage \in {"sleeping", "probing", "probed"} => listening

LEMMA ListenStep == TypeOK /\ OwnInv /\ ListenInv /\ [Next]_vars => ListenInv'
<1> SUFFICES ASSUME TypeOK, OwnInv, ListenInv, [Next]_vars
             PROVE  ListenInv'
  OBVIOUS
<1> USE DEF ListenInv, InitializedListens
<1>1. CASE UNCHANGED server
  BY <1>1 DEF server
<1>2. CASE Start \/ Continues
  <2> USE DEF Starting, Starts, NotStarting
  <2>1. CASE Start \/ BindFails \/ Sleep
    BY <2>1 DEF Start, BindFails, Sleep
  <2>2. CASE InitializeBind \/ RestanaStarts
    BY <2>2 DEF InitializeBind, RestanaStarts, Listens
  <2>3. CASE GRPCIsHealthy \/ HTTPIsHealthy
    BY <2>3 DEF GRPCIsHealthy, HTTPIsHealthy, IsHealthy
  <2>4. CASE Poll
    BY <2>4 DEF Poll
  <2> QED BY <1>2, <2>1, <2>2, <2>3, <2>4 DEF Continues
<1>3. CASE Stop \/ TryShutdown \/ Terminate
  BY <1>3 DEF Stop, TryShutdown, Terminate, Starting, TypeOK
<1>4. ASSUME NEW c \in Calls, Sends(c) \/ Resumes(c) \/ Take(c) \/ GiveUp(c)
      PROVE  UNCHANGED server
  BY <1>4, RequestComes, RequestGoesOn
<1>5. CASE Registers \/ Hears
  <2>1. UNCHANGED server
    BY <1>5, RegistersOne DEF Hears, ListTopicSubscriptions, ListInputBindings, DaprSubscribe,
                              BindingOptions, Hear
  <2> QED BY <1>1, <2>1
<1>6. CASE UNCHANGED vars
  BY <1>1, <1>6 DEF vars, server
<1> QED BY <1>1, <1>2, <1>3, <1>4, <1>5, <1>6 DEF Next

\* An initialized server that is not being stopped listens.
THEOREM InitializedServerListens == Spec => []InitializedListens
<1>1. Init => TypeOK /\ OwnInv /\ ListenInv
  BY InitTypes, OwnInit DEF Init, ListenInv, InitializedListens, NotStarting
<1>2. ListenInv => InitializedListens
  BY DEF ListenInv
<1> QED BY <1>1, <1>2, StepTypes, OwnStep, ListenStep, PTL DEF Spec

\* Nothing but the end of a poll that found the sidecar healthy initializes the
\* server.
InitializesOnHealth ==
    ~isInitialized /\ isInitialized' => listening /\ Starting("probed") /\ start.healthy

LEMMA OnlyPollInitializes == TypeOK /\ OwnInv /\ ListenInv /\ [Next]_vars => InitializesOnHealth
<1> SUFFICES ASSUME TypeOK, OwnInv, ListenInv, [Next]_vars, ~isInitialized, isInitialized'
             PROVE  listening /\ Starting("probed") /\ start.healthy
  BY DEF InitializesOnHealth
<1> USE DEF server
<1>1. CASE Start \/ InitializeBind \/ RestanaStarts \/ BindFails \/ Sleep
  BY <1>1 DEF Start, InitializeBind, RestanaStarts, Listens, BindFails, Sleep
<1>2. CASE GRPCIsHealthy \/ HTTPIsHealthy
  BY <1>2 DEF GRPCIsHealthy, HTTPIsHealthy, IsHealthy
<1>3. CASE Poll
  BY <1>3 DEF Poll, ListenInv, Starting
<1>4. CASE Stop \/ TryShutdown \/ Terminate
  BY <1>4 DEF Stop, TryShutdown, Terminate
<1>5. ASSUME NEW c \in Calls, Sends(c) \/ Resumes(c) \/ Take(c) \/ GiveUp(c)
      PROVE  UNCHANGED server
  BY <1>5, RequestComes, RequestGoesOn
<1>6. CASE Registers \/ Hears
  BY <1>6, RegistersOne DEF Hears, ListTopicSubscriptions, ListInputBindings, DaprSubscribe,
                            BindingOptions, Hear
<1>7. CASE UNCHANGED vars
  BY <1>7 DEF vars
<1> QED BY <1>1, <1>2, <1>3, <1>4, <1>5, <1>6, <1>7 DEF Next, Continues

\* A server becomes initialized only in a start of its own, while it listens,
\* and on an answer of the sidecar that it is healthy.
THEOREM InitializedOnlyOnHealth == Spec => InitializedOnHealth
<1>1. Init => TypeOK /\ OwnInv /\ ListenInv
  BY InitTypes, OwnInit DEF Init, ListenInv, InitializedListens, NotStarting
<1>2. InitializedOnHealth <=> [][InitializesOnHealth]_vars
  BY PTL DEF InitializedOnHealth, InitializesOnHealth
<1> QED BY <1>1, <1>2, StepTypes, OwnStep, ListenStep, OnlyPollInitializes, PTL DEF Spec
=============================================================================
