------------------------------ MODULE AppEvents ------------------------------
(***************************************************************************)
(* What a DaprServer makes of a request of the sidecar, and what it makes  *)
(* of what the handler does.  The kind of a request is the verb of an      *)
(* invocation, "binding" or "topic"; its payload is a text of a content    *)
(* type, which is one of "json", "text", "bytes" and "other".              *)
(***************************************************************************)
EXTENDS DaprMessages

Verbs == {"get", "post", "put", "delete"}      \* HttpMethod

Kinds == Verbs \cup {"binding", "topic"}

-----------------------------------------------------------------------------
(* gRPC.                                                                   *)

Pubsub == PlainText("pubsub")

\* External: what the sidecar sends.
GRPCEvent(kind, name, payload) ==
    IF kind = "topic"
    THEN Wire(TopicEventRequest, [pubsubName |-> Pubsub, topic |-> name, data |-> payload.text])
    ELSE IF kind = "binding"
    THEN Wire(BindingEventRequest, [name |-> name, data |-> payload.text])
    ELSE Wire(InvokeRequest,
              [method |-> name, data |-> Wire(AnyMessage, [value |-> payload.text]),
               httpExtension |-> Wire(HTTPExtension, [verb |-> HTTPExtensionVerb[kind]])])

\* Mutant: the first case falls through to the second.
VerbOfFallsThrough(number) ==
    IF number = HTTPExtensionVerb.get THEN "post"
    ELSE CHOOSE verb \in DOMAIN HTTPExtensionVerb : HTTPExtensionVerb[verb] = number

\* convertHttpVerbNumberToString, in lower case.
VerbOf(number) ==
    IF number = HTTPExtensionVerb.patch THEN "none"
    ELSE CHOOSE verb \in DOMAIN HTTPExtensionVerb : HTTPExtensionVerb[verb] = number

\* The kind and the name the handler is looked up with.
InvocationOf(bytes) ==
    LET request == Read(InvokeRequest, bytes)
    IN <<VerbOf(Read(HTTPExtension, request.httpExtension).verb), request.method>>

BindingOf(bytes) == <<"binding", Read(BindingEventRequest, bytes).name>>

TopicOf(bytes) == <<"topic", Read(TopicEventRequest, bytes).topic>>

\* What the handler is called with; of an invocation its body, unparsed.
InvocationBody(bytes) ==
    String(Read(AnyMessage, Read(InvokeRequest, bytes).data).value)

BindingData(bytes) == ParseOrKeep(Read(BindingEventRequest, bytes).data)

TopicData(bytes) == ParseOrKeep(Read(TopicEventRequest, bytes).data)

\* An invocation's result is sent unless it is falsy.
InvocationResponse(result) ==
    Wire(InvokeResponse,
         IF Falsy(result) THEN [contentType |-> PlainText("application/json")]
         ELSE [contentType |-> PlainText("application/json"),
               data |-> Wire(AnyMessage, [value |-> Stringify(result)])])

BindingResponse == Wire(BindingEventResponse, <<>>)

TopicEventResponseStatus == [SUCCESS |-> 0, RETRY |-> 1, DROP |-> 2]

TopicResponse(status) == Wire(TopicEventResponse, [status |-> status])

-----------------------------------------------------------------------------
(* HTTP.                                                                   *)

\* External: what the sidecar sends.  A topic's payload is in a cloud event, as a
\* value if it is JSON; a binding's is sent as JSON whatever it is.
HTTPEvent(kind, payload) ==
    IF kind = "topic"
    THEN [type |-> "json",
          text |-> StringifyObject([data |-> IF payload.type = "json" THEN ParseOrKeep(payload.text)
                                             ELSE String(payload.text)])]
    ELSE IF kind = "binding" THEN [type |-> "json", text |-> payload.text]
    ELSE payload

\* The parser of JSON is strict: anything but an object or an array is an error,
\* which the router answers before any route.
Refused(event) ==
    /\ event.type = "json" /\ event.text # EmptyText
    /\ DOMAIN ParseOrKeep(event.text) \notin {{"object"}, {"array"}}

\* Mutant: every body is parsed as JSON.
RequestBodyAnyType(event) ==
    IF event.text = EmptyText THEN EmptyObject ELSE ParseOrKeep(event.text)

\* req.body, by the content type; no JSON and no parser at all leave {}.
RequestBody(event) ==
    CASE event.type = "text" -> String(event.text)
      [] event.type = "bytes" -> Buffer(event.text)
      [] event.type = "json" /\ event.text # EmptyText -> ParseOrKeep(event.text)
      [] OTHER -> EmptyObject

RouteBody(body) == String(Stringify(body))

\* req?.body?.data
RouteTopicData(body) ==
    IF DOMAIN body = {"object"} /\ "data" \in DOMAIN body.object THEN body.object.data ELSE Undefined

\* What the handler of a route is called with.
RouteArgument(kind, body) ==
    CASE kind \in Verbs -> RouteBody(body)
      [] kind = "binding" -> body
      [] kind = "topic" -> RouteTopicData(body)

Response(status, text) == [status |-> status, text |-> text]

RouteResponse(result) ==
    Response(200, IF Falsy(result) THEN StringifyObject([closed |-> True]) ELSE Stringify(result))

RouteAcknowledged == Response(200, StringifyObject([success |-> True]))

RouteFailed ==
    Response(500, StringifyObject([error |-> String(PlainText("COULD_NOT_PROCESS_CALLBACK"))]))

\* External: what the sidecar takes an answer for.
Acknowledges(kind, answer) ==
    IF DOMAIN answer = {"wire"}
    THEN kind = "topic" =>
            Read(TopicEventResponse, answer).status = TopicEventResponseStatus.SUCCESS
    ELSE answer.status = 200

\* External: the text an invocation is answered with, if there is one.
AnswerText(answer) ==
    IF DOMAIN answer # {"wire"} THEN answer.text
    ELSE LET data == Read(InvokeResponse, answer).data
         IN IF data = Undefined THEN EmptyText ELSE Read(AnyMessage, data).value
=============================================================================
