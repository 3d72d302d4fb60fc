----------------------------- MODULE GRPCClient -----------------------------
(***************************************************************************)
(* The gRPC client: the message each operation of the client sends, and    *)
(* what it makes of the message it is answered with.                       *)
(***************************************************************************)
EXTENDS DaprMessages, SequencesExt

Name(s) == PlainText(s)

Call(rpc, message) == [rpc |-> rpc, bytes |-> Wire(DaprService[rpc].request, message)]

\* The request could not be built: the promise rejects, nothing is sent.
Throws == [rpc |-> "none"]

\* Buffer.from(v) of a value that is not a string, an array or a Buffer.
NotBytes(v) == ~(IsString(v) \/ IsArray(v) \/ IsBuffer(v))

-----------------------------------------------------------------------------
(* State.                                                                  *)

SavedText(v) == IF IsObject(v) THEN Stringify(v) ELSE ToText(v)

SavedItem(item) == Wire(StateItem, [key |-> Name(item.key), value |-> SavedText(item.value)])

StateSave(ask) ==
    IF \E i \in DOMAIN ask.items : ask.items[i].value = Undefined THEN Throws
    ELSE Call("saveState", [storeName |-> Name("store"),
                            statesList |-> [i \in DOMAIN ask.items |-> SavedItem(ask.items[i])]])

StateGet(ask) == Call("getState", [storeName |-> Name("store"), key |-> Name(ask.key)])

StateGetBulk(ask) ==
    Call("getBulkState", [storeName |-> Name("store"), keysList |-> ask.keys, parallelism |-> 10])

StateDelete(ask) == Call("deleteState", [storeName |-> Name("store"), key |-> Name(ask.key)])

\* Mutant: without Buffer.from.
OperationTextAsIs(v) == v

\* A falsy value is sent as an empty text.
OperationText(v) == IF Falsy(v) THEN EmptyText ELSE ToText(v)

TransactionItem(o) ==
    Wire(TransactionalStateOperation,
         [operationtype |-> Name(o.operation),
          request |-> Wire(StateItem, [key |-> Name(o.request.key),
                                       value |-> OperationText(o.request.value)])])

StateTransaction(ask) ==
    IF \E i \in DOMAIN ask.operations :
          LET v == ask.operations[i].request.value IN ~Falsy(v) /\ NotBytes(v)
    THEN Throws
    ELSE Call("executeStateTransaction",
              [storename |-> Name("store"),
               operationsList |->
                   [i \in DOMAIN ask.operations |-> TransactionItem(ask.operations[i])]])

StateQuery(ask) ==
    Call("queryStateAlpha1", [storeName |-> Name("store"), query |-> StringifyObject(ask.query.object)])

-----------------------------------------------------------------------------
(* Invocation, bindings, publishing.                                       *)

\* convertHttpVerbStringToNumber
Verb(method) ==
    IF method \in DOMAIN HTTPExtensionVerb \ {"patch"} THEN HTTPExtensionVerb[method]
    ELSE HTTPExtensionVerb.none

InvokerInvoke(ask) ==
    Call("invokeService",
         [id |-> Name("app"),
          message |-> Wire(InvokeRequest,
              [method |-> Name("method"),
               httpExtension |-> Wire(HTTPExtension, [verb |-> Verb(ask.method)]),
               data |-> Wire(AnyMessage, [value |-> Stringify(OrEmpty(ask.data))]),
               contentType |-> Name("application/json")])])

BindingSend(ask) ==
    IF ask.data = Undefined THEN Throws
    ELSE Call("invokeBinding", [name |-> Name("binding"), operation |-> Name("create"),
                                data |-> Stringify(ask.data)])

PubSubPublish(ask) ==
    Call("publishEvent", [pubsubName |-> Name("pubsub"), topic |-> Name("topic"),
                          data |-> Stringify(OrEmpty(ask.data))])

-----------------------------------------------------------------------------
(* Metadata, secrets, the sidecar, configuration.                          *)

MetadataGet(ask) == Call("getMetadata", <<>>)

MetadataSet(ask) == Call("setMetadata", [key |-> Name(ask.key), value |-> ask.value.string])

SecretGet(ask) == Call("getSecret", [storeName |-> Name("store"), key |-> Name(ask.key)])

SecretGetBulk(ask) == Call("getBulkSecret", [storeName |-> Name("store")])

SidecarShutdown(ask) == Call("shutdown", <<>>)

HealthIsHealthy(ask) == Call("getMetadata", <<>>)

\* Empty keys are left out.
ConfigurationGet(ask) ==
    Call("getConfigurationAlpha1",
         [storeName |-> Name("store"), keysList |-> SelectSeq(ask.keys, LAMBDA k : k # "")])

-----------------------------------------------------------------------------
(* Actors.                                                                 *)

\* The bytes of a message: a Buffer, or a string, which is taken for base64; an
\* array or an object cannot be sent.
ActorInvoke(ask) ==
    IF ~Falsy(ask.data) /\ ~IsString(ask.data) /\ ~IsBuffer(ask.data) THEN Throws
    ELSE Call("invokeActor",
              [actorType |-> Name("type"), actorId |-> Name("id"), method |-> Name("method"),
               data |-> IF Falsy(ask.data) THEN EmptyText
                        ELSE IF IsString(ask.data) THEN PlainText("decoded")
                        ELSE ask.data.buffer])

ActorOperation(o) ==
    Wire(TransactionalActorStateOperation,
         [key |-> Name(o.request.key), operationtype |-> Name(o.operation),
          value |-> Wire(AnyMessage, [value |-> Template(o.request.value)])])

ActorStateTransaction(ask) ==
    Call("executeActorStateTransaction",
         [actorType |-> Name("type"), actorId |-> Name("id"),
          operationsList |-> [i \in DOMAIN ask.operations |-> ActorOperation(ask.operations[i])]])

ActorStateGet(ask) ==
    Call("getActorState", [actorType |-> Name("type"), actorId |-> Name("id"),
                           key |-> Name(ask.key)])

\* Falsy data is not set.
RegisterActorReminder(ask) ==
    Call("registerActorReminder",
         [actorType |-> Name("type"), actorId |-> Name("id"), name |-> Name(ask.name),
          period |-> Name("period"),
          data |-> IF Falsy(ask.data) THEN EmptyText ELSE ToText(ask.data)])

UnregisterActorReminder(ask) ==
    Call("unregisterActorReminder",
         [actorType |-> Name("type"), actorId |-> Name("id"), name |-> Name(ask.name)])

RegisterActorTimer(ask) ==
    IF ~Falsy(ask.data) /\ NotBytes(ask.data) THEN Throws
    ELSE Call("registerActorTimer",
              [actorType |-> Name("type"), actorId |-> Name("id"), name |-> Name(ask.name),
               callback |-> Name("callback"), period |-> Name("period"),
               data |-> IF Falsy(ask.data) THEN EmptyText ELSE ToText(ask.data)])

UnregisterActorTimer(ask) ==
    Call("unregisterActorTimer",
         [actorType |-> Name("type"), actorId |-> Name("id"), name |-> Name(ask.name)])

GetActors(ask) == Call("getMetadata", <<>>)

-----------------------------------------------------------------------------
Request(ask) ==
    CASE ask.op = "save" -> StateSave(ask)
      [] ask.op = "get" -> StateGet(ask)
      [] ask.op = "getBulk" -> StateGetBulk(ask)
      [] ask.op = "delete" -> StateDelete(ask)
      [] ask.op = "transaction" -> StateTransaction(ask)
      [] ask.op = "query" -> StateQuery(ask)
      [] ask.op = "invoke" -> InvokerInvoke(ask)
      [] ask.op = "send" -> BindingSend(ask)
      [] ask.op = "publish" -> PubSubPublish(ask)
      [] ask.op = "metadataGet" -> MetadataGet(ask)
      [] ask.op = "metadataSet" -> MetadataSet(ask)
      [] ask.op = "secretGet" -> SecretGet(ask)
      [] ask.op = "secretGetBulk" -> SecretGetBulk(ask)
      [] ask.op = "shutdown" -> SidecarShutdown(ask)
      [] ask.op = "isHealthy" -> HealthIsHealthy(ask)
      [] ask.op = "configurationGet" -> ConfigurationGet(ask)
      [] ask.op = "actorInvoke" -> ActorInvoke(ask)
      [] ask.op = "actorTransaction" -> ActorStateTransaction(ask)
      [] ask.op = "actorGet" -> ActorStateGet(ask)
      [] ask.op = "registerReminder" -> RegisterActorReminder(ask)
      [] ask.op = "unregisterReminder" -> UnregisterActorReminder(ask)
      [] ask.op = "registerTimer" -> RegisterActorTimer(ask)
      [] ask.op = "unregisterTimer" -> UnregisterActorTimer(ask)
      [] ask.op = "getActors" -> GetActors(ask)

-----------------------------------------------------------------------------
(* Answers.                                                                *)

BulkResult(list) == [i \in DOMAIN list |-> ParseOrKeep(Read(BulkStateItem, list[i]).data)]

\* What query and send hand on is not decoded.
QueryResult(list) == [i \in DOMAIN list |-> Buffer(Read(QueryStateItem, list[i]).data)]

ConfigurationResult(list) ==
    [i \in DOMAIN list |-> String(Read(ConfigurationItem, list[i]).value)]

ActorsResult(list) ==
    [i \in DOMAIN list |-> Number(Read(ActiveActorsCount, list[i]).count)]

MapResult(map) ==
    LET keys == SetToSeq(DOMAIN map) IN [i \in DOMAIN keys |-> String(map[keys[i]])]

\* A secret that is got alone is the first of the map.
Result(ask, message) ==
    CASE ask.op \in {"publish", "metadataSet", "isHealthy"} -> <<True>>
      [] ask.op \in {"get", "actorGet", "actorInvoke"} -> <<ParseOrKeep(message.data)>>
      [] ask.op = "getBulk" -> BulkResult(message.itemsList)
      [] ask.op = "query" -> QueryResult(message.resultsList)
      [] ask.op = "invoke" -> <<ParseOrKeep(Read(AnyMessage, message.data).value)>>
      [] ask.op = "send" -> <<Buffer(message.data)>>
      [] ask.op = "metadataGet" -> MapResult(message.extendedMetadataMap)
      [] ask.op = "secretGet" -> <<Head(MapResult(message.dataMap))>>
      [] ask.op = "secretGetBulk" -> <<Object([internals |-> message.dataMap])>>
      [] ask.op = "configurationGet" -> ConfigurationResult(message.itemsList)
      [] ask.op = "getActors" -> ActorsResult(message.activeActorsCountList)
      [] OTHER -> <<>>

\* Mutant: a get of the state parses outside of a try.
CallbackThrowsInGet(ask, message) ==
    ask.op \in {"get", "invoke"} /\
        IF ask.op = "get" THEN DOMAIN message.data # {"json"}
        ELSE \/ message.data = Undefined
             \/ DOMAIN Read(AnyMessage, message.data).value # {"json"}

\* The callback of invoke throws if the answer is not JSON: its promise stays
\* open.
CallbackThrows(ask, message) ==
    ask.op = "invoke" /\
        (message.data = Undefined \/ DOMAIN Read(AnyMessage, message.data).value # {"json"})

\* publish and setMetadata reject with false, isHealthy resolves with it.
CatchesErrors(ask) == ask.op = "isHealthy"
=============================================================================
