----------------------------- MODULE HTTPClient -----------------------------
(***************************************************************************)
(* The HTTP client: the request each operation of the client makes, and    *)
(* what it makes of the answer.  A URL is its template; name is the key,   *)
(* name or id that varies in it.                                           *)
(***************************************************************************)
EXTENDS JsValues, Naturals

NoName == "none"
NoBody == EmptyText

Sent(verb, url, name, body) == [verb |-> verb, url |-> url, name |-> name, body |-> body]

\* The values in a list of items, and of operations, are user code's.
JsonItem(item) == [key |-> item.key, value |-> Json(item.value)]

JsonItems(items) == [i \in DOMAIN items |-> JsonItem(items[i])]

JsonOperations(operations) ==
    [i \in DOMAIN operations |->
        [operation |-> operations[i].operation, request |-> JsonItem(operations[i].request)]]

StringifyList(records) == JsonText(Array([i \in DOMAIN records |-> Object(records[i])]))

-----------------------------------------------------------------------------
StateSave(ask) == Sent("post", "/state", NoName, StringifyList(JsonItems(ask.items)))

StateGet(ask) == Sent("get", "/state/key", ask.key, NoBody)

StateGetBulk(ask) ==
    Sent("post", "/state/bulk", NoName,
         StringifyObject([keys |-> ask.keys, parallelism |-> 10]))

StateDelete(ask) == Sent("delete", "/state/key", ask.key, NoBody)

StateTransaction(ask) ==
    Sent("post", "/state/transaction", NoName,
         StringifyObject([operations |-> JsonOperations(ask.operations), metadata |-> Null]))

StateQuery(ask) ==
    Sent("post", "v1.0-alpha1/state/query", NoName, StringifyObject(ask.query.object))

InvokerInvoke(ask) ==
    Sent(ask.method, "/invoke/method", NoName,
         IF ask.method = "get" THEN NoBody ELSE Stringify(OrEmpty(ask.data)))

BindingSend(ask) ==
    Sent("post", "/bindings", NoName,
         StringifyObject([operation |-> "create", data |-> Json(ask.data)]))

PubSubPublish(ask) == Sent("post", "/publish", NoName, Stringify(OrEmpty(ask.data)))

MetadataGet(ask) == Sent("get", "/metadata", NoName, NoBody)

MetadataSet(ask) == Sent("put", "/metadata/key", ask.key, ask.value.string)

SecretGet(ask) == Sent("get", "/secrets/key", ask.key, NoBody)

SecretGetBulk(ask) == Sent("get", "/secrets/bulk", NoName, NoBody)

SidecarShutdown(ask) == Sent("post", "/shutdown", NoName, NoBody)

HealthIsHealthy(ask) == Sent("get", "/healthz", NoName, NoBody)

-----------------------------------------------------------------------------
\* execute turns an object to JSON, a Buffer too, and sends a string as it is; a
\* body that is falsy is not sent.
Body(data) ==
    IF Falsy(data) THEN NoBody ELSE IF IsObject(data) THEN Stringify(data) ELSE ToText(data)

ActorInvoke(ask) == Sent("post", "/actors/method", NoName, Body(ask.data))

ActorStateTransaction(ask) ==
    Sent("post", "/actors/state", NoName, StringifyList(JsonOperations(ask.operations)))

ActorStateGet(ask) == Sent("get", "/actors/state/key", ask.key, NoBody)

RegisterActorReminder(ask) ==
    Sent("post", "/actors/reminders/name", ask.name,
         StringifyObject([period |-> "period", data |-> Json(ask.data)]))

ReminderGet(ask) == Sent("get", "/actors/reminders/name", ask.name, NoBody)

UnregisterActorReminder(ask) == Sent("delete", "/actors/reminders/name", ask.name, NoBody)

RegisterActorTimer(ask) ==
    Sent("post", "/actors/timers/name", ask.name,
         StringifyObject([period |-> "period", data |-> Json(ask.data), callback |-> "callback"]))

UnregisterActorTimer(ask) == Sent("delete", "/actors/timers/name", ask.name, NoBody)

Deactivate(ask) == Sent("delete", "/actors", NoName, NoBody)

\* The URL is not what it was meant to be: it begins with replace('/v1.0', '')}.
GetActors(ask) == Sent("get", "replace('/v1.0', '')}/dapr/config", NoName, NoBody)

-----------------------------------------------------------------------------
Request(ask) ==
    CASE ask.op = "save" -> StateSave(ask)
      [] ask.op = "get" -> StateGet(ask)
      [] ask.op = "getBulk" -> StateGetBulk(ask)
      [] ask.op = "delete" -> StateDelete(ask)
      [] ask.op = "transaction" -> StateTransaction(ask)
      [] ask.op = "query" -> StateQuery(ask)
      [] ask.op = "invoke" -> InvokerInvoke(ask)
      [] ask.op = "send" -> BindingSend(ask)
      [] ask.op = "publish" -> PubSubPublish(ask)
      [] ask.op = "metadataGet" -> MetadataGet(ask)
      [] ask.op = "metadataSet" -> MetadataSet(ask)
      [] ask.op = "secretGet" -> SecretGet(ask)
      [] ask.op = "secretGetBulk" -> SecretGetBulk(ask)
      [] ask.op = "shutdown" -> SidecarShutdown(ask)
      [] ask.op = "isHealthy" -> HealthIsHealthy(ask)
      [] ask.op = "actorInvoke" -> ActorInvoke(ask)
      [] ask.op = "actorTransaction" -> ActorStateTransaction(ask)
      [] ask.op = "actorGet" -> ActorStateGet(ask)
      [] ask.op = "registerReminder" -> RegisterActorReminder(ask)
      [] ask.op = "reminderGet" -> ReminderGet(ask)
      [] ask.op = "unregisterReminder" -> UnregisterActorReminder(ask)
      [] ask.op = "registerTimer" -> RegisterActorTimer(ask)
      [] ask.op = "unregisterTimer" -> UnregisterActorTimer(ask)
      [] ask.op = "deactivate" -> Deactivate(ask)
      [] ask.op = "getActors" -> GetActors(ask)

-----------------------------------------------------------------------------
(* Answers.                                                                *)

\* Mutant: one status too many.
SucceedsUpTo400(status) == status >= 200 /\ status <= 400

\* execute returns the answer or throws.
Succeeds(status) == status >= 200 /\ status <= 399

\* What the promise resolves with, as the sequence of the values in it: no
\* value if it is void.
Result(ask, text) ==
    CASE ask.op \in {"publish", "metadataSet", "isHealthy"} -> <<True>>
      [] ask.op \in {"save", "delete", "transaction", "shutdown", "actorTransaction",
                     "registerReminder", "unregisterReminder", "registerTimer",
                     "unregisterTimer", "deactivate"} -> <<>>
      [] ask.op \in {"getBulk", "query", "metadataGet", "secretGet", "secretGetBulk"} ->
             ParseOrKeep(text).array
      [] OTHER -> <<ParseOrKeep(text)>>

\* publish and isHealthy catch what execute throws, and resolve with false.
CatchesErrors(ask) == ask.op \in {"publish", "isHealthy"}
=============================================================================
