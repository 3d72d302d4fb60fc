------------------------------- MODULE Sidecar -------------------------------
(***************************************************************************)
(* External: the sidecar behind the client, as the code uses it.  A cell   *)
(* is a place it keeps a text in: a key of the state store or of an actor, *)
(* a reminder, what it last passed on to an application, a binding or a    *)
(* topic.  A request writes some cells and is answered with others; an     *)
(* application, an actor and a binding answer with what they last heard.   *)
(***************************************************************************)
EXTENDS DaprMessages

App == <<"app", "method">>
Actor == <<"actor", "method">>
Binding == <<"binding", "name">>
Topic == <<"topic", "name">>
Actors == <<"actors", "count">>
Metadata == <<"metadata", "m">>
Secret == <<"secret", "s">>

Cells(kind, names) == [i \in DOMAIN names |-> <<kind, names[i]>>]

Writes(cell, text) == [writes |-> Single(cell, text), reads |-> <<>>]
ReadsAll(kind, names) == [writes |-> <<>>, reads |-> Cells(kind, names)]
Reads(cell) == [writes |-> <<>>, reads |-> <<cell>>]
Hears(cell, text) == [writes |-> Single(cell, text), reads |-> <<cell>>]
Nothing == [writes |-> <<>>, reads |-> <<>>]
NotFound == [writes |-> <<>>, reads |-> <<>>, refused |-> TRUE]

\* What a list of items, each a key and its text, writes; the last item of a
\* key counts.
WritesItems(kind, items) ==
    LET keys == {items[i].key : i \in DOMAIN items}
        last(k) == CHOOSE i \in DOMAIN items :
                       /\ items[i].key = k
                       /\ \A j \in DOMAIN items : items[j].key = k => j <= i
    IN [writes |-> [cell \in {<<kind, k>> : k \in keys} |-> items[last(cell[2])].text],
        reads |-> <<>>]

Item(key, text) == [key |-> key, text |-> text]

\* An application is asked with a verb.
Invoked(verb, text) ==
    CASE verb = "get" -> Reads(App)
      [] verb = "delete" -> Writes(App, EmptyText)
      [] OTHER -> Hears(App, text)

-----------------------------------------------------------------------------
(* HTTP.                                                                   *)

HTTPItems(body) ==
    [i \in DOMAIN body.json.array |->
        LET o == body.json.array[i].object IN Item(o.key, JsonText(o.value))]

HTTPOperations(operations) ==
    [i \in DOMAIN operations |->
        LET o == operations[i]
        IN Item(o.request.key, IF o.operation = "delete" THEN EmptyText
                               ELSE JsonText(o.request.value))]

HTTPMeaning(r) ==
    LET at == <<r.verb, r.url>>
    IN CASE at = <<"post", "/state">> -> WritesItems("state", HTTPItems(r.body))
         [] at = <<"get", "/state/key">> -> Reads(<<"state", r.name>>)
         [] at = <<"post", "/state/bulk">> -> ReadsAll("state", r.body.json.object.keys)
         [] at = <<"delete", "/state/key">> -> Writes(<<"state", r.name>>, EmptyText)
         [] at = <<"post", "/state/transaction">> ->
                WritesItems("state", HTTPOperations(r.body.json.object.operations))
         [] at = <<"post", "v1.0-alpha1/state/query">> ->
                ReadsAll("state", r.body.json.object.keys)
         [] r.url = "/invoke/method" -> Invoked(r.verb, r.body)
         [] at = <<"post", "/bindings">> -> Hears(Binding, JsonText(r.body.json.object.data))
         [] at = <<"post", "/publish">> -> Writes(Topic, r.body)
         [] at = <<"get", "/metadata">> -> Reads(Metadata)
         [] at = <<"put", "/metadata/key">> -> Writes(<<"metadata", r.name>>, r.body)
         [] at = <<"get", "/secrets/key">> -> Reads(<<"secret", r.name>>)
         [] at = <<"get", "/secrets/bulk">> -> Reads(Secret)
         [] at = <<"post", "/actors/method">> -> Hears(Actor, r.body)
         [] at = <<"post", "/actors/state">> ->
                WritesItems("actor", HTTPOperations(
                    [i \in DOMAIN r.body.json.array |-> r.body.json.array[i].object]))
         [] at = <<"get", "/actors/state/key">> -> Reads(<<"actor", r.name>>)
         [] at = <<"post", "/actors/reminders/name">> ->
                Writes(<<"reminder", r.name>>, JsonText(r.body.json.object.data))
         [] at = <<"get", "/actors/reminders/name">> -> Reads(<<"reminder", r.name>>)
         [] at = <<"delete", "/actors/reminders/name">> ->
                Writes(<<"reminder", r.name>>, EmptyText)
         [] at = <<"post", "/actors/timers/name">> ->
                Writes(<<"timer", r.name>>, JsonText(r.body.json.object.data))
         [] at = <<"delete", "/actors/timers/name">> -> Writes(<<"timer", r.name>>, EmptyText)
         [] at \in {<<"delete", "/actors">>, <<"post", "/shutdown">>, <<"get", "/healthz">>} ->
                Nothing
         [] OTHER -> NotFound

\* Metadata, secrets and what is read of many keys is answered as a list.
HTTPAnswersList(r) == r.url \in {"/state/bulk", "v1.0-alpha1/state/query", "/metadata",
                                 "/secrets/key", "/secrets/bulk"}

HTTPAnswer(r, texts) ==
    IF HTTPAnswersList(r)
    THEN JsonText(Array([i \in DOMAIN texts |-> ParseOrKeep(texts[i])]))
    ELSE IF texts = <<>> THEN EmptyText ELSE texts[1]

-----------------------------------------------------------------------------
(* gRPC.                                                                   *)

GRPCItems(list) ==
    [i \in DOMAIN list |-> LET item == Read(StateItem, list[i]) IN Item(item.key.plain, item.value)]

GRPCOperations(list) ==
    [i \in DOMAIN list |->
        LET o == Read(TransactionalStateOperation, list[i])
            item == Read(StateItem, o.request)
        IN Item(item.key.plain, IF o.operationtype.plain = "delete" THEN EmptyText ELSE item.value)]

GRPCActorOperations(list) ==
    [i \in DOMAIN list |->
        LET o == Read(TransactionalActorStateOperation, list[i])
        IN Item(o.key.plain, IF o.operationtype.plain = "delete" THEN EmptyText
                             ELSE Read(AnyMessage, o.value).value)]

GRPCInvoked(m) ==
    LET message == Read(InvokeRequest, m.message)
        number == Read(HTTPExtension, message.httpExtension).verb
    IN Invoked(CHOOSE verb \in DOMAIN HTTPExtensionVerb : HTTPExtensionVerb[verb] = number,
               Read(AnyMessage, message.data).value)

GRPCMeaning(call) ==
    LET m == Read(DaprService[call.rpc].request, call.bytes)
        rpc == call.rpc
    IN CASE rpc = "saveState" -> WritesItems("state", GRPCItems(m.statesList))
         [] rpc = "getState" -> Reads(<<"state", m.key.plain>>)
         [] rpc = "getBulkState" -> ReadsAll("state", m.keysList)
         [] rpc = "deleteState" -> Writes(<<"state", m.key.plain>>, EmptyText)
         [] rpc = "executeStateTransaction" -> WritesItems("state", GRPCOperations(m.operationsList))
         [] rpc = "queryStateAlpha1" -> ReadsAll("state", m.query.json.object.keys)
         [] rpc = "invokeService" -> GRPCInvoked(m)
         [] rpc = "invokeBinding" -> Hears(Binding, m.data)
         [] rpc = "publishEvent" -> Writes(Topic, m.data)
         [] rpc = "getMetadata" -> [writes |-> <<>>, reads |-> <<Metadata, Actors>>]
         [] rpc = "setMetadata" -> Writes(<<"metadata", m.key.plain>>, m.value)
         [] rpc = "getSecret" -> Reads(<<"secret", m.key.plain>>)
         [] rpc = "getConfigurationAlpha1" -> ReadsAll("configuration", m.keysList)
         [] rpc = "invokeActor" -> Hears(Actor, m.data)
         [] rpc = "executeActorStateTransaction" ->
                WritesItems("actor", GRPCActorOperations(m.operationsList))
         [] rpc = "getActorState" -> Reads(<<"actor", m.key.plain>>)
         [] rpc = "registerActorReminder" -> Writes(<<"reminder", m.name.plain>>, m.data)
         [] rpc = "unregisterActorReminder" -> Writes(<<"reminder", m.name.plain>>, EmptyText)
         [] rpc = "registerActorTimer" -> Writes(<<"timer", m.name.plain>>, m.data)
         [] rpc = "unregisterActorTimer" -> Writes(<<"timer", m.name.plain>>, EmptyText)
         [] OTHER -> Nothing

GRPCAnswerMessage(call, texts) ==
    LET rpc == call.rpc
        each(schema, field) == [i \in DOMAIN texts |-> Wire(schema, Single(field, texts[i]))]
    IN CASE rpc \in {"getState", "getActorState", "invokeActor", "invokeBinding"} ->
                [data |-> texts[1]]
         [] rpc = "getBulkState" -> [itemsList |-> each(BulkStateItem, "data")]
         [] rpc = "queryStateAlpha1" -> [resultsList |-> each(QueryStateItem, "data")]
         [] rpc = "getConfigurationAlpha1" -> [itemsList |-> each(ConfigurationItem, "value")]
         [] rpc = "invokeService" ->
                [data |-> Wire(AnyMessage, IF texts = <<>> THEN <<>> ELSE [value |-> texts[1]])]
         [] rpc = "getSecret" -> [dataMap |-> [s |-> texts[1]]]
         [] rpc = "getMetadata" ->
                [extendedMetadataMap |-> [m |-> texts[1]],
                 activeActorsCountList |->
                     <<Wire(ActiveActorsCount, [count |-> texts[2].json.number])>>]
         [] OTHER -> <<>>

GRPCAnswer(call, texts) ==
    Wire(DaprService[call.rpc].response, GRPCAnswerMessage(call, texts))
=============================================================================
