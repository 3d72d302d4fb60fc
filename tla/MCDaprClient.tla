---------------------------- MODULE MCDaprClient ----------------------------
(* An instance of the client: what its callers ask, and with what values.  *)
EXTENDS DaprClient

word == String(PlainText("word"))
other == String(PlainText("other"))
five == Number(5)
object == Object([p |-> five])
list == Array(<<five, object>>)

Op(name) == [op |-> name]
Named(name, key) == [op |-> name, key |-> key]
About(name, data) == [op |-> name, data |-> data]
Entry(key, value) == [key |-> key, value |-> value]
Upsert(key, value) == [operation |-> "upsert", request |-> Entry(key, value)]
Delete(key) == [operation |-> "delete", request |-> Entry(key, Undefined)]
Invoke(method, data) == [op |-> "invoke", method |-> method, data |-> data]
Scheduled(name, data) == [op |-> name, name |-> "r", data |-> data]

Both == <<"k1", "k2">>

\* What means the same over both protocols.
CommonAsks ==
    {[op |-> "save", items |-> <<Entry("k1", word)>>],
     [op |-> "save", items |-> <<Entry("k1", five), Entry("k2", object)>>],
     Named("get", "k1"), Named("delete", "k1"),
     [op |-> "getBulk", keys |-> Both],
     [op |-> "transaction", operations |-> <<Upsert("k2", word), Delete("k1")>>],
     [op |-> "query", query |-> Object([keys |-> Both])],
     Invoke("get", object), Invoke("post", Undefined), Invoke("put", list),
     Invoke("delete", object),
     About("send", object), About("publish", Undefined),
     Op("metadataGet"), [op |-> "metadataSet", key |-> "m", value |-> word],
     Named("secretGet", "s"), Op("shutdown"), Op("isHealthy"),
     [op |-> "actorTransaction", operations |-> <<Upsert("k1", word), Delete("k2")>>],
     Named("actorGet", "k1"),
     Scheduled("registerReminder", word), [op |-> "unregisterReminder", name |-> "r"],
     Scheduled("registerTimer", word), [op |-> "unregisterTimer", name |-> "r"]}

\* Values that only one protocol passes on as they are, and operations that only
\* one has.
HTTPAsks ==
    {[op |-> "transaction", operations |-> <<Upsert("k1", five), Upsert("k2", object)>>],
     [op |-> "actorTransaction", operations |-> <<Upsert("k1", object)>>],
     About("actorInvoke", object), About("actorInvoke", word),
     Scheduled("registerReminder", object), Scheduled("registerTimer", five),
     [op |-> "reminderGet", name |-> "r"],
     Op("secretGetBulk"), Op("deactivate"), Op("getActors")}

GRPCAsks ==
    {[op |-> "save", items |-> <<Entry("k1", Undefined)>>],
     [op |-> "transaction", operations |-> <<Upsert("k1", five)>>],
     [op |-> "actorTransaction", operations |-> <<Upsert("k1", five)>>],
     About("actorInvoke", Buffer(JsonText(object))), About("actorInvoke", object),
     About("send", Undefined),
     Scheduled("registerReminder", five), Scheduled("registerTimer", five),
     [op |-> "configurationGet", keys |-> <<"k", "">>], Op("getActors")}

SecondAsks == {[op |-> "save", items |-> <<Entry("k1", other)>>], Named("get", "k1"),
               Invoke("post", list)}

MCAsks(p, c) ==
    IF c = "c2" THEN SecondAsks
    ELSE CommonAsks \cup (IF p = "http" THEN HTTPAsks ELSE GRPCAsks)

MCTexts ==
    [cell \in {<<"state", "k1">>, <<"state", "k2">>, <<"actor", "k1">>, <<"actor", "k2">>,
               App, Actor, Binding, Topic, Metadata, <<"reminder", "r">>, <<"timer", "r">>}
        |-> EmptyText]
    @@ Secret :> PlainText("hidden") @@ Actors :> JsonText(Number(1))
    @@ Configuration :> PlainText(ToString(0))
=============================================================================
