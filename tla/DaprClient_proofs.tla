--------------------------- MODULE DaprClient_proofs ---------------------------
(***************************************************************************)
(* Theorems of DaprClient, for any callers, values and subscriptions.      *)
(*                                                                         *)
(* Every operation keeps what the client's interface promises, over HTTP   *)
(* and over gRPC: the client implements ClientPromise.  A subscription's   *)
(* callback hears every change of the configuration in order, and a stop   *)
(* of it ends its own stream and no other's and silences its callback.     *)
(***************************************************************************)
EXTENDS DaprClient, DaprMessages_proofs, FiniteSetTheorems

(***************************************************************************)
(* The id of a subscription travels in two messages.                       *)
(***************************************************************************)

IdOf(request) == Read(UnsubscribeConfigurationRequest, request).id.plain

\* The sidecar reads the id that stop was to send.
LEMMA IdArrives ==
    ASSUME NEW id
    PROVE  IdOf(Wire(UnsubscribeConfigurationRequest,
                     [storeName |-> PlainText("store"), id |-> PlainText(id)])) = id
<1> DEFINE schema == UnsubscribeConfigurationRequest
           message == [storeName |-> PlainText("store"), id |-> PlainText(id)]
<1>1. WellFormed(schema) /\ DOMAIN message \subseteq DOMAIN schema
  BY DEF WellFormed, UnsubscribeConfigurationRequest, Text, Field
<1>2. "id" \in DOMAIN message /\ "id" \in DOMAIN schema
  BY DEF UnsubscribeConfigurationRequest
<1>3. Read(schema, Wire(schema, message))["id"] = message["id"]
  BY <1>1, <1>2, WireKeeps
<1> QED
  BY <1>3 DEF IdOf, PlainText

\* The client reads the id that the sidecar gave the stream.
LEMMA StreamIdArrives ==
    ASSUME NEW s, NEW text
    PROVE  StreamIdOf(ConfigurationUpdate(s, text)) = s
<1> DEFINE schema == SubscribeConfigurationResponse
           items == <<Wire(ConfigurationItem, [key |-> PlainText("k"), value |-> text])>>
           message == [id |-> PlainText(s), itemsList |-> items]
<1> HIDE DEF items
<1>1. WellFormed(schema) /\ DOMAIN message \subseteq DOMAIN schema
  BY DEF WellFormed, SubscribeConfigurationResponse, Text, Repeated, Field
<1>2. "id" \in DOMAIN message /\ "id" \in DOMAIN schema
  BY DEF SubscribeConfigurationResponse
<1>3. Read(schema, Wire(schema, message))["id"] = message["id"]
  BY <1>1, <1>2, WireKeeps
<1>4. ConfigurationUpdate(s, text) = Wire(schema, message)
  BY DEF ConfigurationUpdate, items
<1> QED
  BY <1>3, <1>4 DEF StreamIdOf, PlainText

(***************************************************************************)
(* The items on their way to a subscription carry its id.                  *)
(***************************************************************************)

ItemsOwn(s, items) ==
    \E updates : items \in Seq(updates) /\ \A u \in updates : StreamIdOf(u) = s

LEMMA NoItemsOwn == ASSUME NEW s PROVE ItemsOwn(s, <<>>)
<1> DEFINE none == {}
<1>1. \A u \in none : StreamIdOf(u) = s
  OBVIOUS
<1> HIDE DEF none
<1>2. <<>> \in Seq(none)
  OBVIOUS
<1> QED
  BY <1>1, <1>2 DEF ItemsOwn

LEMMA AppendOwn ==
    ASSUME NEW s, NEW items, ItemsOwn(s, items), NEW text
    PROVE  ItemsOwn(s, Append(items, ConfigurationUpdate(s, text)))
<1> DEFINE u == ConfigurationUpdate(s, text)
<1> HIDE DEF u
<1>1. PICK updates : items \in Seq(updates) /\ \A v \in updates : StreamIdOf(v) = s
  BY DEF ItemsOwn
<1>2. Append(items, u) \in Seq(updates \cup {u})
  BY <1>1
<1>3. StreamIdOf(u) = s
  BY StreamIdArrives DEF u
<1>4. ItemsOwn(s, Append(items, u))
  BY <1>1, <1>2, <1>3 DEF ItemsOwn
<1> QED
  BY <1>4 DEF u

LEMMA TakenOwn ==
    ASSUME NEW s, NEW items, ItemsOwn(s, items), items # <<>>
    PROVE  StreamIdOf(Head(items)) = s /\ ItemsOwn(s, Tail(items))
<1>1. PICK updates : items \in Seq(updates) /\ \A v \in updates : StreamIdOf(v) = s
  BY DEF ItemsOwn
<1>2. Head(items) \in updates /\ Tail(items) \in Seq(updates)
  BY <1>1
<1> QED
  BY <1>1, <1>2 DEF ItemsOwn

(***************************************************************************)
(* The inductive invariant: a subscription only ever knows and sends its   *)
(* own id, and one that was ended stays so.                                *)
(***************************************************************************)

Fields == {"stage", "stream", "since", "items", "listening", "streamId", "heard", "running",
           "request", "ok"}

IsSubscription(sub) == sub = [field \in Fields |-> sub[field]]

Stages == {"none", "refused", "subscribed", "stopping", "unsubscribed", "kept", "stopped",
           "unsettled"}

Own(s, sub) ==
    /\ IsSubscription(sub) /\ sub.stage \in Stages
    /\ sub.stage = "none" => sub.stream = "none"
    /\ sub.streamId \in {"", s}
    /\ ItemsOwn(s, sub.items)
    /\ sub.stage = "stopping" => IdOf(sub.request) \in {"", s}
    /\ sub.stage = "unsubscribed" /\ sub.ok => sub.stream = "ended"
    /\ sub.stage = "stopped" => sub.stream = "ended" /\ ~sub.listening

IInv ==
    /\ subscription = [s \in Subscribers |-> subscription[s]]
    /\ \A s \in Subscribers : Own(s, subscription[s])

\* What a step does to one subscription.
EndedByOwn(s) ==
    subscription[s].stream = "registered" /\ subscription'[s].stream = "ended" =>
        subscription[s].stage = "stopping" \/ ~up'

Silent(s) ==
    subscription[s].stage = "stopped" => subscription'[s].heard = subscription[s].heard

Good(s) == Own(s, subscription'[s]) /\ EndedByOwn(s) /\ Silent(s)

AllGood ==
    /\ subscription' = [s \in Subscribers |-> subscription'[s]]
    /\ \A s \in Subscribers : Good(s)

\* A step that only changes one subscription.
LEMMA ChangesOne ==
    ASSUME IInv, NEW s \in Subscribers, NEW new, Own(s, new),
           subscription' = [subscription EXCEPT ![s] = new],
           new.stream = subscription[s].stream \/ new.stream # "ended",
           subscription[s].stage = "stopped" => new.heard = subscription[s].heard
    PROVE  AllGood
<1>1. subscription'[s] = new /\ \A t \in Subscribers \ {s} : subscription'[t] = subscription[t]
  BY DEF IInv
<1>2. Good(s)
  BY <1>1 DEF Good, EndedByOwn, Silent
<1>3. ASSUME NEW t \in Subscribers \ {s}
      PROVE  Good(t)
  BY <1>1 DEF IInv, Good, EndedByOwn, Silent
<1> QED
  BY <1>1, <1>2, <1>3 DEF IInv, AllGood

LEMMA Unchanged ==
    ASSUME IInv, UNCHANGED subscription
    PROVE  AllGood
BY DEF IInv, AllGood, Good, EndedByOwn, Silent

LEMMA SubscribeGood ==
    ASSUME IInv, NEW s \in Subscribers, Subscribe(s)
    PROVE  AllGood
<1> DEFINE sub == subscription[s]
           new == IF protocol = "http" \/ ~open THEN [sub EXCEPT !.stage = "refused"]
                  ELSE [sub EXCEPT !.stage = "subscribed", !.stream = "asked",
                                   !.listening = TRUE]
<1>1. Own(s, sub) /\ sub.stage = "none"
  BY DEF IInv, Subscribe
<1>2. Own(s, new) /\ new.stream # "ended"
  BY <1>1 DEF Own, IsSubscription, Fields, Stages
<1>3. subscription' = [subscription EXCEPT ![s] = new]
  BY DEF Subscribe
<1> QED
  BY <1>1, <1>2, <1>3, ChangesOne

LEMMA DataArrivesGood ==
    ASSUME IInv, NEW s \in Subscribers, DataArrives(s)
    PROVE  AllGood
<1> DEFINE sub == subscription[s]
           bytes == Head(sub.items)
<1>1. Own(s, sub)
  BY DEF IInv
<1>2. StreamIdOf(bytes) = s /\ ItemsOwn(s, Tail(sub.items))
  BY <1>1, TakenOwn DEF DataArrives, Own
<1>3. sub.stage = "stopped" => ~sub.listening
  BY <1>1 DEF Own
<1>4. CASE sub.listening
  <2> DEFINE taken == [sub EXCEPT !.items = Tail(@), !.streamId = StreamIdOf(bytes),
                                  !.heard = @ \o Wrapped(bytes), !.running = @ + 1]
  <2>1. /\ IsSubscription(taken) /\ taken.items = Tail(sub.items)
        /\ taken.streamId = StreamIdOf(bytes) /\ taken.stage = sub.stage
        /\ taken.stream = sub.stream /\ taken.request = sub.request /\ taken.ok = sub.ok
    BY <1>1 DEF Own, IsSubscription, Fields, Stages
  <2>2. subscription' = [subscription EXCEPT ![s] = taken]
    BY <1>4 DEF DataArrives
  <2> HIDE DEF taken, bytes
  <2>3. Own(s, taken)
    BY <1>1, <1>2, <1>3, <1>4, <2>1 DEF Own
  <2> QED
    BY <1>3, <1>4, <2>1, <2>2, <2>3, ChangesOne
<1>5. CASE ~sub.listening
  <2> DEFINE dropped == [sub EXCEPT !.items = Tail(@)]
  <2>1. /\ IsSubscription(dropped) /\ dropped.items = Tail(sub.items)
        /\ dropped.streamId = sub.streamId /\ dropped.stage = sub.stage
        /\ dropped.stream = sub.stream /\ dropped.request = sub.request
        /\ dropped.ok = sub.ok /\ dropped.listening = sub.listening
        /\ dropped.heard = sub.heard
    BY <1>1 DEF Own, IsSubscription, Fields, Stages
  <2>2. subscription' = [subscription EXCEPT ![s] = dropped]
    BY <1>5 DEF DataArrives
  <2> HIDE DEF dropped
  <2>3. Own(s, dropped)
    BY <1>1, <1>2, <2>1 DEF Own
  <2> QED
    BY <2>1, <2>2, <2>3, ChangesOne
<1> QED
  BY <1>4, <1>5

LEMMA CallbackEndsGood ==
    ASSUME IInv, NEW s \in Subscribers, CallbackEnds(s)
    PROVE  AllGood
<1> DEFINE sub == subscription[s]
           new == [sub EXCEPT !.running = @ - 1]
<1>1. Own(s, sub)
  BY DEF IInv
<1>2. /\ IsSubscription(new) /\ new.stage = sub.stage /\ new.stream = sub.stream
      /\ new.items = sub.items /\ new.streamId = sub.streamId /\ new.heard = sub.heard
      /\ new.request = sub.request /\ new.ok = sub.ok /\ new.listening = sub.listening
  BY <1>1 DEF Own, IsSubscription, Fields
<1>3. subscription' = [subscription EXCEPT ![s] = new]
  BY DEF CallbackEnds, IInv
<1> HIDE DEF new
<1>4. Own(s, new)
  BY <1>1, <1>2 DEF Own
<1> QED
  BY <1>2, <1>3, <1>4, ChangesOne

LEMMA StopSubscriptionGood ==
    ASSUME IInv, NEW s \in Subscribers, StopSubscription(s)
    PROVE  AllGood
<1> DEFINE sub == subscription[s]
           sent == Wire(UnsubscribeConfigurationRequest,
                        [storeName |-> PlainText("store"), id |-> PlainText(sub.streamId)])
           new == IF ~open THEN [sub EXCEPT !.stage = "kept"]
                  ELSE [sub EXCEPT !.stage = "stopping", !.request = sent]
<1>1. Own(s, sub)
  BY DEF IInv
<1>2. IdOf(sent) = sub.streamId
  BY IdArrives
<1>3. subscription' = [subscription EXCEPT ![s] = new]
  BY DEF StopSubscription
<1> HIDE DEF sent
<1>4. Own(s, new) /\ new.stream = sub.stream /\ new.heard = sub.heard
  BY <1>1, <1>2 DEF Own, IsSubscription, Fields, Stages
<1> QED
  BY <1>3, <1>4, ChangesOne

LEMMA StopAnsweredGood ==
    ASSUME IInv, NEW s \in Subscribers, StopAnswered(s)
    PROVE  AllGood
<1> DEFINE sub == subscription[s]
           new == IF ~sub.ok THEN [sub EXCEPT !.stage = "kept"]
                  ELSE [sub EXCEPT !.stage = "stopped", !.listening = FALSE, !.items = <<>>]
<1>1. Own(s, sub) /\ sub.stage = "unsubscribed"
  BY DEF IInv, StopAnswered
<1>2. Own(s, new) /\ new.stream = sub.stream /\ new.heard = sub.heard
  BY <1>1, NoItemsOwn DEF Own, IsSubscription, Fields, Stages
<1>3. subscription' = [subscription EXCEPT ![s] = new]
  BY DEF StopAnswered
<1> QED
  BY <1>2, <1>3, ChangesOne

LEMMA StopFailsGood ==
    ASSUME IInv, NEW s \in Subscribers, StopFails(s)
    PROVE  AllGood
<1> DEFINE sub == subscription[s]
           new == [sub EXCEPT !.stage = "unsettled"]
<1>1. Own(s, sub)
  BY DEF IInv
<1>2. /\ IsSubscription(new) /\ new.stage = "unsettled"
      /\ new.stream = sub.stream /\ new.items = sub.items
      /\ new.streamId = sub.streamId /\ new.heard = sub.heard
  BY <1>1 DEF Own, IsSubscription, Fields, Stages
<1>3. subscription' = [subscription EXCEPT ![s] = new]
  BY DEF StopFails, IInv
<1> HIDE DEF new
<1>4. Own(s, new)
  BY <1>1, <1>2 DEF Own, Stages
<1> QED
  BY <1>2, <1>3, <1>4, ChangesOne

LEMMA SidecarRegistersGood ==
    ASSUME IInv, NEW s \in Subscribers, SidecarRegisters(s)
    PROVE  AllGood
<1> DEFINE sub == subscription[s]
           new == [sub EXCEPT !.stream = "registered", !.since = Version]
<1>1. Own(s, sub) /\ sub.stream = "asked"
  BY DEF IInv, SidecarRegisters
<1>2. /\ IsSubscription(new) /\ new.stream = "registered" /\ new.stage = sub.stage
      /\ new.items = sub.items /\ new.streamId = sub.streamId /\ new.ok = sub.ok
      /\ new.request = sub.request /\ new.heard = sub.heard
  BY <1>1 DEF Own, IsSubscription, Fields, Stages
<1>3. subscription' = [subscription EXCEPT ![s] = new]
  BY DEF SidecarRegisters, IInv
<1>4. sub.stage # "none"
  BY <1>1 DEF Own
<1> HIDE DEF new
<1>5. Own(s, new)
  BY <1>1, <1>2, <1>4 DEF Own
<1> QED
  BY <1>2, <1>3, <1>5, ChangesOne

\* A change of the configuration only adds items.
LEMMA ConfigurationChangesGood ==
    ASSUME IInv, ConfigurationChanges
    PROVE  AllGood
<1>1. PICK text : subscription' = [s \in Subscribers |->
                     IF s \notin Registered THEN subscription[s]
                     ELSE [subscription[s] EXCEPT
                              !.items = Append(@, ConfigurationUpdate(s, text))]]
  BY DEF ConfigurationChanges
<1>2. ASSUME NEW s \in Subscribers
      PROVE  Good(s)
  <2> DEFINE sub == subscription[s]
             more == Append(sub.items, ConfigurationUpdate(s, text))
  <2>1. Own(s, sub)
    BY DEF IInv
  <2>2. ItemsOwn(s, more)
    BY <2>1, AppendOwn DEF Own
  <2>3. subscription'[s] = IF s \notin Registered THEN sub ELSE [sub EXCEPT !.items = more]
    BY <1>1
  <2> HIDE DEF more
  <2>4. Own(s, subscription'[s]) /\ subscription'[s].stream = sub.stream
            /\ subscription'[s].heard = sub.heard
    BY <2>1, <2>2, <2>3 DEF Own, IsSubscription, Fields, Stages
  <2> QED
    BY <2>4 DEF Good, EndedByOwn, Silent
<1> QED
  BY <1>1, <1>2 DEF AllGood

\* The sidecar ends the stream of the id it is sent, which is the asker's own
\* or none.
LEMMA SidecarUnsubscribesGood ==
    ASSUME IInv, NEW s \in Subscribers, SidecarUnsubscribes(s)
    PROVE  AllGood
<1> DEFINE id == IdOf(subscription[s].request)
<1>1. subscription[s].stage = "stopping" /\ id \in {"", s}
  BY DEF SidecarUnsubscribes, IInv, Own
<1>2. id \in Registered => id = s
  BY <1>1, SubscriptionAssumption DEF Registered
<1>3. subscription' = [t \in Subscribers |->
          [subscription[t] EXCEPT
              !.stream = IF t = id /\ t \in Registered THEN "ended" ELSE @,
              !.stage = IF t = s THEN "unsubscribed" ELSE @,
              !.ok = IF t = s THEN id \in Registered ELSE @]]
  BY DEF SidecarUnsubscribes, IdOf
<1> HIDE DEF id
<1>4. ASSUME NEW t \in Subscribers
      PROVE  Good(t)
  <2> DEFINE sub == subscription[t]
             ends == t = id /\ t \in Registered
  <2>1. Own(t, sub)
    BY DEF IInv
  <2>2. subscription'[t] = [sub EXCEPT
            !.stream = IF ends THEN "ended" ELSE @,
            !.stage = IF t = s THEN "unsubscribed" ELSE @,
            !.ok = IF t = s THEN id \in Registered ELSE @]
    BY <1>3
  <2>3. ends => t = s
    BY <1>2
  <2>4. t = s /\ id \in Registered => ends
    BY <1>2
  <2> HIDE DEF ends
  <2>5. Own(t, subscription'[t]) /\ EndedByOwn(t) /\ Silent(t)
    BY <1>1, <2>1, <2>2, <2>3, <2>4 DEF Own, IsSubscription, Fields, Stages, EndedByOwn, Silent
  <2> QED
    BY <2>5 DEF Good
<1> QED
  BY <1>3, <1>4 DEF AllGood

\* The streams end with the sidecar.
LEMMA StreamsEndGood ==
    ASSUME IInv, StreamsEnd
    PROVE  AllGood
<1>1. ASSUME NEW s \in Subscribers
      PROVE  Good(s)
  <2> DEFINE sub == subscription[s]
  <2>1. Own(s, sub)
    BY DEF IInv
  <2>2. subscription'[s] = IF up' \/ sub.stream = "none" THEN sub
                           ELSE [sub EXCEPT !.stream = "ended"]
    BY DEF StreamsEnd
  <2> QED
    BY <2>1, <2>2 DEF Good, Own, IsSubscription, Fields, Stages, EndedByOwn, Silent
<1> QED
  BY <1>1 DEF StreamsEnd, AllGood

LEMMA StepGood == IInv /\ [Next]_vars => AllGood
<1> SUFFICES ASSUME IInv, [Next]_vars PROVE AllGood
  OBVIOUS
<1>1. CASE UNCHANGED vars
  BY <1>1, Unchanged DEF vars
<1> QED
  BY <1>1, StreamsEndGood, ConfigurationChangesGood, SubscribeGood, DataArrivesGood,
     CallbackEndsGood, StopSubscriptionGood, StopAnsweredGood, StopFailsGood, SidecarRegistersGood,
     SidecarUnsubscribesGood
     DEF Next

LEMMA GoodKeeps == AllGood => IInv'
BY DEF AllGood, Good, IInv

LEMMA Initially == Init => IInv
<1>1. ASSUME NEW s
      PROVE  Own(s, NotSubscribed)
  BY NoItemsOwn DEF Own, IsSubscription, Fields, Stages, NotSubscribed
<1> QED
  BY <1>1 DEF Init, IInv

(***************************************************************************)
(* JSON.                                                                   *)
(***************************************************************************)

LEMMA Shapes ==
    /\ DOMAIN Undefined = {"constant"} /\ DOMAIN Null = {"constant"} /\ Undefined # Null
    /\ \A x : /\ DOMAIN Object(x) = {"object"} /\ Object(x).object = x
              /\ DOMAIN Array(x) = {"array"} /\ Array(x).array = x
              /\ DOMAIN String(x) = {"string"} /\ String(x).string = x
              /\ DOMAIN JsonText(x) = {"json"} /\ JsonText(x).json = x
<1>1. Undefined.constant = "undefined" /\ Null.constant = "null"
  BY DEF Undefined, Null
<1> QED
  BY <1>1 DEF Undefined, Null, Object, Array, String, JsonText

\* What is neither an array nor an object is as JSON keeps it, unless it is a
\* Buffer, whose JSON is an object.
LEMMA JsonOf ==
    ASSUME NEW v
    PROVE  /\ ~IsArray(v) /\ DOMAIN v # {"object"} /\ ~IsBuffer(v) => Json(v) = v
           /\ IsBuffer(v) => DOMAIN Json(v) = {"object"}
<1>1. DOMAIN BufferJson(v) = {"object"}
  BY Shapes DEF BufferJson
<1> QED
  BY <1>1 DEF Json, JsonOver, JsonLeaf, IsArray, IsBuffer

\* JSON keeps no Buffer.
LEMMA JsonIsNoBuffer ==
    ASSUME NEW v, IsJson(v)
    PROVE  Json(v) = v /\ v # Undefined /\ ~IsBuffer(v) /\ Stringify(v) = JsonText(v)
BY JsonOf DEF IsJson, IsBuffer, Stringify

LEMMA StringIsJson == ASSUME NEW v, IsString(v) PROVE IsJson(v)
BY JsonOf, Shapes DEF IsJson, IsString, IsArray, IsBuffer

\* The text of what JSON keeps reads as it.
LEMMA JsonRead ==
    ASSUME NEW v, IsJson(v)
    PROVE  IsText(JsonText(v)) /\ ParseOrKeep(JsonText(v)) = v
BY Shapes DEF IsText, ParseOrKeep

(***************************************************************************)
(* What a call promises, and what the sidecar does for it.                 *)
(***************************************************************************)

\* The HTTP client's operators on values are those of the other modules.
LEMMA SameHTTPJson ==
    ASSUME NEW v
    PROVE  HTTP!Json(v) = Json(v) /\ HTTP!Stringify(v) = Stringify(v)
BY DEF HTTP!Json, Json, HTTP!JsonOver, JsonOver, HTTP!JsonLeaf, JsonLeaf, HTTP!BufferJson,
       BufferJson, HTTP!Null, Null, HTTP!Undefined, Undefined, HTTP!IsArray, IsArray,
       HTTP!IsBuffer, IsBuffer, HTTP!Array, Array, HTTP!Object, Object, HTTP!String, String,
       HTTP!PlainText, PlainText, HTTP!Stringify, Stringify, HTTP!JsonText, JsonText

LEMMA SameHTTP ==
    /\ HTTP!EmptyText = EmptyText /\ HTTP!NoBody = EmptyText /\ HTTP!True = True
    /\ HTTP!False = False
    /\ \A v : HTTP!JsonText(v) = JsonText(v) /\ HTTP!ParseOrKeep(v) = ParseOrKeep(v)
    /\ \A v : HTTP!StringifyObject(v) = JsonText(Object(v))
    /\ \A v : HTTP!OrEmpty(v) = OrEmpty(v)
    /\ \A v : HTTP!Object(v) = Object(v) /\ HTTP!Array(v) = Array(v)
    /\ \A v : HTTP!Body(v) = IF Falsy(v) THEN EmptyText ELSE IF IsObject(v)
                  THEN Stringify(v) ELSE ToText(v)
BY SameHTTPJson
   DEF HTTP!EmptyText, EmptyText, HTTP!NoBody, HTTP!True, HTTP!False, True, False,
       HTTP!PlainText, PlainText, HTTP!StringifyObject, HTTP!JsonText, JsonText,
       HTTP!ParseOrKeep, ParseOrKeep, HTTP!OrEmpty, OrEmpty, HTTP!EmptyObject, EmptyObject,
       HTTP!String, String, HTTP!Object, Object, HTTP!Array, Array, HTTP!Body, HTTP!Falsy, Falsy,
       HTTP!IsObject, IsObject, HTTP!ToText, ToText, HTTP!Undefined, Undefined, HTTP!Null, Null,
       HTTP!Number, Number, HTTP!ItemToText, ItemToText, HTTP!IsArray, IsArray, HTTP!IsString,
       IsString, HTTP!IsBuffer, IsBuffer

\* So are those that the promise is stated with.
LEMMA SamePromise ==
    /\ Promise!Absent = String(EmptyText) /\ Promise!True = True
    /\ \A x, v : Promise!Single(x, v) = Single(x, v)
    /\ \A f, g : Promise!Overlay(f, g) = Overlay(f, g)
    /\ \A t : Promise!ParseOrKeep(t) = ParseOrKeep(t)
    /\ \A v : (Promise!IsBuffer(v) <=> IsBuffer(v)) /\ Promise!OrEmpty(v) = OrEmpty(v)
    /\ \A kind, names : Promise!Cells(kind, names) = Cells(kind, names)
BY DEF Promise!Absent, Promise!String, String, Promise!EmptyText, EmptyText, Promise!PlainText,
       PlainText, Promise!True, True, Promise!Single, Single, Promise!Overlay, Overlay,
       Promise!ParseOrKeep, ParseOrKeep, Promise!IsBuffer, IsBuffer, Promise!Cells, Cells,
       Promise!OrEmpty, OrEmpty, Promise!EmptyObject, EmptyObject, Promise!Undefined, Undefined,
       Promise!Object, Object

\* The cells a call sets.
LEMMA Promised ==
    ASSUME NEW ask
    PROVE  /\ ask.op = "save" => Promise!Sets(ask) = Promise!SetsItems("state", ask.items)
           /\ ask.op = "delete"
                  => Promise!Sets(ask) = Single(<<"state", ask.key>>, String(EmptyText))
           /\ ask.op = "transaction"
                  => Promise!Sets(ask) = Promise!SetsOperations("state", ask.operations)
           /\ ask.op = "actorTransaction"
                  => Promise!Sets(ask) = Promise!SetsOperations("actor", ask.operations)
           /\ ask.op = "invoke" =>
                 /\ ask.method = "get" => Promise!Sets(ask) = <<>>
                 /\ ask.method = "delete" => Promise!Sets(ask) = Single(App, String(EmptyText))
                 /\ ask.method \in {"post", "put"}
                        => Promise!Sets(ask) = Single(App, OrEmpty(ask.data))
           /\ ask.op = "actorInvoke" =>
                 Promise!Sets(ask)
                     = Single(Actor, IF IsBuffer(ask.data)
                         THEN ParseOrKeep(ask.data.buffer) ELSE ask.data)
           /\ ask.op = "send" => Promise!Sets(ask) = Single(Binding, ask.data)
           /\ ask.op = "publish" => Promise!Sets(ask) = Single(Topic, OrEmpty(ask.data))
           /\ ask.op = "metadataSet"
                  => Promise!Sets(ask) = Single(<<"metadata", ask.key>>, ask.value)
           /\ ask.op = "registerReminder"
                  => Promise!Sets(ask) = Single(<<"reminder", ask.name>>, ask.data)
           /\ ask.op = "unregisterReminder"
                  => Promise!Sets(ask) = Single(<<"reminder", ask.name>>, String(EmptyText))
           /\ ask.op = "registerTimer"
                  => Promise!Sets(ask) = Single(<<"timer", ask.name>>, ask.data)
           /\ ask.op = "unregisterTimer"
                  => Promise!Sets(ask) = Single(<<"timer", ask.name>>, String(EmptyText))
           /\ ask.op
                  \in {"get", "getBulk", "query", "metadataGet", "secretGet", "secretGetBulk",
                      "shutdown", "isHealthy",
                          "actorGet", "getActors", "reminderGet", "deactivate",
                              "configurationGet"} =>
                 Promise!Sets(ask) = <<>>
BY SamePromise DEF Promise!Sets, App, Actor, Binding, Topic

\* What is done to the cells is what was promised, and leaves them fit.
Effects(ask, writes) ==
    /\ DOMAIN writes = DOMAIN Promise!Sets(ask)
    /\ \A cell \in DOMAIN writes :
          /\ Fits(cell, writes[cell]) /\ cell[1] \notin {"configuration", "actors"}
          /\ ParseOrKeep(writes[cell]) = Promise!Sets(ask)[cell]

\* A call that only reads.
LEMMA NoEffect ==
    ASSUME NEW ask, Promise!Sets(ask) = <<>>
    PROVE  Effects(ask, <<>>)
BY DEF Effects

\* A call that writes one cell.
LEMMA OneEffect ==
    ASSUME NEW ask, NEW kind, NEW name, NEW text,
           Promise!Sets(ask) = Single(<<kind, name>>, ParseOrKeep(text)),
           Fits(<<kind, name>>, text), kind \notin {"configuration", "actors"}
    PROVE  Effects(ask, Single(<<kind, name>>, text))
BY DEF Effects, Single

\* Of items that have keys of their own each is written.
LEMMA ItemsEffect ==
    ASSUME NEW ask, NEW kind, NEW items, NEW written, OwnKeys(items),
           kind \in {"state", "actor"}, Promise!Sets(ask) = Promise!SetsItems(kind, items),
           DOMAIN written = DOMAIN items,
           \A i \in DOMAIN items :
              /\ written[i].key = items[i].key /\ ParseOrKeep(written[i].text) = items[i].value
              /\ IsText(written[i].text) /\ IsJson(items[i].value)
    PROVE  Effects(ask, WritesItems(kind, written).writes)
<1> DEFINE last(k) == CHOOSE i \in DOMAIN written :
                          /\ written[i].key = k
                          /\ \A j \in DOMAIN written : written[j].key = k => j <= i
           first(k) == CHOOSE j \in DOMAIN items : items[j].key = k
           keys == {written[i].key : i \in DOMAIN written}
           writes == [cell \in {<<kind, k>> : k \in keys} |-> written[last(cell[2])].text]
           sets == [cell \in {<<kind, items[i].key>> : i \in DOMAIN items} |->
                        items[first(cell[2])].value]
<1>1. WritesItems(kind, written).writes = writes
  BY DEF WritesItems
<1>2. Promise!Sets(ask) = sets
  BY DEF Promise!SetsItems
<1>3. ASSUME NEW i \in DOMAIN items
      PROVE  last(items[i].key) = i /\ first(items[i].key) = i
  <2>1. i <= i
    BY DEF OwnKeys
  <2>2. \A j \in DOMAIN items : items[j].key = items[i].key => j = i
    BY DEF OwnKeys
  <2>3. \A j \in DOMAIN items : written[j].key = items[i].key => j = i
    BY <2>2
  <2>4. first(items[i].key) = i
    BY <2>2
  <2>5. /\ written[i].key = items[i].key
        /\ \A j \in DOMAIN written : written[j].key = items[i].key => j <= i
    BY <2>1, <2>3
  <2>6. last(items[i].key) = i
    BY <2>3, <2>5
  <2> QED BY <2>4, <2>6
<1> HIDE DEF last, first
<1>4. DOMAIN writes = {<<kind, items[i].key>> : i \in DOMAIN items}
  BY DEF keys
<1>5. ASSUME NEW i \in DOMAIN items
      PROVE  LET cell == <<kind, items[i].key>>
             IN writes[cell] = written[i].text /\ sets[cell] = items[i].value /\ cell[1] = kind
  BY <1>3, <1>4
<1>6. ASSUME NEW cell \in DOMAIN writes
      PROVE  /\ Fits(cell, writes[cell]) /\ cell[1] \notin {"configuration", "actors"}
             /\ ParseOrKeep(writes[cell]) = sets[cell]
  <2>1. PICK i \in DOMAIN items : cell = <<kind, items[i].key>>
    BY <1>4
  <2>2. /\ writes[cell] = written[i].text /\ sets[cell] = items[i].value /\ cell[1] = kind
    BY <1>5, <2>1
  <2> HIDE DEF writes, sets
  <2> QED BY <2>2 DEF Fits, UnparsedKinds
<1>7. DOMAIN sets = DOMAIN writes
  BY <1>4
<1> HIDE DEF writes, sets
<1> QED BY <1>1, <1>2, <1>6, <1>7 DEF Effects

-----------------------------------------------------------------------------
(* HTTP.                                                                   *)

HTTPMeans(ask) == HTTPMeaning(HTTP!Request(ask))

\* The items the sidecar reads in the body of a transaction.
LEMMA HTTPItemsMean ==
    ASSUME NEW ask
    PROVE  /\ ask.op = "save" =>
                 HTTPMeans(ask) = WritesItems("state", [i \in DOMAIN ask.items |->
                     Item(ask.items[i].key, Stringify(ask.items[i].value))])
           /\ ask.op = "transaction" =>
                 HTTPMeans(ask)
                     = WritesItems("state", HTTPOperations(HTTP!JsonOperations(ask.operations)))
           /\ ask.op = "actorTransaction" =>
                 HTTPMeans(ask)
                     = WritesItems("actor", HTTPOperations(HTTP!JsonOperations(ask.operations)))
<1> DEFINE r == HTTP!Request(ask)
           fields(records) == Array([i \in DOMAIN records |-> Object(records[i])])
<1>1. \A records : /\ DOMAIN fields(records).array = DOMAIN records
                   /\ \A i \in DOMAIN records : fields(records).array[i].object = records[i]
  BY DEF Array, Object
<1>2. CASE ask.op = "save"
  <2> DEFINE items == HTTP!JsonItems(ask.items)
  <2>1. r = HTTP!Sent("post", "/state", HTTP!NoName, JsonText(fields(items)))
    BY <1>2, SameHTTP DEF HTTP!Request, HTTP!StateSave, HTTP!StringifyList
  <2>2. HTTPMeans(ask) = WritesItems("state", HTTPItems(r.body))
    BY <2>1 DEF HTTPMeans, HTTPMeaning, HTTP!Sent
  <2>3. r.body.json = fields(items)
    BY <2>1 DEF HTTP!Sent, JsonText
  <2>4. /\ DOMAIN items = DOMAIN ask.items
        /\ \A i \in DOMAIN items : /\ items[i].key = ask.items[i].key
                                   /\ items[i].value = Json(ask.items[i].value)
    BY SameHTTPJson DEF HTTP!JsonItems, HTTP!JsonItem
  <2> HIDE DEF items
  <2>5. HTTPItems(r.body) = [i \in DOMAIN ask.items |->
                                Item(ask.items[i].key, Stringify(ask.items[i].value))]
    <3> DEFINE body == r.body
               list == fields(items).array
    <3>1. /\ DOMAIN list = DOMAIN items
          /\ \A i \in DOMAIN items : list[i].object = items[i]
      BY <1>1
    <3>2. body.json.array = list
      BY <2>3
    <3> HIDE DEF list, body
    <3>3. HTTPItems(body) = [i \in DOMAIN ask.items |->
                                Item(ask.items[i].key, Stringify(ask.items[i].value))]
      BY <2>4, <3>1, <3>2 DEF HTTPItems, Stringify
    <3> QED BY <3>3 DEF body
  <2> QED BY <1>2, <2>2, <2>5
<1>3. CASE ask.op = "transaction"
  <2> DEFINE operations == HTTP!JsonOperations(ask.operations)
  <2> HIDE DEF operations
  <2> QED
    BY <1>3, SameHTTP DEF HTTPMeans, HTTP!Request, HTTP!StateTransaction, HTTP!Sent, HTTPMeaning,
                          Object, JsonText, operations
<1>4. CASE ask.op = "actorTransaction"
  <2> DEFINE sent == HTTP!JsonOperations(ask.operations)
  <2>1. r = HTTP!Sent("post", "/actors/state", HTTP!NoName, JsonText(fields(sent)))
    BY <1>4, SameHTTP DEF HTTP!Request, HTTP!ActorStateTransaction, HTTP!StringifyList
  <2>2. r.body.json = fields(sent)
    BY <2>1 DEF HTTP!Sent, JsonText
  <2>3. HTTPMeans(ask) = WritesItems("actor", HTTPOperations(
                            [i \in DOMAIN r.body.json.array |-> r.body.json.array[i].object]))
    BY <2>1 DEF HTTPMeans, HTTPMeaning, HTTP!Sent
  <2> HIDE DEF sent
  <2> DEFINE operations == [i \in DOMAIN r.body.json.array |-> r.body.json.array[i].object]
  <2>4. /\ DOMAIN operations = DOMAIN sent
        /\ \A i \in DOMAIN operations : operations[i] = sent[i]
    <3>1. /\ DOMAIN r.body.json.array = DOMAIN sent
          /\ \A i \in DOMAIN sent : r.body.json.array[i].object = sent[i]
      <4>1. /\ DOMAIN fields(sent).array = DOMAIN sent
            /\ \A i \in DOMAIN sent : fields(sent).array[i].object = sent[i]
        BY <1>1
      <4> HIDE DEF fields, r
      <4> QED BY <2>2, <4>1
    <3> HIDE DEF r
    <3> QED BY <3>1
  <2> HIDE DEF operations
  <2>5. HTTPOperations(operations) = HTTPOperations(sent)
    BY <2>4 DEF HTTPOperations
  <2> QED BY <1>4, <2>3, <2>5 DEF operations, sent
<1> QED BY <1>2, <1>3, <1>4

\* The cells a call is told, and what its promise is to resolve with.
LEMMA Got ==
    ASSUME NEW ask
    PROVE  /\ ask.op \in {"get"} => Promise!Gets(ask) = <<<<"state", ask.key>>>>
           /\ ask.op = "getBulk" => Promise!Gets(ask) = Cells("state", ask.keys)
           /\ ask.op = "query" => Promise!Gets(ask) = Cells("state", ask.query.object.keys)
           /\ ask.op = "invoke" /\ ask.method # "delete" => Promise!Gets(ask) = <<App>>
           /\ ask.op = "send" => Promise!Gets(ask) = <<Binding>>
           /\ ask.op = "metadataGet" => Promise!Gets(ask) = <<Metadata>>
           /\ ask.op = "secretGet" => Promise!Gets(ask) = <<<<"secret", ask.key>>>>
           /\ ask.op = "secretGetBulk" => Promise!Gets(ask) = <<Secret>>
           /\ ask.op = "configurationGet" =>
                 Promise!Gets(ask)
                     = Cells("configuration", SelectSeq(ask.keys, LAMBDA k : k # ""))
           /\ ask.op = "actorInvoke" => Promise!Gets(ask) = <<Actor>>
           /\ ask.op = "actorGet" => Promise!Gets(ask) = <<<<"actor", ask.key>>>>
           /\ ask.op = "reminderGet" => Promise!Gets(ask) = <<<<"reminder", ask.name>>>>
           /\ ask.op = "getActors" => Promise!Gets(ask) = <<Actors>>
           /\ ask.op \in {"save", "delete", "transaction", "publish", "metadataSet", "shutdown",
                          "isHealthy", "actorTransaction", "registerReminder",
                          "unregisterReminder", "registerTimer", "unregisterTimer",
                          "deactivate"} =>
                 Promise!Gets(ask) = <<>>
<1>1. \A kind, name : Cells(kind, <<name>>) = <<<<kind, name>>>>
  BY DEF Cells
<1> QED BY <1>1, SamePromise DEF Promise!Gets, App, Actor, Binding, Metadata, Secret, Actors

\* What a promise resolves with.
LEMMA Outcomes ==
    ASSUME NEW ask, NEW after
    PROVE  /\ ask.op \in {"publish", "metadataSet", "isHealthy"} =>
                 Promise!Outcome(ask, after) = <<True>>
           /\ ask.op = "invoke" /\ ask.method = "delete" =>
                 Promise!Outcome(ask, after) = <<String(EmptyText)>>
           /\ ask.op \notin {"publish", "metadataSet", "isHealthy"}
              /\ ~(ask.op = "invoke" /\ ask.method = "delete") =>
                 Promise!Outcome(ask, after) =
                     [i \in DOMAIN Promise!Gets(ask) |-> after[Promise!Gets(ask)[i]]]
BY SamePromise DEF Promise!Outcome

-----------------------------------------------------------------------------
\* What the cells hold while the client is in use.
CellsFit(after) ==
    /\ DOMAIN Texts \subseteq DOMAIN after
    /\ \A cell \in DOMAIN after : Fits(cell, after[cell])
    /\ after[Actors] = Texts[Actors]

Values(after) == [cell \in DOMAIN after |-> ParseOrKeep(after[cell])]

Told(meaning, after) == [i \in DOMAIN meaning.reads |-> after[meaning.reads[i]]]

\* The values of the cells that a call gets are what its promise is to resolve with.
LEMMA MeantValues ==
    ASSUME NEW ask, NEW after, CellsFit(after), NEW values,
           \A i \in DOMAIN Promise!Gets(ask) : Promise!Gets(ask)[i] \in DOMAIN Texts,
           DOMAIN values = DOMAIN Promise!Gets(ask),
           \A i \in DOMAIN values : Meant(values[i]) = ParseOrKeep(after[Promise!Gets(ask)[i]])
    PROVE  MeantAll(values) =
               [i \in DOMAIN Promise!Gets(ask) |-> Values(after)[Promise!Gets(ask)[i]]]
BY DEF MeantAll, Values, CellsFit

\* A value that is read from a text stands for itself.
LEMMA MeantIsRead ==
    ASSUME NEW after, CellsFit(after), NEW cell \in DOMAIN Texts
    PROVE  Meant(ParseOrKeep(after[cell])) = ParseOrKeep(after[cell])
BY JsonIsNoBuffer DEF Meant, CellsFit, Fits

-----------------------------------------------------------------------------
HTTPTells(ask, after) ==
    MeantAll(HTTP!Result(ask, HTTPAnswer(HTTP!Request(ask), Told(HTTPMeans(ask), after))))
        = Promise!Outcome(ask, Values(after))

\* The calls that resolve with the one value they are answered with.
ResolvesWithAnswer(ask) ==
    \/ ask.op \in {"get", "send", "actorInvoke", "actorGet", "reminderGet"}
    \/ ask.op = "invoke" /\ ask.method # "delete"

\* An answer that is the text of one cell.
LEMMA HTTPTellsOne ==
    ASSUME NEW ask, NEW cell \in DOMAIN Texts, NEW after, CellsFit(after),
           HTTPMeans(ask).reads = <<cell>>, Promise!Gets(ask) = <<cell>>,
           ~HTTPAnswersList(HTTP!Request(ask)), ResolvesWithAnswer(ask)
    PROVE  HTTPTells(ask, after)
<1> DEFINE answer == HTTPAnswer(HTTP!Request(ask), Told(HTTPMeans(ask), after))
<1>1. Told(HTTPMeans(ask), after) = <<after[cell]>>
  BY DEF Told
<1>2. answer = after[cell]
  BY <1>1 DEF HTTPAnswer
<1>3. HTTP!Result(ask, answer) = <<ParseOrKeep(after[cell])>>
  BY <1>2, SameHTTP DEF HTTP!Result, ResolvesWithAnswer
<1> HIDE DEF answer
<1>4. Meant(ParseOrKeep(after[cell])) = ParseOrKeep(after[cell])
  BY MeantIsRead
<1> DEFINE values == <<ParseOrKeep(after[cell])>>
<1>5. /\ DOMAIN values = {1} /\ values[1] = ParseOrKeep(after[cell])
      /\ DOMAIN Promise!Gets(ask) = {1} /\ Promise!Gets(ask)[1] = cell
  OBVIOUS
<1> HIDE DEF values
<1>6. MeantAll(values) = [i \in DOMAIN Promise!Gets(ask) |-> Values(after)[Promise!Gets(ask)[i]]]
  BY <1>4, <1>5, MeantValues
<1>7. Promise!Outcome(ask, Values(after))
          = [i \in DOMAIN Promise!Gets(ask) |-> Values(after)[Promise!Gets(ask)[i]]]
  BY Outcomes DEF ResolvesWithAnswer
<1> QED BY <1>3, <1>6, <1>7 DEF HTTPTells, answer, values

\* An answer that lists what cells hold.
LEMMA HTTPTellsAll ==
    ASSUME NEW ask, NEW after, CellsFit(after),
           HTTPMeans(ask).reads = Promise!Gets(ask), HTTPAnswersList(HTTP!Request(ask)),
           \A i \in DOMAIN Promise!Gets(ask) : Promise!Gets(ask)[i] \in DOMAIN Texts,
           ask.op \in {"getBulk", "query", "metadataGet", "secretGet", "secretGetBulk"}
    PROVE  HTTPTells(ask, after)
<1> DEFINE texts == Told(HTTPMeans(ask), after)
           values == [i \in DOMAIN texts |-> ParseOrKeep(texts[i])]
<1>1. /\ DOMAIN texts = DOMAIN Promise!Gets(ask)
      /\ \A i \in DOMAIN texts : texts[i] = after[Promise!Gets(ask)[i]]
  BY DEF Told
<1> HIDE DEF texts
<1>2. HTTPAnswer(HTTP!Request(ask), texts) = JsonText(Array(values))
  BY DEF HTTPAnswer
<1>3. /\ DOMAIN values = DOMAIN Promise!Gets(ask)
      /\ \A i \in DOMAIN values : values[i] = ParseOrKeep(after[Promise!Gets(ask)[i]])
  BY <1>1
<1> HIDE DEF values
<1>4. HTTP!Result(ask, JsonText(Array(values))) = values
  <2>1. ParseOrKeep(JsonText(Array(values))).array = values
    BY DEF ParseOrKeep, JsonText, Array
  <2> QED BY <2>1, SameHTTP DEF HTTP!Result
<1>5. \A i \in DOMAIN values : Meant(values[i]) = ParseOrKeep(after[Promise!Gets(ask)[i]])
  BY <1>3, MeantIsRead
<1>6. MeantAll(values) = [i \in DOMAIN Promise!Gets(ask) |-> Values(after)[Promise!Gets(ask)[i]]]
  BY <1>3, <1>5, MeantValues
<1>7. Promise!Outcome(ask, Values(after))
          = [i \in DOMAIN Promise!Gets(ask) |-> Values(after)[Promise!Gets(ask)[i]]]
  BY Outcomes
<1> QED BY <1>2, <1>4, <1>6, <1>7 DEF HTTPTells, texts

\* Operations whose results do not depend on the answer.
LEMMA HTTPTellsNothing ==
    ASSUME NEW ask, NEW after,
           ask.op \in {"save", "delete", "transaction", "publish", "metadataSet", "shutdown",
                       "isHealthy", "actorTransaction", "registerReminder", "unregisterReminder",
                       "registerTimer", "unregisterTimer", "deactivate"}
    PROVE  HTTPTells(ask, after)
<1>1. MeantAll(<<>>) = <<>> /\ MeantAll(<<True>>) = <<True>>
  BY DEF MeantAll, Meant, IsBuffer, True
<1>2. CASE ask.op \in {"publish", "metadataSet", "isHealthy"}
  BY <1>1, <1>2, SameHTTP, Outcomes DEF HTTP!Result, HTTPTells
<1>3. CASE ask.op \notin {"publish", "metadataSet", "isHealthy"}
  <2>1. Promise!Gets(ask) = <<>>
    BY <1>3, Got
  <2>2. Promise!Outcome(ask, Values(after)) = <<>>
    BY <1>3, <2>1, Outcomes
  <2>3. \A text : HTTP!Result(ask, text) = <<>>
    BY <1>3 DEF HTTP!Result
  <2> QED BY <1>1, <2>2, <2>3 DEF HTTPTells
<1> QED BY <1>2, <1>3

\* Texts that fit and what they read as.
LEMMA FittingTexts ==
    ASSUME NEW kind, NEW name
    PROVE  /\ Fits(<<kind, name>>, EmptyText) /\ ParseOrKeep(EmptyText) = String(EmptyText)
           /\ \A v : /\ ParseOrKeep(JsonText(v)) = v
                     /\ IsJson(v) /\ kind \notin UnparsedKinds
                            => Fits(<<kind, name>>, JsonText(v))
           /\ \A v : IsPlainString(v)
                         => Fits(<<kind, name>>, v.string) /\ ParseOrKeep(v.string) = v
<1>1. DOMAIN EmptyText = {"plain"} /\ ParseOrKeep(EmptyText) = String(EmptyText)
  BY DEF EmptyText, PlainText, ParseOrKeep
<1>2. IsJson(String(EmptyText))
  BY StringIsJson, Shapes DEF IsString
<1>3. ASSUME NEW v
      PROVE  DOMAIN JsonText(v) = {"json"} /\ ParseOrKeep(JsonText(v)) = v
  BY DEF ParseOrKeep, JsonText
<1>4. ASSUME NEW v, IsPlainString(v)
      PROVE  Fits(<<kind, name>>, v.string) /\ ParseOrKeep(v.string) = v
  <2>1. DOMAIN v.string = {"plain"} /\ v = String(v.string) /\ DOMAIN v = {"string"}
    BY <1>4 DEF IsPlainString, IsPlain, IsString
  <2>2. ParseOrKeep(v.string) = v
    BY <2>1 DEF ParseOrKeep
  <2> QED BY <2>1, <2>2, StringIsJson DEF Fits, IsText, IsPlain, IsString
<1> QED BY <1>1, <1>2, <1>3, <1>4 DEF Fits, IsText, IsPlain

\* A primitive value prints as a text that reads as the value.
LEMMA PrimitiveReads ==
    ASSUME NEW v, IsPrimitive(v)
    PROVE  /\ IsText(ToText(v)) /\ ParseOrKeep(ToText(v)) = v
           /\ IsJson(v) /\ ~IsObject(v) /\ ~IsArray(v)
<1>1. CASE IsPlainString(v)
  <2>1. DOMAIN v = {"string"} /\ v = String(v.string) /\ DOMAIN v.string = {"plain"}
    BY <1>1 DEF IsPlainString, IsString, IsPlain
  <2>2. /\ ~IsBuffer(v) /\ ~IsArray(v) /\ ~IsObject(v) /\ IsString(v)
        /\ DOMAIN v # {"object"} /\ v \notin {Null, Undefined}
    BY <2>1 DEF IsString, IsBuffer, IsArray, IsObject, Null, Undefined
  <2>3. ToText(v) = v.string
    BY <2>2 DEF ToText, ItemToText
  <2> QED BY <2>1, <2>2, <2>3, StringIsJson DEF IsText, IsPlain, ParseOrKeep
<1>2. CASE ~IsPlainString(v)
  <2>1. DOMAIN v = {"number"} \/ v = True \/ v = False
    BY <1>2 DEF IsPrimitive
  <2>2. DOMAIN v \in {{"number"}, {"constant"}} /\ v # Null /\ v # Undefined
    BY <2>1 DEF True, False, Null, Undefined
  <2>3. ~IsString(v) /\ ~IsBuffer(v) /\ ~IsArray(v) /\ ~IsObject(v) /\ DOMAIN v # {"object"}
    BY <2>2 DEF IsString, IsBuffer, IsArray, IsObject
  <2>4. ToText(v) = JsonText(v)
    BY <2>2, <2>3 DEF ToText, ItemToText
  <2>5. IsJson(v)
    BY <2>2, <2>3, JsonOf DEF IsJson
  <2> QED BY <2>3, <2>4, <2>5 DEF IsText, ParseOrKeep, JsonText
<1> QED BY <1>1, <1>2

\* What the body of an actor's method reads as.
LEMMA BodyReads ==
    ASSUME NEW v, PassedOverHTTP("actorInvoke", v)
    PROVE  /\ Fits(Actor, HTTP!Body(v)) /\ ParseOrKeep(HTTP!Body(v)) = v
           /\ ~IsBuffer(v)
<1> DEFINE body == HTTP!Body(v)
<1>1. body = IF Falsy(v) THEN EmptyText ELSE IF IsObject(v) THEN Stringify(v) ELSE ToText(v)
  BY SameHTTP
<1>2. (IsObject(v) /\ v # Null /\ IsJson(v)) \/ IsEmptyOrPrimitive(v)
  BY DEF PassedOverHTTP
<1>3. CASE IsObject(v) /\ v # Null /\ IsJson(v)
  <2>1. ~Falsy(v)
    BY <1>3, Shapes DEF Falsy, IsObject, False, Number
  <2>2. body = JsonText(v) /\ ~IsBuffer(v)
    BY <1>1, <1>3, <2>1, JsonIsNoBuffer
  <2> QED BY <1>3, <2>2, FittingTexts DEF Actor, UnparsedKinds
<1>4. CASE IsEmptyOrPrimitive(v)
  <2>1. /\ IsText(ToText(v)) /\ ParseOrKeep(ToText(v)) = v /\ IsJson(v) /\ ~IsObject(v)
        /\ ~IsBuffer(v)
    BY <1>4, PrimitiveReads, JsonIsNoBuffer DEF IsEmptyOrPrimitive
  <2>2. CASE Falsy(v)
    BY <1>1, <1>4, <2>1, <2>2, FittingTexts DEF IsEmptyOrPrimitive, Actor
  <2>3. CASE ~Falsy(v)
    BY <1>1, <2>1, <2>3 DEF Fits, Actor, UnparsedKinds
  <2> QED BY <2>2, <2>3
<1> QED BY <1>2, <1>3, <1>4

HTTPKeeps(ask) ==
    /\ Effects(ask, HTTPMeans(ask).writes)
    /\ \A after : CellsFit(after) => HTTPTells(ask, after)

\* Of operations on keys of their own each is done.
LEMMA OperationsEffect ==
    ASSUME NEW ask, NEW kind, NEW operations, NEW written,
           OwnKeys([i \in DOMAIN operations |-> operations[i].request]),
           kind \in {"state", "actor"},
           Promise!Sets(ask) = Promise!SetsOperations(kind, operations),
           DOMAIN written = DOMAIN operations,
           \A i \in DOMAIN operations :
              /\ written[i].key = operations[i].request.key
              /\ IsText(written[i].text)
              /\ ParseOrKeep(written[i].text) = IF operations[i].operation = "delete"
                    THEN String(EmptyText) ELSE operations[i].request.value,
           \A i \in DOMAIN operations :
              operations[i].operation # "delete" => IsJson(operations[i].request.value)
    PROVE  Effects(ask, WritesItems(kind, written).writes)
<1> DEFINE value(i) == IF operations[i].operation = "delete" THEN String(EmptyText)
                       ELSE operations[i].request.value
           items == [i \in DOMAIN operations |->
                        [key |-> operations[i].request.key, value |-> value(i)]]
<1>1. Promise!Sets(ask) = Promise!SetsItems(kind, items)
  BY SamePromise DEF Promise!SetsOperations
<1>2. /\ DOMAIN items = DOMAIN operations
      /\ \A i \in DOMAIN operations : items[i].key = operations[i].request.key
                                        /\ items[i].value = value(i)
  OBVIOUS
<1>3. IsJson(String(EmptyText))
  BY StringIsJson, Shapes DEF IsString
<1> HIDE DEF items
<1>4. OwnKeys(items)
  BY <1>2 DEF OwnKeys
<1>5. \A i \in DOMAIN items :
         /\ written[i].key = items[i].key /\ ParseOrKeep(written[i].text) = items[i].value
         /\ IsText(written[i].text) /\ IsJson(items[i].value)
  BY <1>2, <1>3
<1> QED BY <1>1, <1>2, <1>4, <1>5, ItemsEffect

\* A call over HTTP that the sidecar serves does what it promises, and its result
\* is what it promises.
LEMMA HTTPServes ==
    ASSUME NEW ask, WellAsked("http", ask), HTTPMeans(ask) # NotFound
    PROVE  HTTPKeeps(ask)
<1> DEFINE r == HTTP!Request(ask)
           gets == Promise!Gets(ask)
<1>1. \A i \in DOMAIN gets : gets[i] \in DOMAIN Texts
  BY DEF WellAsked
<1>2. CASE ask.op = "get"
  <2>1. r = HTTP!Sent("get", "/state/key", ask.key, EmptyText)
    BY <1>2, SameHTTP DEF HTTP!Request, HTTP!StateGet
  <2>2. HTTPMeans(ask) = Reads(<<"state", ask.key>>)
    BY <2>1 DEF HTTPMeans, HTTPMeaning, HTTP!Sent
  <2>3. Effects(ask, <<>>)
    BY <1>2, Promised, NoEffect
  <2>4. gets = <<<<"state", ask.key>>>>
    BY <1>2, Got
  <2>5. ~HTTPAnswersList(r)
    BY <2>1 DEF HTTPAnswersList, HTTP!Sent
  <2>6. <<"state", ask.key>> \in DOMAIN Texts
    BY <1>1, <2>4
  <2>7. ASSUME NEW after, CellsFit(after)
        PROVE  HTTPTells(ask, after)
    <3>1. HTTPMeans(ask).reads = <<<<"state", ask.key>>>>
      BY <2>2 DEF Reads
    <3>2. ResolvesWithAnswer(ask)
      BY <1>2 DEF ResolvesWithAnswer
    <3> QED BY <2>4, <2>5, <2>6, <2>7, <3>1, <3>2, HTTPTellsOne
  <2> QED BY <2>2, <2>3, <2>7 DEF HTTPKeeps, Reads
<1>3. CASE ask.op = "getBulk"
  <2>1. r
            = HTTP!Sent("post", "/state/bulk", HTTP!NoName,
                JsonText(Object([keys |-> ask.keys, parallelism |-> 10])))
    BY <1>3, SameHTTP DEF HTTP!Request, HTTP!StateGetBulk
  <2>2. HTTPMeans(ask) = ReadsAll("state", ask.keys)
    BY <2>1 DEF HTTPMeans, HTTPMeaning, HTTP!Sent, JsonText, Object
  <2>3. Effects(ask, <<>>)
    BY <1>3, Promised, NoEffect
  <2>4. gets = Cells("state", ask.keys)
    BY <1>3, Got
  <2>5. HTTPAnswersList(r)
    BY <2>1 DEF HTTPAnswersList, HTTP!Sent
  <2>6. \A after : CellsFit(after) => HTTPTells(ask, after)
    BY <1>3, <1>1, <2>2, <2>4, <2>5, HTTPTellsAll DEF ReadsAll
  <2> QED BY <2>2, <2>3, <2>6 DEF HTTPKeeps, ReadsAll
<1>4. CASE ask.op = "query"
  <2>1. r = HTTP!Sent("post", "v1.0-alpha1/state/query", HTTP!NoName, JsonText(Object(ask.query.object)))
    BY <1>4, SameHTTP DEF HTTP!Request, HTTP!StateQuery
  <2>2. HTTPMeans(ask) = ReadsAll("state", ask.query.object.keys)
    BY <2>1 DEF HTTPMeans, HTTPMeaning, HTTP!Sent, JsonText, Object
  <2>3. Effects(ask, <<>>)
    BY <1>4, Promised, NoEffect
  <2>4. gets = Cells("state", ask.query.object.keys)
    BY <1>4, Got
  <2>5. HTTPAnswersList(r)
    BY <2>1 DEF HTTPAnswersList, HTTP!Sent
  <2>6. \A after : CellsFit(after) => HTTPTells(ask, after)
    BY <1>4, <1>1, <2>2, <2>4, <2>5, HTTPTellsAll DEF ReadsAll
  <2> QED BY <2>2, <2>3, <2>6 DEF HTTPKeeps, ReadsAll
<1>5. CASE ask.op = "delete"
  <2>1. r = HTTP!Sent("delete", "/state/key", ask.key, EmptyText)
    BY <1>5, SameHTTP DEF HTTP!Request, HTTP!StateDelete
  <2>2. HTTPMeans(ask) = Writes(<<"state", ask.key>>, EmptyText)
    BY <2>1 DEF HTTPMeans, HTTPMeaning, HTTP!Sent
  <2>3. Fits(<<"state", ask.key>>, EmptyText)
    BY FittingTexts DEF UnparsedKinds
  <2>4. Promise!Sets(ask) = Single(<<"state", ask.key>>, ParseOrKeep(EmptyText))
    BY <1>5, Promised, FittingTexts
  <2>5. Effects(ask, Single(<<"state", ask.key>>, EmptyText))
    BY <2>3, <2>4, OneEffect
  <2> QED BY <1>5, <2>2, <2>5, HTTPTellsNothing DEF HTTPKeeps, Writes
<1>6. CASE ask.op = "save"
  <2> DEFINE written == [i
                            \in DOMAIN ask.items |-> Item(ask.items[i].key,
                                Stringify(ask.items[i].value))]
  <2>1. HTTPMeans(ask) = WritesItems("state", written)
    BY <1>6, HTTPItemsMean
  <2>2. OwnKeys(ask.items) /\ \A i \in DOMAIN ask.items : IsJson(ask.items[i].value)
    BY <1>6 DEF WellAsked, Passed, PassedOverHTTP
  <2>3. Promise!Sets(ask) = Promise!SetsItems("state", ask.items)
    BY <1>6, Promised
  <2>4. \A v : IsJson(v) => ParseOrKeep(Stringify(v)) = v /\ IsText(Stringify(v))
    BY JsonIsNoBuffer, JsonRead
  <2>5. \A i \in DOMAIN ask.items :
           /\ written[i].key = ask.items[i].key
           /\ ParseOrKeep(written[i].text) = ask.items[i].value
           /\ IsText(written[i].text)
    BY <2>2, <2>4 DEF Item
  <2>6. DOMAIN written = DOMAIN ask.items
    OBVIOUS
  <2> HIDE DEF written
  <2>7. Effects(ask, WritesItems("state", written).writes)
    BY <2>2, <2>3, <2>5, <2>6, ItemsEffect
  <2> QED BY <1>6, <2>1, <2>7, HTTPTellsNothing DEF HTTPKeeps
<1>7. CASE ask.op = "transaction"
  <2> DEFINE written == HTTPOperations(HTTP!JsonOperations(ask.operations))
  <2>1. HTTPMeans(ask) = WritesItems("state", written)
    BY <1>7, HTTPItemsMean
  <2>2. /\ OwnKeys([i \in DOMAIN ask.operations |-> ask.operations[i].request])
        /\ \A i \in DOMAIN ask.operations :
              ask.operations[i].operation # "delete" => IsJson(ask.operations[i].request.value)
    BY <1>7 DEF WellAsked, Passed, PassedOverHTTP
  <2>3. /\ DOMAIN written = DOMAIN ask.operations
        /\ \A i \in DOMAIN ask.operations :
              /\ written[i].key = ask.operations[i].request.key
              /\ written[i].text = IF ask.operations[i].operation = "delete" THEN EmptyText
                                   ELSE Stringify(ask.operations[i].request.value)
    BY SameHTTPJson DEF HTTPOperations, Item, HTTP!JsonOperations, HTTP!JsonItem, Stringify
  <2>4. \A v : IsJson(v) => ParseOrKeep(Stringify(v)) = v /\ IsText(Stringify(v))
    BY JsonIsNoBuffer, JsonRead
  <2>5. IsText(EmptyText) /\ ParseOrKeep(EmptyText) = String(EmptyText)
    BY FittingTexts DEF EmptyText, PlainText, IsText, IsPlain
  <2> HIDE DEF written
  <2>6. \A i \in DOMAIN ask.operations :
           /\ written[i].key = ask.operations[i].request.key
           /\ IsText(written[i].text)
           /\ ParseOrKeep(written[i].text) = IF ask.operations[i].operation = "delete"
                 THEN String(EmptyText) ELSE ask.operations[i].request.value
    BY <2>2, <2>3, <2>4, <2>5
  <2>7. Promise!Sets(ask) = Promise!SetsOperations("state", ask.operations)
    BY <1>7, Promised
  <2>8. Effects(ask, WritesItems("state", written).writes)
    BY <2>2, <2>3, <2>6, <2>7, OperationsEffect
  <2> QED BY <1>7, <2>1, <2>8, HTTPTellsNothing DEF HTTPKeeps
<1>8. CASE ask.op = "actorTransaction"
  <2> DEFINE written == HTTPOperations(HTTP!JsonOperations(ask.operations))
  <2>1. HTTPMeans(ask) = WritesItems("actor", written)
    BY <1>8, HTTPItemsMean
  <2>2. /\ OwnKeys([i \in DOMAIN ask.operations |-> ask.operations[i].request])
        /\ \A i \in DOMAIN ask.operations :
              ask.operations[i].operation # "delete" => IsJson(ask.operations[i].request.value)
    BY <1>8 DEF WellAsked, Passed, PassedOverHTTP
  <2>3. /\ DOMAIN written = DOMAIN ask.operations
        /\ \A i \in DOMAIN ask.operations :
              /\ written[i].key = ask.operations[i].request.key
              /\ written[i].text = IF ask.operations[i].operation = "delete" THEN EmptyText
                                   ELSE Stringify(ask.operations[i].request.value)
    BY SameHTTPJson DEF HTTPOperations, Item, HTTP!JsonOperations, HTTP!JsonItem, Stringify
  <2>4. \A v : IsJson(v) => ParseOrKeep(Stringify(v)) = v /\ IsText(Stringify(v))
    BY JsonIsNoBuffer, JsonRead
  <2>5. IsText(EmptyText) /\ ParseOrKeep(EmptyText) = String(EmptyText)
    BY FittingTexts DEF EmptyText, PlainText, IsText, IsPlain
  <2> HIDE DEF written
  <2>6. \A i \in DOMAIN ask.operations :
           /\ written[i].key = ask.operations[i].request.key
           /\ IsText(written[i].text)
           /\ ParseOrKeep(written[i].text) = IF ask.operations[i].operation = "delete"
                 THEN String(EmptyText) ELSE ask.operations[i].request.value
    BY <2>2, <2>3, <2>4, <2>5
  <2>7. Promise!Sets(ask) = Promise!SetsOperations("actor", ask.operations)
    BY <1>8, Promised
  <2>8. Effects(ask, WritesItems("actor", written).writes)
    BY <2>2, <2>3, <2>6, <2>7, OperationsEffect
  <2> QED BY <1>8, <2>1, <2>8, HTTPTellsNothing DEF HTTPKeeps
<1>9. CASE ask.op = "invoke"
  <2> DEFINE data == OrEmpty(ask.data)
             body == IF ask.method = "get" THEN EmptyText ELSE JsonText(data)
  <2>0. ask.method \in {"get", "post", "put", "delete"} /\ IsJson(data)
    BY <1>9 DEF WellAsked, Passed, PassedOverHTTP
  <2>1. r = HTTP!Sent(ask.method, "/invoke/method", HTTP!NoName, body)
    BY <1>9, <2>0, SameHTTP, SameHTTPJson, JsonIsNoBuffer DEF HTTP!Request, HTTP!InvokerInvoke
  <2>2. HTTPMeans(ask) = Invoked(ask.method, body)
    BY <2>1 DEF HTTPMeans, HTTPMeaning, HTTP!Sent
  <2>4. ~HTTPAnswersList(r)
    BY <2>1 DEF HTTPAnswersList, HTTP!Sent
  <2>5. CASE ask.method = "get"
    <3>1. HTTPMeans(ask) = Reads(App)
      BY <2>2, <2>5 DEF Invoked
    <3>2. Effects(ask, <<>>)
      BY <1>9, <2>5, Promised, NoEffect
    <3>3. gets = <<App>>
      BY <1>9, <2>5, Got
    <3>4. App \in DOMAIN Texts
      BY <1>1, <3>3
    <3>5. \A after : CellsFit(after) => HTTPTells(ask, after)
      BY <1>9, <2>4, <2>5, <3>1, <3>3, <3>4, HTTPTellsOne DEF Reads, ResolvesWithAnswer
    <3> QED BY <3>1, <3>2, <3>5 DEF HTTPKeeps, Reads
  <2>6. CASE ask.method \in {"post", "put"}
    <3>1. HTTPMeans(ask) = Hears(App, JsonText(data))
      BY <2>2, <2>6 DEF Invoked
    <3>2. Fits(App, JsonText(data)) /\ ParseOrKeep(JsonText(data)) = data
      BY <2>0, FittingTexts DEF App, UnparsedKinds
    <3>3. Promise!Sets(ask) = Single(App, ParseOrKeep(JsonText(data)))
      BY <1>9, <2>6, <3>2, Promised
    <3>4. Effects(ask, Single(App, JsonText(data)))
      BY <3>2, <3>3, OneEffect DEF App
    <3>5. gets = <<App>>
      BY <1>9, <2>6, Got
    <3>6. App \in DOMAIN Texts
      BY <1>1, <3>5
    <3>7. \A after : CellsFit(after) => HTTPTells(ask, after)
      BY <1>9, <2>4, <2>6, <3>1, <3>5, <3>6, HTTPTellsOne DEF Hears, ResolvesWithAnswer
    <3> QED BY <3>1, <3>4, <3>7 DEF HTTPKeeps, Hears
  <2>7. CASE ask.method = "delete"
    <3>1. HTTPMeans(ask) = Writes(App, EmptyText)
      BY <2>2, <2>7 DEF Invoked
    <3>2. Fits(App, EmptyText) /\ ParseOrKeep(EmptyText) = String(EmptyText)
      BY FittingTexts DEF App
    <3>3. Promise!Sets(ask) = Single(App, ParseOrKeep(EmptyText))
      BY <1>9, <2>7, <3>2, Promised
    <3>4. Effects(ask, Single(App, EmptyText))
      BY <3>2, <3>3, OneEffect DEF App
    <3>5. ASSUME NEW after
          PROVE  HTTPTells(ask, after)
      <4>1. Told(HTTPMeans(ask), after) = <<>>
        BY <3>1 DEF Told, Writes
      <4>2. HTTP!Result(ask, HTTPAnswer(r, <<>>)) = <<String(EmptyText)>>
        BY <1>9, <2>4, <3>2, SameHTTP DEF HTTPAnswer, HTTP!Result
      <4>3. MeantAll(<<String(EmptyText)>>) = <<String(EmptyText)>>
        BY DEF MeantAll, Meant, IsBuffer, String
      <4>4. Promise!Outcome(ask, Values(after)) = <<String(EmptyText)>>
        BY <1>9, <2>7, Outcomes
      <4> QED BY <4>1, <4>2, <4>3, <4>4 DEF HTTPTells
    <3> QED BY <3>1, <3>4, <3>5 DEF HTTPKeeps, Writes
  <2> QED BY <2>0, <2>5, <2>6, <2>7
<1>10. CASE ask.op = "send"
  <2>0. IsJson(ask.data)
    BY <1>10 DEF WellAsked, Passed, PassedOverHTTP
  <2>1. r
            = HTTP!Sent("post", "/bindings", HTTP!NoName,
                JsonText(Object([operation |-> "create", data |-> ask.data])))
    BY <1>10, <2>0, SameHTTP, SameHTTPJson, JsonIsNoBuffer DEF HTTP!Request, HTTP!BindingSend
  <2>2. HTTPMeans(ask) = Hears(Binding, JsonText(ask.data))
    BY <2>1 DEF HTTPMeans, HTTPMeaning, HTTP!Sent, JsonText, Object
  <2>3. Fits(Binding, JsonText(ask.data))
    BY <2>0, FittingTexts DEF Binding, UnparsedKinds
  <2>4. Promise!Sets(ask) = Single(Binding, ParseOrKeep(JsonText(ask.data)))
    BY <1>10, Promised, FittingTexts
  <2>5. Effects(ask, Single(Binding, JsonText(ask.data)))
    BY <2>3, <2>4, OneEffect DEF Binding
  <2>6. gets = <<Binding>>
    BY <1>10, Got
  <2>7. ~HTTPAnswersList(r)
    BY <2>1 DEF HTTPAnswersList, HTTP!Sent
  <2>8. Binding \in DOMAIN Texts
    BY <1>1, <2>6
  <2>9. ASSUME NEW after, CellsFit(after)
        PROVE  HTTPTells(ask, after)
    <3>1. HTTPMeans(ask).reads = <<Binding>>
      BY <2>2 DEF Hears
    <3>2. ResolvesWithAnswer(ask)
      BY <1>10 DEF ResolvesWithAnswer
    <3> QED BY <2>6, <2>7, <2>8, <2>9, <3>1, <3>2, HTTPTellsOne
  <2> QED BY <2>2, <2>5, <2>9 DEF HTTPKeeps, Hears
<1>11. CASE ask.op = "actorInvoke"
  <2>1. r = HTTP!Sent("post", "/actors/method", HTTP!NoName, HTTP!Body(ask.data))
    BY <1>11, SameHTTP DEF HTTP!Request, HTTP!ActorInvoke
  <2>2. HTTPMeans(ask) = Hears(Actor, HTTP!Body(ask.data))
    BY <2>1 DEF HTTPMeans, HTTPMeaning, HTTP!Sent
  <2>3. PassedOverHTTP("actorInvoke", ask.data)
    BY <1>11 DEF WellAsked, Passed
  <2>4. /\ Fits(Actor, HTTP!Body(ask.data))
        /\ Promise!Sets(ask) = Single(Actor, ParseOrKeep(HTTP!Body(ask.data)))
    BY <1>11, <2>3, Promised, BodyReads
  <2>5. Effects(ask, Single(Actor, HTTP!Body(ask.data)))
    BY <2>3, <2>4, OneEffect DEF Actor
  <2>6. gets = <<Actor>>
    BY <1>11, Got
  <2>7. ~HTTPAnswersList(r)
    BY <2>1 DEF HTTPAnswersList, HTTP!Sent
  <2>8. Actor \in DOMAIN Texts
    BY <1>1, <2>6
  <2>9. ASSUME NEW after, CellsFit(after)
        PROVE  HTTPTells(ask, after)
    <3>1. HTTPMeans(ask).reads = <<Actor>>
      BY <2>2 DEF Hears
    <3>2. ResolvesWithAnswer(ask)
      BY <1>11 DEF ResolvesWithAnswer
    <3> QED BY <2>6, <2>7, <2>8, <2>9, <3>1, <3>2, HTTPTellsOne
  <2> QED BY <2>2, <2>5, <2>9 DEF HTTPKeeps, Hears
<1>12. CASE ask.op = "publish"
  <2> DEFINE data == OrEmpty(ask.data)
  <2>3. IsJson(data)
    BY <1>12 DEF WellAsked, Passed, PassedOverHTTP
  <2>1. r = HTTP!Sent("post", "/publish", HTTP!NoName, JsonText(data))
    BY <1>12, <2>3, SameHTTP, SameHTTPJson, JsonIsNoBuffer DEF HTTP!Request, HTTP!PubSubPublish
  <2>2. HTTPMeans(ask) = Writes(Topic, JsonText(data))
    BY <2>1 DEF HTTPMeans, HTTPMeaning, HTTP!Sent
  <2>4. Fits(Topic, JsonText(data))
    BY <2>3, FittingTexts DEF UnparsedKinds, Topic
  <2>5. Promise!Sets(ask) = Single(Topic, ParseOrKeep(JsonText(data)))
    BY <1>12, <2>3, Promised, FittingTexts
  <2>6. Effects(ask, Single(Topic, JsonText(data)))
    BY <2>4, <2>5, OneEffect DEF Topic
  <2> QED BY <1>12, <2>2, <2>6, HTTPTellsNothing DEF HTTPKeeps, Writes
<1>13. CASE ask.op = "metadataGet"
  <2>1. r = HTTP!Sent("get", "/metadata", HTTP!NoName, EmptyText)
    BY <1>13, SameHTTP DEF HTTP!Request, HTTP!MetadataGet
  <2>2. HTTPMeans(ask) = Reads(Metadata)
    BY <2>1 DEF HTTPMeans, HTTPMeaning, HTTP!Sent
  <2>3. Effects(ask, <<>>)
    BY <1>13, Promised, NoEffect
  <2>4. gets = <<Metadata>>
    BY <1>13, Got
  <2>5. HTTPAnswersList(r)
    BY <2>1 DEF HTTPAnswersList, HTTP!Sent
  <2>6. \A after : CellsFit(after) => HTTPTells(ask, after)
    BY <1>13, <1>1, <2>2, <2>4, <2>5, HTTPTellsAll DEF Reads
  <2> QED BY <2>2, <2>3, <2>6 DEF HTTPKeeps, Reads
<1>14. CASE ask.op = "metadataSet"
  <2>1. r = HTTP!Sent("put", "/metadata/key", ask.key, ask.value.string)
    BY <1>14, SameHTTP DEF HTTP!Request, HTTP!MetadataSet
  <2>2. HTTPMeans(ask) = Writes(<<"metadata", ask.key>>, ask.value.string)
    BY <2>1 DEF HTTPMeans, HTTPMeaning, HTTP!Sent
  <2>3. IsPlainString(ask.value)
    BY <1>14 DEF WellAsked, Passed, PassedOverHTTP
  <2>4. Fits(<<"metadata", ask.key>>, ask.value.string)
    BY <2>3, FittingTexts DEF UnparsedKinds
  <2>5. Promise!Sets(ask) = Single(<<"metadata", ask.key>>, ParseOrKeep(ask.value.string))
    BY <1>14, <2>3, Promised, FittingTexts
  <2>6. Effects(ask, Single(<<"metadata", ask.key>>, ask.value.string))
    BY <2>4, <2>5, OneEffect
  <2> QED BY <1>14, <2>2, <2>6, HTTPTellsNothing DEF HTTPKeeps, Writes
<1>15. CASE ask.op = "secretGet"
  <2>1. r = HTTP!Sent("get", "/secrets/key", ask.key, EmptyText)
    BY <1>15, SameHTTP DEF HTTP!Request, HTTP!SecretGet
  <2>2. HTTPMeans(ask) = Reads(<<"secret", ask.key>>)
    BY <2>1 DEF HTTPMeans, HTTPMeaning, HTTP!Sent
  <2>3. Effects(ask, <<>>)
    BY <1>15, Promised, NoEffect
  <2>4. gets = <<<<"secret", ask.key>>>>
    BY <1>15, Got
  <2>5. HTTPAnswersList(r)
    BY <2>1 DEF HTTPAnswersList, HTTP!Sent
  <2>6. \A after : CellsFit(after) => HTTPTells(ask, after)
    BY <1>15, <1>1, <2>2, <2>4, <2>5, HTTPTellsAll DEF Reads
  <2> QED BY <2>2, <2>3, <2>6 DEF HTTPKeeps, Reads
<1>16. CASE ask.op = "secretGetBulk"
  <2>1. r = HTTP!Sent("get", "/secrets/bulk", HTTP!NoName, EmptyText)
    BY <1>16, SameHTTP DEF HTTP!Request, HTTP!SecretGetBulk
  <2>2. HTTPMeans(ask) = Reads(Secret)
    BY <2>1 DEF HTTPMeans, HTTPMeaning, HTTP!Sent
  <2>3. Effects(ask, <<>>)
    BY <1>16, Promised, NoEffect
  <2>4. gets = <<Secret>>
    BY <1>16, Got
  <2>5. HTTPAnswersList(r)
    BY <2>1 DEF HTTPAnswersList, HTTP!Sent
  <2>6. \A after : CellsFit(after) => HTTPTells(ask, after)
    BY <1>16, <1>1, <2>2, <2>4, <2>5, HTTPTellsAll DEF Reads
  <2> QED BY <2>2, <2>3, <2>6 DEF HTTPKeeps, Reads
<1>17. CASE ask.op = "shutdown"
  <2>1. r = HTTP!Sent("post", "/shutdown", HTTP!NoName, EmptyText)
    BY <1>17, SameHTTP DEF HTTP!Request, HTTP!SidecarShutdown
  <2>2. HTTPMeans(ask) = Nothing
    BY <2>1 DEF HTTPMeans, HTTPMeaning, HTTP!Sent
  <2>3. Effects(ask, <<>>)
    BY <1>17, Promised, NoEffect
  <2> QED BY <1>17, <2>2, <2>3, HTTPTellsNothing DEF HTTPKeeps, Nothing
<1>18. CASE ask.op = "isHealthy"
  <2>1. r = HTTP!Sent("get", "/healthz", HTTP!NoName, EmptyText)
    BY <1>18, SameHTTP DEF HTTP!Request, HTTP!HealthIsHealthy
  <2>2. HTTPMeans(ask) = Nothing
    BY <2>1 DEF HTTPMeans, HTTPMeaning, HTTP!Sent
  <2>3. Effects(ask, <<>>)
    BY <1>18, Promised, NoEffect
  <2> QED BY <1>18, <2>2, <2>3, HTTPTellsNothing DEF HTTPKeeps, Nothing
<1>19. CASE ask.op = "deactivate"
  <2>1. r = HTTP!Sent("delete", "/actors", HTTP!NoName, EmptyText)
    BY <1>19, SameHTTP DEF HTTP!Request, HTTP!Deactivate
  <2>2. HTTPMeans(ask) = Nothing
    BY <2>1 DEF HTTPMeans, HTTPMeaning, HTTP!Sent
  <2>3. Effects(ask, <<>>)
    BY <1>19, Promised, NoEffect
  <2> QED BY <1>19, <2>2, <2>3, HTTPTellsNothing DEF HTTPKeeps, Nothing
<1>20. CASE ask.op = "actorGet"
  <2>1. r = HTTP!Sent("get", "/actors/state/key", ask.key, EmptyText)
    BY <1>20, SameHTTP DEF HTTP!Request, HTTP!ActorStateGet
  <2>2. HTTPMeans(ask) = Reads(<<"actor", ask.key>>)
    BY <2>1 DEF HTTPMeans, HTTPMeaning, HTTP!Sent
  <2>3. Effects(ask, <<>>)
    BY <1>20, Promised, NoEffect
  <2>4. gets = <<<<"actor", ask.key>>>>
    BY <1>20, Got
  <2>5. ~HTTPAnswersList(r)
    BY <2>1 DEF HTTPAnswersList, HTTP!Sent
  <2>6. <<"actor", ask.key>> \in DOMAIN Texts
    BY <1>1, <2>4
  <2>7. ASSUME NEW after, CellsFit(after)
        PROVE  HTTPTells(ask, after)
    <3>1. HTTPMeans(ask).reads = <<<<"actor", ask.key>>>>
      BY <2>2 DEF Reads
    <3>2. ResolvesWithAnswer(ask)
      BY <1>20 DEF ResolvesWithAnswer
    <3> QED BY <2>4, <2>5, <2>6, <2>7, <3>1, <3>2, HTTPTellsOne
  <2> QED BY <2>2, <2>3, <2>7 DEF HTTPKeeps, Reads
<1>21. CASE ask.op = "reminderGet"
  <2>1. r = HTTP!Sent("get", "/actors/reminders/name", ask.name, EmptyText)
    BY <1>21, SameHTTP DEF HTTP!Request, HTTP!ReminderGet
  <2>2. HTTPMeans(ask) = Reads(<<"reminder", ask.name>>)
    BY <2>1 DEF HTTPMeans, HTTPMeaning, HTTP!Sent
  <2>3. Effects(ask, <<>>)
    BY <1>21, Promised, NoEffect
  <2>4. gets = <<<<"reminder", ask.name>>>>
    BY <1>21, Got
  <2>5. ~HTTPAnswersList(r)
    BY <2>1 DEF HTTPAnswersList, HTTP!Sent
  <2>6. <<"reminder", ask.name>> \in DOMAIN Texts
    BY <1>1, <2>4
  <2>7. ASSUME NEW after, CellsFit(after)
        PROVE  HTTPTells(ask, after)
    <3>1. HTTPMeans(ask).reads = <<<<"reminder", ask.name>>>>
      BY <2>2 DEF Reads
    <3>2. ResolvesWithAnswer(ask)
      BY <1>21 DEF ResolvesWithAnswer
    <3> QED BY <2>4, <2>5, <2>6, <2>7, <3>1, <3>2, HTTPTellsOne
  <2> QED BY <2>2, <2>3, <2>7 DEF HTTPKeeps, Reads
<1>22. CASE ask.op = "registerReminder"
  <2>3. IsJson(ask.data)
    BY <1>22 DEF WellAsked, Passed, PassedOverHTTP
  <2>1. r
            = HTTP!Sent("post", "/actors/reminders/name", ask.name,
                JsonText(Object([period |-> "period", data |-> ask.data])))
    BY <1>22, <2>3, SameHTTP, SameHTTPJson, JsonIsNoBuffer DEF HTTP!Request, HTTP!RegisterActorReminder
  <2>2. HTTPMeans(ask) = Writes(<<"reminder", ask.name>>, JsonText(ask.data))
    BY <2>1 DEF HTTPMeans, HTTPMeaning, HTTP!Sent, JsonText, Object
  <2>4. Fits(<<"reminder", ask.name>>, JsonText(ask.data))
    BY <2>3, FittingTexts DEF UnparsedKinds
  <2>5. Promise!Sets(ask) = Single(<<"reminder", ask.name>>, ParseOrKeep(JsonText(ask.data)))
    BY <1>22, <2>3, Promised, FittingTexts
  <2>6. Effects(ask, Single(<<"reminder", ask.name>>, JsonText(ask.data)))
    BY <2>4, <2>5, OneEffect
  <2> QED BY <1>22, <2>2, <2>6, HTTPTellsNothing DEF HTTPKeeps, Writes
<1>23. CASE ask.op = "unregisterReminder"
  <2>1. r = HTTP!Sent("delete", "/actors/reminders/name", ask.name, EmptyText)
    BY <1>23, SameHTTP DEF HTTP!Request, HTTP!UnregisterActorReminder
  <2>2. HTTPMeans(ask) = Writes(<<"reminder", ask.name>>, EmptyText)
    BY <2>1 DEF HTTPMeans, HTTPMeaning, HTTP!Sent
  <2>3. Fits(<<"reminder", ask.name>>, EmptyText)
    BY FittingTexts DEF UnparsedKinds
  <2>4. Promise!Sets(ask) = Single(<<"reminder", ask.name>>, ParseOrKeep(EmptyText))
    BY <1>23, Promised, FittingTexts
  <2>5. Effects(ask, Single(<<"reminder", ask.name>>, EmptyText))
    BY <2>3, <2>4, OneEffect
  <2> QED BY <1>23, <2>2, <2>5, HTTPTellsNothing DEF HTTPKeeps, Writes
<1>24. CASE ask.op = "registerTimer"
  <2>3. IsJson(ask.data)
    BY <1>24 DEF WellAsked, Passed, PassedOverHTTP
  <2>1. r
            = HTTP!Sent("post", "/actors/timers/name", ask.name,
                JsonText(Object([period |-> "period", data |-> ask.data,
                    callback |-> "callback"])))
    BY <1>24, <2>3, SameHTTP, SameHTTPJson, JsonIsNoBuffer DEF HTTP!Request, HTTP!RegisterActorTimer
  <2>2. HTTPMeans(ask) = Writes(<<"timer", ask.name>>, JsonText(ask.data))
    BY <2>1 DEF HTTPMeans, HTTPMeaning, HTTP!Sent, JsonText, Object
  <2>4. Fits(<<"timer", ask.name>>, JsonText(ask.data))
    BY <2>3, FittingTexts DEF UnparsedKinds
  <2>5. Promise!Sets(ask) = Single(<<"timer", ask.name>>, ParseOrKeep(JsonText(ask.data)))
    BY <1>24, <2>3, Promised, FittingTexts
  <2>6. Effects(ask, Single(<<"timer", ask.name>>, JsonText(ask.data)))
    BY <2>4, <2>5, OneEffect
  <2> QED BY <1>24, <2>2, <2>6, HTTPTellsNothing DEF HTTPKeeps, Writes
<1>25. CASE ask.op = "unregisterTimer"
  <2>1. r = HTTP!Sent("delete", "/actors/timers/name", ask.name, EmptyText)
    BY <1>25, SameHTTP DEF HTTP!Request, HTTP!UnregisterActorTimer
  <2>2. HTTPMeans(ask) = Writes(<<"timer", ask.name>>, EmptyText)
    BY <2>1 DEF HTTPMeans, HTTPMeaning, HTTP!Sent
  <2>3. Fits(<<"timer", ask.name>>, EmptyText)
    BY FittingTexts DEF UnparsedKinds
  <2>4. Promise!Sets(ask) = Single(<<"timer", ask.name>>, ParseOrKeep(EmptyText))
    BY <1>25, Promised, FittingTexts
  <2>5. Effects(ask, Single(<<"timer", ask.name>>, EmptyText))
    BY <2>3, <2>4, OneEffect
  <2> QED BY <1>25, <2>2, <2>5, HTTPTellsNothing DEF HTTPKeeps, Writes
<1>26. CASE ask.op = "getActors"
  BY <1>26 DEF HTTP!Request, HTTP!GetActors, HTTPMeans, HTTPMeaning, HTTP!Sent
<1>27. ask.op \in Operations["http"]
  BY DEF WellAsked
<1> QED
  BY <1>2, <1>3, <1>4, <1>5, <1>6, <1>7, <1>8, <1>9, <1>10, <1>11, <1>12, <1>13, <1>14, <1>15,
     <1>16, <1>17, <1>18, <1>19, <1>20, <1>21, <1>22, <1>23, <1>24, <1>25, <1>26, <1>27
     DEF Operations

-----------------------------------------------------------------------------
(* gRPC.                                                                   *)

\* The gRPC client's methods and messages are those of the generated code.
LEMMA SameService == GRPC!DaprService = DaprService
BY DEF GRPC!BindingEventRequest, BindingEventRequest, GRPC!BindingEventResponse,
       BindingEventResponse, GRPC!DeleteBulkStateRequest, DeleteBulkStateRequest,
       GRPC!DeleteStateRequest, DeleteStateRequest, GRPC!Empty, Empty,
       GRPC!ExecuteActorStateTransactionRequest, ExecuteActorStateTransactionRequest,
       GRPC!ExecuteStateTransactionRequest, ExecuteStateTransactionRequest,
       GRPC!GetActorStateRequest, GetActorStateRequest, GRPC!GetActorStateResponse,
       GetActorStateResponse, GRPC!GetBulkSecretRequest, GetBulkSecretRequest,
       GRPC!GetBulkSecretResponse, GetBulkSecretResponse, GRPC!GetBulkStateRequest,
       GetBulkStateRequest, GRPC!GetBulkStateResponse, GetBulkStateResponse,
       GRPC!GetConfigurationRequest, GetConfigurationRequest, GRPC!GetConfigurationResponse,
       GetConfigurationResponse, GRPC!GetMetadataResponse, GetMetadataResponse,
       GRPC!GetSecretRequest, GetSecretRequest, GRPC!GetSecretResponse, GetSecretResponse,
       GRPC!GetStateRequest, GetStateRequest, GRPC!GetStateResponse, GetStateResponse,
       GRPC!InvokeActorRequest, InvokeActorRequest, GRPC!InvokeActorResponse, InvokeActorResponse,
       GRPC!InvokeBindingRequest, InvokeBindingRequest, GRPC!InvokeBindingResponse,
       InvokeBindingResponse, GRPC!InvokeRequest, InvokeRequest, GRPC!InvokeResponse,
       InvokeResponse, GRPC!InvokeServiceRequest, InvokeServiceRequest,
       GRPC!ListInputBindingsResponse, ListInputBindingsResponse,
       GRPC!ListTopicSubscriptionsResponse, ListTopicSubscriptionsResponse,
       GRPC!PublishEventRequest, PublishEventRequest, GRPC!QueryStateRequest, QueryStateRequest,
       GRPC!QueryStateResponse, QueryStateResponse, GRPC!RegisterActorReminderRequest,
       RegisterActorReminderRequest, GRPC!RegisterActorTimerRequest, RegisterActorTimerRequest,
       GRPC!RenameActorReminderRequest, RenameActorReminderRequest, GRPC!SaveStateRequest,
       SaveStateRequest, GRPC!SetMetadataRequest, SetMetadataRequest,
       GRPC!SubscribeConfigurationRequest, SubscribeConfigurationRequest,
       GRPC!SubscribeConfigurationResponse, SubscribeConfigurationResponse,
       GRPC!UnregisterActorReminderRequest, UnregisterActorReminderRequest,
       GRPC!UnregisterActorTimerRequest, UnregisterActorTimerRequest,
       GRPC!UnsubscribeConfigurationRequest, UnsubscribeConfigurationRequest,
       GRPC!UnsubscribeConfigurationResponse, UnsubscribeConfigurationResponse, GRPC!InvokeRpcs,
       InvokeRpcs, GRPC!StateRpcs, StateRpcs, GRPC!BlockRpcs, BlockRpcs, GRPC!ActorRpcs,
       ActorRpcs, GRPC!ConfigurationRpcs, ConfigurationRpcs, GRPC!SidecarRpcs, SidecarRpcs,
       GRPC!Rpc, Rpc, GRPC!DaprService, DaprService, GRPC!Overlay, Overlay, GRPC!Text, Text,
       GRPC!Enum, Enum, GRPC!Int32, Int32, GRPC!Bool, Bool, GRPC!Repeated, Repeated,
       GRPC!MapField, MapField, GRPC!Sub, Sub, GRPC!Field, Field, GRPC!EmptyText, EmptyText,
       GRPC!PlainText, PlainText, GRPC!Undefined, Undefined

\* The gRPC client's operators on values and messages are those of the other modules.
LEMMA SameGRPCJson ==
    ASSUME NEW v
    PROVE  GRPC!Stringify(v) = Stringify(v)
BY DEF GRPC!Json, Json, GRPC!JsonOver, JsonOver, GRPC!JsonLeaf, JsonLeaf, GRPC!BufferJson,
       BufferJson, GRPC!Null, Null, GRPC!Undefined, Undefined, GRPC!IsArray, IsArray,
       GRPC!IsBuffer, IsBuffer, GRPC!Array, Array, GRPC!Object, Object, GRPC!String, String,
       GRPC!PlainText, PlainText, GRPC!Stringify, Stringify, GRPC!JsonText, JsonText

LEMMA SameValues ==
    /\ GRPC!EmptyText = EmptyText /\ GRPC!Undefined = Undefined /\ GRPC!True = True
    /\ \A s : GRPC!Name(s) = PlainText(s) /\ GRPC!PlainText(s) = PlainText(s)
    /\ \A v : /\ IsJson(v) => GRPC!Stringify(v) = JsonText(v)
              /\ GRPC!StringifyObject(v) = JsonText(Object(v)) /\ GRPC!OrEmpty(v) = OrEmpty(v)
              /\ GRPC!ParseOrKeep(v) = ParseOrKeep(v)
              /\ GRPC!ToText(v) = ToText(v) /\ GRPC!Template(v) = Template(v)
              /\ (GRPC!Falsy(v) <=> Falsy(v)) /\ (GRPC!IsObject(v) <=> IsObject(v))
              /\ (GRPC!IsString(v) <=> IsString(v)) /\ (GRPC!IsBuffer(v) <=> IsBuffer(v))
              /\ GRPC!Buffer(v) = Buffer(v) /\ GRPC!String(v) = String(v)
              /\ GRPC!Number(v) = Number(v)
<1>1. \A v : IsJson(v) => GRPC!Stringify(v) = JsonText(v)
  BY SameGRPCJson, JsonIsNoBuffer
<1> QED
  BY <1>1
     DEF GRPC!EmptyText, EmptyText, GRPC!Undefined, Undefined, GRPC!True, True, GRPC!Name,
         GRPC!PlainText, PlainText, GRPC!JsonText, JsonText, GRPC!ParseOrKeep, ParseOrKeep,
         GRPC!ToText, ToText, GRPC!Template, Template, GRPC!Falsy, Falsy, GRPC!IsObject, IsObject,
         GRPC!IsString, IsString, GRPC!IsBuffer, IsBuffer, GRPC!Buffer, Buffer, GRPC!String,
         String, GRPC!Number, Number, GRPC!ItemToText, ItemToText, GRPC!IsArray, IsArray,
         GRPC!Null, Null, GRPC!False, False, GRPC!StringifyObject, StringifyObject, GRPC!Object,
         Object, GRPC!OrEmpty, OrEmpty, GRPC!EmptyObject, EmptyObject

\* And its messages are those of the generated code.
LEMMA SameMessages ==
    /\ \A schema, message : GRPC!Wire(schema, message) = Wire(schema, message)
    /\ \A schema, bytes : GRPC!Read(schema, bytes) = Read(schema, bytes)
    /\ GRPC!HTTPExtensionVerb = HTTPExtensionVerb
    /\ GRPC!StateItem = StateItem /\ GRPC!AnyMessage = AnyMessage
    /\ GRPC!TransactionalStateOperation = TransactionalStateOperation
    /\ GRPC!TransactionalActorStateOperation = TransactionalActorStateOperation
    /\ GRPC!InvokeRequest = InvokeRequest /\ GRPC!HTTPExtension = HTTPExtension
    /\ GRPC!BulkStateItem = BulkStateItem /\ GRPC!QueryStateItem = QueryStateItem
    /\ GRPC!ConfigurationItem = ConfigurationItem /\ GRPC!ActiveActorsCount = ActiveActorsCount
<1>1. /\ \A schema, message : GRPC!Wire(schema, message) = Wire(schema, message)
      /\ \A schema, bytes : GRPC!Read(schema, bytes) = Read(schema, bytes)
  BY DEF GRPC!Wire, Wire, GRPC!Read, Read, GRPC!Written, Written
<1>2. GRPC!HTTPExtensionVerb = HTTPExtensionVerb
  BY DEF GRPC!HTTPExtensionVerb, HTTPExtensionVerb
<1>3. /\ \A n : GRPC!Text(n) = Text(n) /\ GRPC!Enum(n) = Enum(n) /\ GRPC!Int32(n) = Int32(n)
      /\ \A n : GRPC!MapField(n) = MapField(n) /\ GRPC!Sub(n) = Sub(n)
  BY DEF GRPC!Text, Text, GRPC!Enum, Enum, GRPC!Int32, Int32, GRPC!MapField, MapField, GRPC!Sub,
         Sub, GRPC!Field, Field, GRPC!EmptyText, EmptyText, GRPC!PlainText, PlainText,
         GRPC!Undefined, Undefined
<1>4. GRPC!StateItem = StateItem /\ GRPC!AnyMessage = AnyMessage
  BY <1>3 DEF GRPC!StateItem, StateItem, GRPC!AnyMessage, AnyMessage
<1>5. /\ GRPC!TransactionalStateOperation = TransactionalStateOperation
      /\ GRPC!TransactionalActorStateOperation = TransactionalActorStateOperation
  BY <1>3 DEF GRPC!TransactionalStateOperation, TransactionalStateOperation,
              GRPC!TransactionalActorStateOperation, TransactionalActorStateOperation
<1>6. GRPC!InvokeRequest = InvokeRequest /\ GRPC!HTTPExtension = HTTPExtension
  BY <1>3 DEF GRPC!InvokeRequest, InvokeRequest, GRPC!HTTPExtension, HTTPExtension
<1>7. GRPC!BulkStateItem = BulkStateItem /\ GRPC!QueryStateItem = QueryStateItem
  BY <1>3 DEF GRPC!BulkStateItem, BulkStateItem, GRPC!QueryStateItem, QueryStateItem
<1>8. GRPC!ConfigurationItem = ConfigurationItem /\ GRPC!ActiveActorsCount = ActiveActorsCount
  BY <1>3 DEF GRPC!ConfigurationItem, ConfigurationItem, GRPC!ActiveActorsCount, ActiveActorsCount
<1> QED BY <1>1, <1>2, <1>4, <1>5, <1>6, <1>7, <1>8

\* What a call of the generated client sends.
LEMMA Called ==
    ASSUME NEW rpc, NEW message
    PROVE  GRPC!Call(rpc, message)
               = [rpc |-> rpc, bytes |-> Wire(DaprService[rpc].request, message)]
BY SameService, SameMessages DEF GRPC!Call

\* The classes of a method's messages.
LEMMA Requests ==
    /\ DaprService["saveState"].request = SaveStateRequest
    /\ DaprService["getState"].request = GetStateRequest
    /\ DaprService["getBulkState"].request = GetBulkStateRequest
    /\ DaprService["deleteState"].request = DeleteStateRequest
    /\ DaprService["executeStateTransaction"].request = ExecuteStateTransactionRequest
    /\ DaprService["queryStateAlpha1"].request = QueryStateRequest
    /\ DaprService["invokeService"].request = InvokeServiceRequest
    /\ DaprService["invokeBinding"].request = InvokeBindingRequest
    /\ DaprService["publishEvent"].request = PublishEventRequest
    /\ DaprService["getMetadata"].request = Empty
    /\ DaprService["setMetadata"].request = SetMetadataRequest
    /\ DaprService["getSecret"].request = GetSecretRequest
    /\ DaprService["shutdown"].request = Empty
    /\ DaprService["getConfigurationAlpha1"].request = GetConfigurationRequest
    /\ DaprService["invokeActor"].request = InvokeActorRequest
    /\ DaprService["executeActorStateTransaction"].request = ExecuteActorStateTransactionRequest
    /\ DaprService["getActorState"].request = GetActorStateRequest
    /\ DaprService["registerActorReminder"].request = RegisterActorReminderRequest
    /\ DaprService["unregisterActorReminder"].request = UnregisterActorReminderRequest
    /\ DaprService["registerActorTimer"].request = RegisterActorTimerRequest
    /\ DaprService["unregisterActorTimer"].request = UnregisterActorTimerRequest
BY DEF DaprService, Overlay, InvokeRpcs, StateRpcs, BlockRpcs, ActorRpcs, ConfigurationRpcs,
       SidecarRpcs, Rpc

\* The classes of a method's answers.
LEMMA Responses ==
    /\ DaprService["getState"].response = GetStateResponse
    /\ DaprService["getBulkState"].response = GetBulkStateResponse
    /\ DaprService["queryStateAlpha1"].response = QueryStateResponse
    /\ DaprService["invokeService"].response = InvokeResponse
    /\ DaprService["invokeBinding"].response = InvokeBindingResponse
    /\ DaprService["getMetadata"].response = GetMetadataResponse
    /\ DaprService["getSecret"].response = GetSecretResponse
    /\ DaprService["getConfigurationAlpha1"].response = GetConfigurationResponse
    /\ DaprService["invokeActor"].response = InvokeActorResponse
    /\ DaprService["getActorState"].response = GetActorStateResponse
BY DEF DaprService, Overlay, InvokeRpcs, StateRpcs, BlockRpcs, ActorRpcs, ConfigurationRpcs,
       SidecarRpcs, Rpc

\* What is set in a message of the generated code is what is read from it.
LEMMA ReadBack ==
    ASSUME NEW schema \in AllSchemas, NEW message, DOMAIN message \subseteq DOMAIN schema
    PROVE  \A f \in DOMAIN message : Read(schema, Wire(schema, message))[f] = message[f]
BY FieldNumbers, WireKeeps

\* A map with one entry is handed on as its text.
LEMMA OneEntry ==
    ASSUME NEW map, NEW x, DOMAIN map = {x}
    PROVE  GRPC!MapResult(map) = <<String(map[x])>>
<1> DEFINE keys == GRPC!SetToSeq({x})
<1>1. GRPC!Cardinality({x}) = 1
  BY FS_Singleton DEF GRPC!Cardinality, Cardinality
<1>2. keys = CHOOSE f \in [1..1 -> {x}] : GRPC!IsInjective(f)
  BY <1>1 DEF GRPC!SetToSeq
<1>3. \E f \in [1..1 -> {x}] : GRPC!IsInjective(f)
  <2>1. [i \in 1..1 |-> x] \in [1..1 -> {x}]
    OBVIOUS
  <2>2. GRPC!IsInjective([i \in 1..1 |-> x])
    BY DEF GRPC!IsInjective
  <2> QED BY <2>1, <2>2
<1>4. keys \in [1..1 -> {x}]
  BY <1>2, <1>3
<1> HIDE DEF keys
<1>5. DOMAIN keys = {1} /\ keys[1] = x
  BY <1>4
<1> QED BY <1>5, SameValues DEF GRPC!MapResult, keys

GRPCMeans(ask) == GRPCMeaning(GRPC!Request(ask))

GRPCMessage(ask, after) ==
    Read(DaprService[GRPC!Request(ask).rpc].response,
         GRPCAnswer(GRPC!Request(ask), Told(GRPCMeans(ask), after)))

GRPCTells(ask, after) ==
    MeantAll(GRPC!Result(ask, GRPCMessage(ask, after))) = Promise!Outcome(ask, Values(after))

GRPCKeeps(ask) ==
    /\ Effects(ask, GRPCMeans(ask).writes)
    /\ \A after : CellsFit(after) => GRPCTells(ask, after)

\* What a text counts as, whichever way the client hands it on.
LEMMA MeantAsRead ==
    ASSUME NEW after, CellsFit(after), NEW cell \in DOMAIN Texts
    PROVE  /\ Meant(ParseOrKeep(after[cell])) = ParseOrKeep(after[cell])
           /\ Meant(Buffer(after[cell])) = ParseOrKeep(after[cell])
           /\ cell[1] \in UnparsedKinds => Meant(String(after[cell])) = ParseOrKeep(after[cell])
<1>1. Fits(cell, after[cell])
  BY DEF CellsFit
<1>2. Meant(ParseOrKeep(after[cell])) = ParseOrKeep(after[cell])
  BY <1>1, JsonIsNoBuffer DEF Meant, Fits
<1>3. Meant(Buffer(after[cell])) = ParseOrKeep(after[cell])
  BY DEF Meant, IsBuffer, Buffer
<1>4. ASSUME cell[1] \in UnparsedKinds
      PROVE  Meant(String(after[cell])) = ParseOrKeep(after[cell])
  <2>1. DOMAIN after[cell] = {"plain"}
    BY <1>1, <1>4 DEF Fits, IsPlain
  <2>2. String(after[cell]) = ParseOrKeep(after[cell])
    BY <2>1 DEF ParseOrKeep
  <2> QED BY <1>2, <2>2
<1> QED BY <1>2, <1>3, <1>4

\* The calls that resolve with what cells hold.
ResolvesWithCells(ask) ==
    /\ ask.op \notin {"publish", "metadataSet", "isHealthy"}
    /\ ~(ask.op = "invoke" /\ ask.method = "delete")

\* A call that resolves with the values of its cells.
LEMMA GRPCTellsAll ==
    ASSUME NEW ask, NEW after, CellsFit(after), ResolvesWithCells(ask), NEW values,
           \A i \in DOMAIN Promise!Gets(ask) : Promise!Gets(ask)[i] \in DOMAIN Texts,
           DOMAIN values = DOMAIN Promise!Gets(ask),
           \A i \in DOMAIN values : Meant(values[i]) = ParseOrKeep(after[Promise!Gets(ask)[i]]),
           GRPC!Result(ask, GRPCMessage(ask, after)) = values
    PROVE  GRPCTells(ask, after)
<1>1. MeantAll(values) = [i \in DOMAIN Promise!Gets(ask) |-> Values(after)[Promise!Gets(ask)[i]]]
  BY MeantValues
<1>2. Promise!Outcome(ask, Values(after))
          = [i \in DOMAIN Promise!Gets(ask) |-> Values(after)[Promise!Gets(ask)[i]]]
  BY Outcomes DEF ResolvesWithCells
<1> QED BY <1>1, <1>2 DEF GRPCTells

\* A call that resolves with the value of one cell.
LEMMA GRPCTellsOne ==
    ASSUME NEW ask, NEW after, CellsFit(after), ResolvesWithCells(ask), NEW v,
           NEW cell \in DOMAIN Texts, Promise!Gets(ask) = <<cell>>,
           Meant(v) = ParseOrKeep(after[cell]),
           GRPC!Result(ask, GRPCMessage(ask, after)) = <<v>>
    PROVE  GRPCTells(ask, after)
<1> DEFINE values == <<v>>
<1>1. /\ DOMAIN values = {1} /\ values[1] = v
      /\ DOMAIN Promise!Gets(ask) = {1} /\ Promise!Gets(ask)[1] = cell
  OBVIOUS
<1>2. GRPC!Result(ask, GRPCMessage(ask, after)) = values
  OBVIOUS
<1> HIDE DEF values
<1> QED BY <1>1, <1>2, GRPCTellsAll

\* Operations whose results do not depend on the answer.
LEMMA GRPCTellsNothing ==
    ASSUME NEW ask, NEW after,
           ask.op \in {"save", "delete", "transaction", "publish", "metadataSet", "shutdown",
                       "isHealthy", "actorTransaction", "registerReminder", "unregisterReminder",
                       "registerTimer", "unregisterTimer"}
    PROVE  GRPCTells(ask, after)
<1>1. MeantAll(<<>>) = <<>> /\ MeantAll(<<True>>) = <<True>>
  BY DEF MeantAll, Meant, IsBuffer, True
<1>2. CASE ask.op \in {"publish", "metadataSet", "isHealthy"}
  BY <1>1, <1>2, SameValues, Outcomes DEF GRPC!Result, GRPCTells
<1>3. CASE ask.op \notin {"publish", "metadataSet", "isHealthy"}
  <2>1. Promise!Gets(ask) = <<>>
    BY <1>3, Got
  <2>2. Promise!Outcome(ask, Values(after)) = <<>>
    BY <1>3, <2>1, Outcomes
  <2>3. \A message : GRPC!Result(ask, message) = <<>>
    BY <1>3 DEF GRPC!Result
  <2> QED BY <1>1, <2>2, <2>3 DEF GRPCTells
<1> QED BY <1>2, <1>3

\* An answer that carries the text of one cell.
LEMMA DataTold ==
    ASSUME NEW ask, NEW after, NEW cell, GRPCMeans(ask).reads = <<cell>>,
           GRPC!Request(ask).rpc \in {"getState", "getActorState", "invokeActor", "invokeBinding"}
    PROVE  GRPCMessage(ask, after).data = after[cell]
<1> DEFINE rpc == GRPC!Request(ask).rpc
           schema == DaprService[rpc].response
           message == [data |-> after[cell]]
<1>1. Told(GRPCMeans(ask), after) = <<after[cell]>>
  BY DEF Told
<1>2. GRPCAnswerMessage(GRPC!Request(ask), <<after[cell]>>) = message
  BY DEF GRPCAnswerMessage
<1>3. schema \in {GetStateResponse, GetActorStateResponse, InvokeActorResponse,
                  InvokeBindingResponse}
  BY Responses
<1>4. schema \in AllSchemas
  BY <1>3 DEF AllSchemas
<1>5. DOMAIN message \subseteq DOMAIN schema
  BY <1>3 DEF GetStateResponse, GetActorStateResponse, InvokeActorResponse, InvokeBindingResponse
<1>6. Read(schema, Wire(schema, message))["data"] = message["data"]
  <2> HIDE DEF schema
  <2> QED BY <1>4, <1>5, ReadBack
<1> QED BY <1>1, <1>2, <1>6 DEF GRPCMessage, GRPCAnswer

\* What a list of items carries of each.
LEMMA ItemTold ==
    ASSUME NEW text
    PROVE  /\ Read(BulkStateItem, Wire(BulkStateItem, Single("data", text))).data = text
           /\ Read(QueryStateItem, Wire(QueryStateItem, Single("data", text))).data = text
           /\ Read(ConfigurationItem, Wire(ConfigurationItem, Single("value", text))).value = text
<1>1. BulkStateItem \in AllSchemas /\ QueryStateItem \in AllSchemas
          /\ ConfigurationItem \in AllSchemas
  BY DEF AllSchemas
<1>2. "data" \in DOMAIN BulkStateItem /\ "data" \in DOMAIN QueryStateItem
  BY DEF BulkStateItem, QueryStateItem
<1>3. "value" \in DOMAIN ConfigurationItem
  BY DEF ConfigurationItem
<1> DEFINE data == Single("data", text)
           value == Single("value", text)
<1>4. /\ DOMAIN data = {"data"} /\ data["data"] = text
      /\ DOMAIN value = {"value"} /\ value["value"] = text
  BY DEF Single
<1> HIDE DEF data, value
<1>5. Read(BulkStateItem, Wire(BulkStateItem, data))["data"] = text
  BY <1>1, <1>2, <1>4, ReadBack
<1>6. Read(QueryStateItem, Wire(QueryStateItem, data))["data"] = text
  BY <1>1, <1>2, <1>4, ReadBack
<1>7. Read(ConfigurationItem, Wire(ConfigurationItem, value))["value"] = text
  BY <1>1, <1>3, <1>4, ReadBack
<1> QED BY <1>5, <1>6, <1>7 DEF data, value

\* An answer that lists what cells hold.
LEMMA ListTold ==
    ASSUME NEW ask, NEW after, NEW places, GRPCMeans(ask).reads = places
    PROVE  LET message == GRPCMessage(ask, after)
           IN /\ GRPC!Request(ask).rpc = "getBulkState" =>
                    /\ DOMAIN message.itemsList = DOMAIN places
                    /\ \A i \in DOMAIN places :
                          Read(BulkStateItem, message.itemsList[i]).data = after[places[i]]
              /\ GRPC!Request(ask).rpc = "queryStateAlpha1" =>
                    /\ DOMAIN message.resultsList = DOMAIN places
                    /\ \A i \in DOMAIN places :
                          Read(QueryStateItem, message.resultsList[i]).data = after[places[i]]
              /\ GRPC!Request(ask).rpc = "getConfigurationAlpha1" =>
                    /\ DOMAIN message.itemsList = DOMAIN places
                    /\ \A i \in DOMAIN places :
                          Read(ConfigurationItem, message.itemsList[i]).value = after[places[i]]
<1> DEFINE rpc == GRPC!Request(ask).rpc
           schema == DaprService[rpc].response
           texts == Told(GRPCMeans(ask), after)
           each(s, field) == [i \in DOMAIN places |-> Wire(s, Single(field, after[places[i]]))]
           sent == GRPCAnswerMessage(GRPC!Request(ask), texts)
<1>1. DOMAIN texts = DOMAIN places /\ \A i \in DOMAIN places : texts[i] = after[places[i]]
  BY DEF Told
<1> HIDE DEF texts
<1>2. \A s, field : [i \in DOMAIN texts |-> Wire(s, Single(field, texts[i]))] = each(s, field)
  BY <1>1
<1>3. ASSUME schema \in AllSchemas, NEW f, f \in DOMAIN sent, DOMAIN sent \subseteq DOMAIN schema
      PROVE  GRPCMessage(ask, after)[f] = sent[f]
  <2>1. GRPCMessage(ask, after) = Read(schema, Wire(schema, sent))
    BY DEF GRPCMessage, GRPCAnswer, texts
  <2> HIDE DEF schema, sent
  <2> QED BY <1>3, <2>1, ReadBack
<1>4. ASSUME rpc = "getBulkState"
      PROVE  /\ DOMAIN GRPCMessage(ask, after).itemsList = DOMAIN places
             /\ \A i \in DOMAIN places :
                   Read(BulkStateItem, GRPCMessage(ask, after).itemsList[i]).data
                       = after[places[i]]
  <2>1. sent
            = [itemsList |-> [i
                \in DOMAIN texts |-> Wire(BulkStateItem, Single("data", texts[i]))]]
    BY <1>4 DEF GRPCAnswerMessage
  <2>2. schema = GetBulkStateResponse
    BY <1>4, Responses
  <2>3. schema \in AllSchemas
    BY <2>2 DEF AllSchemas
  <2>4. DOMAIN sent = {"itemsList"} /\ DOMAIN sent \subseteq DOMAIN schema
    BY <2>1, <2>2 DEF GetBulkStateResponse
  <2>5. GRPCMessage(ask, after)["itemsList"] = sent["itemsList"]
    BY <1>3, <2>3, <2>4
  <2>6. sent["itemsList"] = each(BulkStateItem, "data")
    <3> HIDE DEF sent
    <3> QED BY <1>2, <2>1
  <2>7. /\ DOMAIN each(BulkStateItem, "data") = DOMAIN places
        /\ \A i \in DOMAIN places : Read(BulkStateItem, each(BulkStateItem, "data")[i]).data
                                        = after[places[i]]
    BY ItemTold
  <2> HIDE DEF each, sent
  <2> QED BY <2>5, <2>6, <2>7
<1>5. ASSUME rpc = "queryStateAlpha1"
      PROVE  /\ DOMAIN GRPCMessage(ask, after).resultsList = DOMAIN places
             /\ \A i \in DOMAIN places :
                   Read(QueryStateItem, GRPCMessage(ask, after).resultsList[i]).data
                       = after[places[i]]
  <2>1. sent
            = [resultsList |-> [i
                \in DOMAIN texts |-> Wire(QueryStateItem, Single("data", texts[i]))]]
    BY <1>5 DEF GRPCAnswerMessage
  <2>2. schema = QueryStateResponse
    BY <1>5, Responses
  <2>3. schema \in AllSchemas
    BY <2>2 DEF AllSchemas
  <2>4. DOMAIN sent = {"resultsList"} /\ DOMAIN sent \subseteq DOMAIN schema
    BY <2>1, <2>2 DEF QueryStateResponse
  <2>5. GRPCMessage(ask, after)["resultsList"] = sent["resultsList"]
    BY <1>3, <2>3, <2>4
  <2>6. sent["resultsList"] = each(QueryStateItem, "data")
    <3> HIDE DEF sent
    <3> QED BY <1>2, <2>1
  <2>7. /\ DOMAIN each(QueryStateItem, "data") = DOMAIN places
        /\ \A i \in DOMAIN places : Read(QueryStateItem, each(QueryStateItem, "data")[i]).data
                                        = after[places[i]]
    BY ItemTold
  <2> HIDE DEF each, sent
  <2> QED BY <2>5, <2>6, <2>7
<1>6. ASSUME rpc = "getConfigurationAlpha1"
      PROVE  /\ DOMAIN GRPCMessage(ask, after).itemsList = DOMAIN places
             /\ \A i \in DOMAIN places :
                   Read(ConfigurationItem, GRPCMessage(ask, after).itemsList[i]).value
                       = after[places[i]]
  <2>1. sent
            = [itemsList |-> [i
                \in DOMAIN texts |-> Wire(ConfigurationItem, Single("value", texts[i]))]]
    BY <1>6 DEF GRPCAnswerMessage
  <2>2. schema = GetConfigurationResponse
    BY <1>6, Responses
  <2>3. schema \in AllSchemas
    BY <2>2 DEF AllSchemas
  <2>4. DOMAIN sent = {"itemsList"} /\ DOMAIN sent \subseteq DOMAIN schema
    BY <2>1, <2>2 DEF GetConfigurationResponse
  <2>5. GRPCMessage(ask, after)["itemsList"] = sent["itemsList"]
    BY <1>3, <2>3, <2>4
  <2>6. sent["itemsList"] = each(ConfigurationItem, "value")
    <3> HIDE DEF sent
    <3> QED BY <1>2, <2>1
  <2>7. /\ DOMAIN each(ConfigurationItem, "value") = DOMAIN places
        /\ \A i \in DOMAIN places : Read(ConfigurationItem,
                                        each(ConfigurationItem, "value")[i]).value
                                        = after[places[i]]
    BY ItemTold
  <2> HIDE DEF each, sent
  <2> QED BY <2>5, <2>6, <2>7
<1> QED BY <1>4, <1>5, <1>6

\* The parts of messages are read as they were sent.
LEMMA PartsRead ==
    /\ \A x, y : LET item == Read(StateItem, Wire(StateItem, [key |-> x, value |-> y]))
                 IN item.key = x /\ item.value = y
    /\ \A x, y : LET operation == Read(TransactionalStateOperation,
                                       Wire(TransactionalStateOperation,
                                            [operationtype |-> x, request |-> y]))
                 IN operation.operationtype = x /\ operation.request = y
    /\ \A x, y, z : LET operation == Read(TransactionalActorStateOperation,
                                          Wire(TransactionalActorStateOperation,
                                               [key |-> x, operationtype |-> y, value |-> z]))
                    IN operation.key = x /\ operation.operationtype = y /\ operation.value = z
    /\ \A x : Read(AnyMessage, Wire(AnyMessage, [value |-> x])).value = x
    /\ Read(AnyMessage, Wire(AnyMessage, <<>>)).value = EmptyText
    /\ \A x : Read(ActiveActorsCount, Wire(ActiveActorsCount, [count |-> x])).count = x
    /\ \A x : Read(HTTPExtension, Wire(HTTPExtension, [verb |-> x])).verb = x
<1>1. /\ StateItem \in AllSchemas /\ TransactionalStateOperation \in AllSchemas
      /\ TransactionalActorStateOperation \in AllSchemas /\ AnyMessage \in AllSchemas
      /\ ActiveActorsCount \in AllSchemas /\ HTTPExtension \in AllSchemas
  BY DEF AllSchemas
<1>2. ASSUME NEW x, NEW y
      PROVE  LET item == Read(StateItem, Wire(StateItem, [key |-> x, value |-> y]))
             IN item.key = x /\ item.value = y
  <2> DEFINE message == [key |-> x, value |-> y]
  <2>1. DOMAIN message = {"key", "value"} /\ DOMAIN message \subseteq DOMAIN StateItem
    BY DEF StateItem
  <2>2. \A f \in DOMAIN message : Read(StateItem, Wire(StateItem, message))[f] = message[f]
    BY <1>1, <2>1, ReadBack
  <2> QED BY <2>2
<1>3. ASSUME NEW x, NEW y
      PROVE  LET operation == Read(TransactionalStateOperation,
                                   Wire(TransactionalStateOperation,
                                       [operationtype |-> x, request |-> y]))
             IN operation.operationtype = x /\ operation.request = y
  <2> DEFINE message == [operationtype |-> x, request |-> y]
  <2>1. DOMAIN message \subseteq DOMAIN TransactionalStateOperation
    BY DEF TransactionalStateOperation
  <2>2. \A f \in DOMAIN message :
           Read(TransactionalStateOperation, Wire(TransactionalStateOperation, message))[f]
               = message[f]
    BY <1>1, <2>1, ReadBack
  <2> QED BY <2>2
<1>4. ASSUME NEW x, NEW y, NEW z
      PROVE  LET operation == Read(TransactionalActorStateOperation,
                                   Wire(TransactionalActorStateOperation,
                                        [key |-> x, operationtype |-> y, value |-> z]))
             IN operation.key = x /\ operation.operationtype = y /\ operation.value = z
  <2> DEFINE message == [key |-> x, operationtype |-> y, value |-> z]
  <2>1. DOMAIN message \subseteq DOMAIN TransactionalActorStateOperation
    BY DEF TransactionalActorStateOperation
  <2>2. \A f \in DOMAIN message :
           Read(TransactionalActorStateOperation,
                Wire(TransactionalActorStateOperation, message))[f] = message[f]
    BY <1>1, <2>1, ReadBack
  <2> QED BY <2>2
<1>5. ASSUME NEW x
      PROVE  Read(AnyMessage, Wire(AnyMessage, [value |-> x])).value = x
  <2> DEFINE message == [value |-> x]
  <2>1. DOMAIN message \subseteq DOMAIN AnyMessage
    BY DEF AnyMessage
  <2>2. \A f \in DOMAIN message : Read(AnyMessage, Wire(AnyMessage, message))[f] = message[f]
    BY <1>1, <2>1, ReadBack
  <2> QED BY <2>2
<1>6. Read(AnyMessage, Wire(AnyMessage, <<>>)).value = EmptyText
  <2>1. WellFormed(AnyMessage)
    BY <1>1, FieldNumbers
  <2>2. "value" \in DOMAIN AnyMessage /\ AnyMessage["value"].default = EmptyText
    BY DEF AnyMessage, Text, Field
  <2>3. DOMAIN <<>> = {}
    OBVIOUS
  <2>4. Read(AnyMessage, Wire(AnyMessage, <<>>))["value"] = AnyMessage["value"].default
    BY <2>1, <2>2, <2>3, WireAddsNothing
  <2> QED BY <2>2, <2>4
<1>7. ASSUME NEW x
      PROVE  Read(ActiveActorsCount, Wire(ActiveActorsCount, [count |-> x])).count = x
  <2> DEFINE message == [count |-> x]
  <2>1. DOMAIN message \subseteq DOMAIN ActiveActorsCount
    BY DEF ActiveActorsCount
  <2>2. \A f \in DOMAIN message :
           Read(ActiveActorsCount, Wire(ActiveActorsCount, message))[f] = message[f]
    BY <1>1, <2>1, ReadBack
  <2> QED BY <2>2
<1>8. ASSUME NEW x
      PROVE  Read(HTTPExtension, Wire(HTTPExtension, [verb |-> x])).verb = x
  <2> DEFINE message == [verb |-> x]
  <2>1. DOMAIN message \subseteq DOMAIN HTTPExtension
    BY DEF HTTPExtension
  <2>2. \A f \in DOMAIN message : Read(HTTPExtension, Wire(HTTPExtension, message))[f]
                                      = message[f]
    BY <1>1, <2>1, ReadBack
  <2> QED BY <2>2
<1> QED BY <1>2, <1>3, <1>4, <1>5, <1>6, <1>7, <1>8

\* What getMetadata is answered with.
LEMMA MetadataTold ==
    ASSUME NEW ask, NEW after, GRPC!Request(ask).rpc = "getMetadata",
           GRPCMeans(ask).reads = <<Metadata, Actors>>
    PROVE  /\ GRPCMessage(ask, after).extendedMetadataMap = [m |-> after[Metadata]]
           /\ GRPCMessage(ask, after).activeActorsCountList =
                  <<Wire(ActiveActorsCount, [count |-> after[Actors].json.number])>>
<1> DEFINE message == [extendedMetadataMap |-> [m |-> after[Metadata]],
                       activeActorsCountList |->
                           <<Wire(ActiveActorsCount, [count |-> after[Actors].json.number])>>]
<1>1. Told(GRPCMeans(ask), after) = <<after[Metadata], after[Actors]>>
  BY DEF Told
<1>2. GRPCAnswerMessage(GRPC!Request(ask), <<after[Metadata], after[Actors]>>) = message
  BY DEF GRPCAnswerMessage
<1>3. GetMetadataResponse \in AllSchemas
  BY DEF AllSchemas
<1>4. /\ DOMAIN message = {"extendedMetadataMap", "activeActorsCountList"}
      /\ DOMAIN message \subseteq DOMAIN GetMetadataResponse
  BY DEF GetMetadataResponse
<1>5. GRPCMessage(ask, after) = Read(GetMetadataResponse, Wire(GetMetadataResponse, message))
  BY <1>1, <1>2, Responses DEF GRPCMessage, GRPCAnswer
<1>6. /\ GRPCMessage(ask, after)["extendedMetadataMap"] = message["extendedMetadataMap"]
      /\ GRPCMessage(ask, after)["activeActorsCountList"] = message["activeActorsCountList"]
  <2> HIDE DEF message
  <2> QED BY <1>3, <1>4, <1>5, ReadBack
<1> QED BY <1>6

\* What getSecret is answered with.
LEMMA SecretTold ==
    ASSUME NEW ask, NEW after, NEW cell, GRPC!Request(ask).rpc = "getSecret",
           GRPCMeans(ask).reads = <<cell>>
    PROVE  GRPCMessage(ask, after).dataMap = [s |-> after[cell]]
<1> DEFINE message == [dataMap |-> [s |-> after[cell]]]
<1>1. Told(GRPCMeans(ask), after) = <<after[cell]>>
  BY DEF Told
<1>2. GRPCAnswerMessage(GRPC!Request(ask), <<after[cell]>>) = message
  BY DEF GRPCAnswerMessage
<1>3. GetSecretResponse \in AllSchemas
  BY DEF AllSchemas
<1>4. DOMAIN message = {"dataMap"} /\ DOMAIN message \subseteq DOMAIN GetSecretResponse
  BY DEF GetSecretResponse
<1>5. GRPCMessage(ask, after) = Read(GetSecretResponse, Wire(GetSecretResponse, message))
  BY <1>1, <1>2, Responses DEF GRPCMessage, GRPCAnswer
<1>6. GRPCMessage(ask, after)["dataMap"] = message["dataMap"]
  <2> HIDE DEF message
  <2> QED BY <1>3, <1>4, <1>5, ReadBack
<1> QED BY <1>6

\* What invokeService is answered with.
LEMMA InvokeTold ==
    ASSUME NEW ask, NEW after, GRPC!Request(ask).rpc = "invokeService"
    PROVE  LET value == Read(AnyMessage, GRPCMessage(ask, after).data).value
           IN /\ GRPCMeans(ask).reads = <<App>> => value = after[App]
              /\ GRPCMeans(ask).reads = <<>> => value = EmptyText
<1> DEFINE texts == Told(GRPCMeans(ask), after)
           data == Wire(AnyMessage, IF texts = <<>> THEN <<>> ELSE [value |-> texts[1]])
           message == [data |-> data]
<1>1. GRPCAnswerMessage(GRPC!Request(ask), texts) = message
  BY DEF GRPCAnswerMessage
<1>2. InvokeResponse \in AllSchemas
  BY DEF AllSchemas
<1>3. DOMAIN message = {"data"} /\ DOMAIN message \subseteq DOMAIN InvokeResponse
  BY DEF InvokeResponse
<1>4. GRPCMessage(ask, after) = Read(InvokeResponse, Wire(InvokeResponse, message))
  BY <1>1, Responses DEF GRPCMessage, GRPCAnswer
<1>5. GRPCMessage(ask, after)["data"] = message["data"]
  <2> HIDE DEF message
  <2> QED BY <1>2, <1>3, <1>4, ReadBack
<1>6. GRPCMessage(ask, after).data = data
  BY <1>5
<1>7. ASSUME GRPCMeans(ask).reads = <<App>>
      PROVE  Read(AnyMessage, data).value = after[App]
  <2>1. texts = <<after[App]>>
    BY <1>7 DEF Told
  <2>2. data = Wire(AnyMessage, [value |-> after[App]])
    BY <2>1
  <2> QED BY <2>2, PartsRead
<1>8. ASSUME GRPCMeans(ask).reads = <<>>
      PROVE  Read(AnyMessage, data).value = EmptyText
  <2>1. texts = <<>>
    BY <1>8 DEF Told
  <2>2. data = Wire(AnyMessage, <<>>)
    BY <2>1
  <2> QED BY <2>2, PartsRead
<1> HIDE DEF data
<1> QED BY <1>6, <1>7, <1>8

\* The verb that travels is the verb of the method.
LEMMA VerbArrives ==
    ASSUME NEW method \in {"get", "post", "put", "delete"}
    PROVE  (CHOOSE verb \in DOMAIN HTTPExtensionVerb :
                HTTPExtensionVerb[verb] = GRPC!Verb(method)) = method
<1>1. method \in DOMAIN HTTPExtensionVerb \ {"patch"}
  BY DEF HTTPExtensionVerb
<1>2. GRPC!Verb(method) = HTTPExtensionVerb[method]
  BY <1>1, SameMessages DEF GRPC!Verb
<1>3. \A verb \in DOMAIN HTTPExtensionVerb :
         HTTPExtensionVerb[verb] = HTTPExtensionVerb[method] => verb = method
  BY DEF HTTPExtensionVerb
<1> QED BY <1>1, <1>2, <1>3

\* A string that is not JSON is sent as it is.
LEMMA PlainIsPrimitive == \A v : IsPlainString(v) => IsEmptyOrPrimitive(v)
<1> SUFFICES ASSUME NEW v, IsPlainString(v) PROVE Falsy(v) => v = String(EmptyText)
  BY DEF IsEmptyOrPrimitive, IsPrimitive
<1>1. DOMAIN v = {"string"}
  BY DEF IsPlainString, IsString
<1> QED BY <1>1 DEF Falsy, Undefined, Null, False, Number

\* A primitive value that is sent as its text, or as none if it is falsy.
LEMMA PrimitiveSent ==
    ASSUME NEW v, IsEmptyOrPrimitive(v), NEW kind, kind \notin UnparsedKinds, NEW name
    PROVE  LET text == IF Falsy(v) THEN EmptyText ELSE ToText(v)
           IN Fits(<<kind, name>>, text) /\ ParseOrKeep(text) = v
<1>1. IsText(ToText(v)) /\ ParseOrKeep(ToText(v)) = v /\ IsJson(v)
  BY PrimitiveReads DEF IsEmptyOrPrimitive
<1>2. CASE Falsy(v)
  BY <1>2, FittingTexts DEF IsEmptyOrPrimitive
<1>3. CASE ~Falsy(v)
  BY <1>1, <1>3 DEF Fits
<1> QED BY <1>2, <1>3

IsNullOrPrimitive(v) == v = Null \/ IsPrimitive(v)

\* A call over gRPC that can be sent does what it promises, and its result is what
\* it promises.
LEMMA GRPCServes ==
    ASSUME NEW ask, WellAsked("grpc", ask), GRPC!Request(ask) # GRPC!Throws
    PROVE  GRPCKeeps(ask)
<1> DEFINE gets == Promise!Gets(ask)
<1>1. \A i \in DOMAIN gets : gets[i] \in DOMAIN Texts
  BY DEF WellAsked
<1>2. CASE ask.op = "get"
  <2> DEFINE message == [storeName |-> PlainText("store"), key |-> PlainText(ask.key)]
             m == Read(GetStateRequest, Wire(GetStateRequest, message))
  <2>1. GRPC!Request(ask) = [rpc |-> "getState", bytes |-> Wire(GetStateRequest, message)]
    BY <1>2, Called, Requests, SameValues DEF GRPC!Request, GRPC!StateGet
  <2>2. m.key = PlainText(ask.key)
    <3>1. GetStateRequest \in AllSchemas
      BY DEF AllSchemas
    <3>2. DOMAIN message \subseteq DOMAIN GetStateRequest
      BY DEF GetStateRequest
    <3>3. \A f \in DOMAIN message : m[f] = message[f]
      BY <3>1, <3>2, ReadBack
    <3> HIDE DEF m
    <3> QED BY <3>3
  <2> HIDE DEF message
  <2>3. GRPCMeans(ask) = Reads(<<"state", ask.key>>)
    BY <2>1, <2>2, Requests DEF GRPCMeans, GRPCMeaning, PlainText
  <2>4. Effects(ask, <<>>)
    BY <1>2, Promised, NoEffect
  <2>5. gets = <<<<"state", ask.key>>>> /\ <<"state", ask.key>> \in DOMAIN Texts
    <3>1. gets = <<<<"state", ask.key>>>>
      BY <1>2, Got
    <3> QED BY <1>1, <3>1
  <2>6. GRPCMeans(ask).reads = <<<<"state", ask.key>>>>
    BY <2>3 DEF Reads
  <2>7. ASSUME NEW after, CellsFit(after)
        PROVE  GRPCTells(ask, after)
    <3>1. GRPCMessage(ask, after).data = after[<<"state", ask.key>>]
      BY <2>1, <2>6, DataTold
    <3>2. GRPC!Result(ask, GRPCMessage(ask, after)) = <<ParseOrKeep(after[<<"state", ask.key>>])>>
      BY <1>2, <3>1, SameValues DEF GRPC!Result
    <3>3. Meant(ParseOrKeep(after[<<"state", ask.key>>]))
              = ParseOrKeep(after[<<"state", ask.key>>])
      BY <2>5, <2>7, MeantAsRead
    <3>4. ResolvesWithCells(ask)
      BY <1>2 DEF ResolvesWithCells
    <3> QED BY <2>5, <2>7, <3>2, <3>3, <3>4, GRPCTellsOne
  <2> QED BY <2>3, <2>4, <2>7 DEF GRPCKeeps, Reads
<1>3. CASE ask.op = "actorGet"
  <2> DEFINE message == [actorType |-> PlainText("type"), actorId |-> PlainText("id"),
                            key |-> PlainText(ask.key)]
             m == Read(GetActorStateRequest, Wire(GetActorStateRequest, message))
  <2>1. GRPC!Request(ask)
            = [rpc |-> "getActorState", bytes |-> Wire(GetActorStateRequest, message)]
    BY <1>3, Called, Requests, SameValues DEF GRPC!Request, GRPC!ActorStateGet
  <2>2. m.key = PlainText(ask.key)
    <3>1. GetActorStateRequest \in AllSchemas
      BY DEF AllSchemas
    <3>2. DOMAIN message \subseteq DOMAIN GetActorStateRequest
      BY DEF GetActorStateRequest
    <3>3. \A f \in DOMAIN message : m[f] = message[f]
      BY <3>1, <3>2, ReadBack
    <3> HIDE DEF m
    <3> QED BY <3>3
  <2> HIDE DEF message
  <2>3. GRPCMeans(ask) = Reads(<<"actor", ask.key>>)
    BY <2>1, <2>2, Requests DEF GRPCMeans, GRPCMeaning, PlainText
  <2>4. Effects(ask, <<>>)
    BY <1>3, Promised, NoEffect
  <2>5. gets = <<<<"actor", ask.key>>>> /\ <<"actor", ask.key>> \in DOMAIN Texts
    <3>1. gets = <<<<"actor", ask.key>>>>
      BY <1>3, Got
    <3> QED BY <1>1, <3>1
  <2>6. GRPCMeans(ask).reads = <<<<"actor", ask.key>>>>
    BY <2>3 DEF Reads
  <2>7. ASSUME NEW after, CellsFit(after)
        PROVE  GRPCTells(ask, after)
    <3>1. GRPCMessage(ask, after).data = after[<<"actor", ask.key>>]
      BY <2>1, <2>6, DataTold
    <3>2. GRPC!Result(ask, GRPCMessage(ask, after)) = <<ParseOrKeep(after[<<"actor", ask.key>>])>>
      BY <1>3, <3>1, SameValues DEF GRPC!Result
    <3>3. Meant(ParseOrKeep(after[<<"actor", ask.key>>]))
              = ParseOrKeep(after[<<"actor", ask.key>>])
      BY <2>5, <2>7, MeantAsRead
    <3>4. ResolvesWithCells(ask)
      BY <1>3 DEF ResolvesWithCells
    <3> QED BY <2>5, <2>7, <3>2, <3>3, <3>4, GRPCTellsOne
  <2> QED BY <2>3, <2>4, <2>7 DEF GRPCKeeps, Reads
<1>4. CASE ask.op = "getBulk"
  <2> DEFINE message == [storeName |-> PlainText("store"), keysList |-> ask.keys,
                            parallelism |-> 10]
             m == Read(GetBulkStateRequest, Wire(GetBulkStateRequest, message))
  <2>1. GRPC!Request(ask) = [rpc |-> "getBulkState", bytes |-> Wire(GetBulkStateRequest, message)]
    BY <1>4, Called, Requests, SameValues DEF GRPC!Request, GRPC!StateGetBulk
  <2>2. m.keysList = ask.keys
    <3>1. GetBulkStateRequest \in AllSchemas
      BY DEF AllSchemas
    <3>2. DOMAIN message \subseteq DOMAIN GetBulkStateRequest
      BY DEF GetBulkStateRequest
    <3>3. \A f \in DOMAIN message : m[f] = message[f]
      BY <3>1, <3>2, ReadBack
    <3> HIDE DEF m
    <3> QED BY <3>3
  <2> HIDE DEF message
  <2>3. GRPCMeans(ask) = ReadsAll("state", ask.keys)
    BY <2>1, <2>2, Requests DEF GRPCMeans, GRPCMeaning, PlainText
  <2>4. Effects(ask, <<>>)
    BY <1>4, Promised, NoEffect
  <2>5. gets = Cells("state", ask.keys)
    BY <1>4, Got
  <2>6. GRPCMeans(ask).reads = gets
    BY <2>3, <2>5 DEF ReadsAll
  <2>7. ASSUME NEW after, CellsFit(after)
        PROVE  GRPCTells(ask, after)
    <3> DEFINE values == [i \in DOMAIN gets |-> ParseOrKeep(after[gets[i]])]
    <3>1. /\ DOMAIN GRPCMessage(ask, after).itemsList = DOMAIN gets
          /\ \A i \in DOMAIN gets :
                Read(BulkStateItem, GRPCMessage(ask, after).itemsList[i]).data = after[gets[i]]
      <4>1. GRPC!Request(ask).rpc = "getBulkState"
        BY <2>1
      <4> HIDE DEF gets
      <4> QED BY <2>6, <4>1, ListTold
    <3>2. GRPC!Result(ask, GRPCMessage(ask, after))
              = GRPC!BulkResult(GRPCMessage(ask, after).itemsList)
      BY <1>4 DEF GRPC!Result
    <3>3. GRPC!BulkResult(GRPCMessage(ask, after).itemsList) = values
      <4> HIDE DEF gets
      <4> QED BY <3>1, SameValues, SameMessages DEF GRPC!BulkResult
    <3>4. \A i \in DOMAIN values : Meant(values[i]) = ParseOrKeep(after[gets[i]])
      <4> SUFFICES ASSUME NEW i \in DOMAIN gets
                              PROVE Meant(ParseOrKeep(after[gets[i]]))
                                        = ParseOrKeep(after[gets[i]])
        OBVIOUS
      <4>1. gets[i] \in DOMAIN Texts
        BY <1>1
      <4> QED BY <2>7, <4>1, MeantAsRead
    <3>5. ResolvesWithCells(ask)
      BY <1>4 DEF ResolvesWithCells
    <3>6. DOMAIN values = DOMAIN gets
      OBVIOUS
    <3> HIDE DEF values
    <3> QED BY <1>1, <2>7, <3>2, <3>3, <3>4, <3>5, <3>6, GRPCTellsAll
  <2> QED BY <2>3, <2>4, <2>7 DEF GRPCKeeps, ReadsAll
<1>5. CASE ask.op = "query"
  <2> DEFINE message == [storeName |-> PlainText("store"), query |-> JsonText(Object(ask.query.object))]
             m == Read(QueryStateRequest, Wire(QueryStateRequest, message))
  <2>1. GRPC!Request(ask)
            = [rpc |-> "queryStateAlpha1", bytes |-> Wire(QueryStateRequest, message)]
    BY <1>5, Called, Requests, SameValues DEF GRPC!Request, GRPC!StateQuery
  <2>2. m.query = JsonText(Object(ask.query.object))
    <3>1. QueryStateRequest \in AllSchemas
      BY DEF AllSchemas
    <3>2. DOMAIN message \subseteq DOMAIN QueryStateRequest
      BY DEF QueryStateRequest
    <3>3. \A f \in DOMAIN message : m[f] = message[f]
      BY <3>1, <3>2, ReadBack
    <3> HIDE DEF m
    <3> QED BY <3>3
  <2> HIDE DEF message
  <2>3. GRPCMeans(ask) = ReadsAll("state", ask.query.object.keys)
    BY <2>1, <2>2, Requests DEF GRPCMeans, GRPCMeaning, JsonText, Object
  <2>4. Effects(ask, <<>>)
    BY <1>5, Promised, NoEffect
  <2>5. gets = Cells("state", ask.query.object.keys)
    BY <1>5, Got
  <2>6. GRPCMeans(ask).reads = gets
    BY <2>3, <2>5 DEF ReadsAll
  <2>7. ASSUME NEW after, CellsFit(after)
        PROVE  GRPCTells(ask, after)
    <3> DEFINE values == [i \in DOMAIN gets |-> Buffer(after[gets[i]])]
    <3>1. /\ DOMAIN GRPCMessage(ask, after).resultsList = DOMAIN gets
          /\ \A i \in DOMAIN gets :
                Read(QueryStateItem, GRPCMessage(ask, after).resultsList[i]).data = after[gets[i]]
      <4>1. GRPC!Request(ask).rpc = "queryStateAlpha1"
        BY <2>1
      <4> HIDE DEF gets
      <4> QED BY <2>6, <4>1, ListTold
    <3>2. GRPC!Result(ask, GRPCMessage(ask, after))
              = GRPC!QueryResult(GRPCMessage(ask, after).resultsList)
      BY <1>5 DEF GRPC!Result
    <3>3. GRPC!QueryResult(GRPCMessage(ask, after).resultsList) = values
      <4> HIDE DEF gets
      <4> QED BY <3>1, SameValues, SameMessages DEF GRPC!QueryResult
    <3>4. \A i \in DOMAIN values : Meant(values[i]) = ParseOrKeep(after[gets[i]])
      <4> SUFFICES ASSUME NEW i \in DOMAIN gets
                              PROVE Meant(Buffer(after[gets[i]])) = ParseOrKeep(after[gets[i]])
        OBVIOUS
      <4>1. gets[i] \in DOMAIN Texts
        BY <1>1
      <4> QED BY <2>7, <4>1, MeantAsRead
    <3>5. ResolvesWithCells(ask)
      BY <1>5 DEF ResolvesWithCells
    <3>6. DOMAIN values = DOMAIN gets
      OBVIOUS
    <3> HIDE DEF values
    <3> QED BY <1>1, <2>7, <3>2, <3>3, <3>4, <3>5, <3>6, GRPCTellsAll
  <2> QED BY <2>3, <2>4, <2>7 DEF GRPCKeeps, ReadsAll
<1>6. CASE ask.op = "configurationGet"
  <2> DEFINE keys == SelectSeq(ask.keys, LAMBDA k : k # "")
             message == [storeName |-> PlainText("store"), keysList |-> keys]
             m == Read(GetConfigurationRequest, Wire(GetConfigurationRequest, message))
  <2>1. GRPC!Request(ask)
            = [rpc |-> "getConfigurationAlpha1", bytes |-> Wire(GetConfigurationRequest, message)]
    BY <1>6, Called, Requests, SameValues DEF GRPC!Request, GRPC!ConfigurationGet
  <2>2. m.keysList = keys
    <3>1. GetConfigurationRequest \in AllSchemas
      BY DEF AllSchemas
    <3>2. DOMAIN message \subseteq DOMAIN GetConfigurationRequest
      BY DEF GetConfigurationRequest
    <3>3. \A f \in DOMAIN message : m[f] = message[f]
      BY <3>1, <3>2, ReadBack
    <3> HIDE DEF m
    <3> QED BY <3>3
  <2> HIDE DEF message, keys
  <2>3. GRPCMeans(ask) = ReadsAll("configuration", keys)
    BY <2>1, <2>2, Requests DEF GRPCMeans, GRPCMeaning, PlainText
  <2>4. Effects(ask, <<>>)
    BY <1>6, Promised, NoEffect
  <2>5. gets = Cells("configuration", keys)
    BY <1>6, Got DEF keys
  <2>6. GRPCMeans(ask).reads = gets
    BY <2>3, <2>5 DEF ReadsAll
  <2>7. ASSUME NEW after, CellsFit(after)
        PROVE  GRPCTells(ask, after)
    <3> DEFINE values == [i \in DOMAIN gets |-> String(after[gets[i]])]
    <3>1. /\ DOMAIN GRPCMessage(ask, after).itemsList = DOMAIN gets
          /\ \A i \in DOMAIN gets :
                Read(ConfigurationItem, GRPCMessage(ask, after).itemsList[i]).value
                    = after[gets[i]]
      <4>1. GRPC!Request(ask).rpc = "getConfigurationAlpha1"
        BY <2>1
      <4> HIDE DEF gets
      <4> QED BY <2>6, <4>1, ListTold
    <3>2. GRPC!Result(ask, GRPCMessage(ask, after))
              = GRPC!ConfigurationResult(GRPCMessage(ask, after).itemsList)
      BY <1>6 DEF GRPC!Result
    <3>3. GRPC!ConfigurationResult(GRPCMessage(ask, after).itemsList) = values
      <4> HIDE DEF gets
      <4> QED BY <3>1, SameValues, SameMessages DEF GRPC!ConfigurationResult
    <3>4. \A i \in DOMAIN values : Meant(values[i]) = ParseOrKeep(after[gets[i]])
      <4> SUFFICES ASSUME NEW i \in DOMAIN gets
                              PROVE Meant(String(after[gets[i]])) = ParseOrKeep(after[gets[i]])
        OBVIOUS
      <4>1. gets[i] \in DOMAIN Texts /\ gets[i][1] \in UnparsedKinds
        BY <1>1, <2>5 DEF Cells, UnparsedKinds
      <4> QED BY <2>7, <4>1, MeantAsRead
    <3>5. ResolvesWithCells(ask)
      BY <1>6 DEF ResolvesWithCells
    <3>6. DOMAIN values = DOMAIN gets
      OBVIOUS
    <3> HIDE DEF values
    <3> QED BY <1>1, <2>7, <3>2, <3>3, <3>4, <3>5, <3>6, GRPCTellsAll
  <2> QED BY <2>3, <2>4, <2>7 DEF GRPCKeeps, ReadsAll
<1>7. CASE ask.op = "secretGet"
  <2> DEFINE message == [storeName |-> PlainText("store"), key |-> PlainText(ask.key)]
             m == Read(GetSecretRequest, Wire(GetSecretRequest, message))
  <2>1. GRPC!Request(ask) = [rpc |-> "getSecret", bytes |-> Wire(GetSecretRequest, message)]
    BY <1>7, Called, Requests, SameValues DEF GRPC!Request, GRPC!SecretGet
  <2>2. m.key = PlainText(ask.key)
    <3>1. GetSecretRequest \in AllSchemas
      BY DEF AllSchemas
    <3>2. DOMAIN message \subseteq DOMAIN GetSecretRequest
      BY DEF GetSecretRequest
    <3>3. \A f \in DOMAIN message : m[f] = message[f]
      BY <3>1, <3>2, ReadBack
    <3> HIDE DEF m
    <3> QED BY <3>3
  <2> HIDE DEF message
  <2>3. GRPCMeans(ask) = Reads(<<"secret", ask.key>>)
    BY <2>1, <2>2, Requests DEF GRPCMeans, GRPCMeaning, PlainText
  <2>4. Effects(ask, <<>>)
    BY <1>7, Promised, NoEffect
  <2>5. gets = <<<<"secret", ask.key>>>> /\ <<"secret", ask.key>> \in DOMAIN Texts
    <3>1. gets = <<<<"secret", ask.key>>>>
      BY <1>7, Got
    <3> QED BY <1>1, <3>1
  <2>6. GRPCMeans(ask).reads = <<<<"secret", ask.key>>>>
    BY <2>3 DEF Reads
  <2>7. ASSUME NEW after, CellsFit(after)
        PROVE  GRPCTells(ask, after)
    <3>1. GRPC!MapResult(GRPCMessage(ask, after).dataMap)
              = <<String(after[<<"secret", ask.key>>])>>
      <4>1. GRPCMessage(ask, after).dataMap = [s |-> after[<<"secret", ask.key>>]]
        BY <2>1, <2>6, SecretTold
      <4> QED BY <4>1, OneEntry
    <3>2. GRPC!Result(ask, GRPCMessage(ask, after)) = <<String(after[<<"secret", ask.key>>])>>
      BY <1>7, <3>1, SameValues DEF GRPC!Result
    <3>3. Meant(String(after[<<"secret", ask.key>>])) = ParseOrKeep(after[<<"secret", ask.key>>])
      BY <2>5, <2>7, MeantAsRead DEF UnparsedKinds
    <3>4. ResolvesWithCells(ask)
      BY <1>7 DEF ResolvesWithCells
    <3> QED BY <2>5, <2>7, <3>2, <3>3, <3>4, GRPCTellsOne
  <2> QED BY <2>3, <2>4, <2>7 DEF GRPCKeeps, Reads
<1>8. CASE ask.op = "metadataGet"
  <2>1. GRPC!Request(ask) = [rpc |-> "getMetadata", bytes |-> Wire(Empty, <<>>)]
    BY <1>8, Called, Requests DEF GRPC!Request, GRPC!MetadataGet
  <2>2. GRPCMeans(ask) = [writes |-> <<>>, reads |-> <<Metadata, Actors>>]
    BY <2>1 DEF GRPCMeans, GRPCMeaning
  <2>3. Effects(ask, <<>>)
    BY <1>8, Promised, NoEffect
  <2>4. gets = <<Metadata>> /\ Metadata \in DOMAIN Texts
    <3>1. gets = <<Metadata>>
      BY <1>8, Got
    <3> QED BY <1>1, <3>1
  <2>5. ASSUME NEW after, CellsFit(after)
        PROVE  GRPCTells(ask, after)
    <3>1. GRPC!MapResult(GRPCMessage(ask, after).extendedMetadataMap)
              = <<String(after[Metadata])>>
      <4>1. GRPCMessage(ask, after).extendedMetadataMap = [m |-> after[Metadata]]
        <5>1. GRPC!Request(ask).rpc = "getMetadata" /\ GRPCMeans(ask).reads = <<Metadata, Actors>>
          BY <2>1, <2>2
        <5> QED BY <5>1, MetadataTold
      <4> QED BY <4>1, OneEntry
    <3>2. GRPC!Result(ask, GRPCMessage(ask, after)) = <<String(after[Metadata])>>
      BY <1>8, <3>1 DEF GRPC!Result
    <3>3. Meant(String(after[Metadata])) = ParseOrKeep(after[Metadata])
      BY <2>4, <2>5, MeantAsRead DEF Metadata, UnparsedKinds
    <3>4. ResolvesWithCells(ask)
      BY <1>8 DEF ResolvesWithCells
    <3> QED BY <2>4, <2>5, <3>2, <3>3, <3>4, GRPCTellsOne
  <2> QED BY <2>2, <2>3, <2>5 DEF GRPCKeeps
<1>9. CASE ask.op = "isHealthy"
  <2>1. GRPC!Request(ask) = [rpc |-> "getMetadata", bytes |-> Wire(Empty, <<>>)]
    BY <1>9, Called, Requests DEF GRPC!Request, GRPC!HealthIsHealthy
  <2>2. GRPCMeans(ask) = [writes |-> <<>>, reads |-> <<Metadata, Actors>>]
    BY <2>1 DEF GRPCMeans, GRPCMeaning
  <2>3. Effects(ask, <<>>)
    BY <1>9, Promised, NoEffect
  <2> QED BY <1>9, <2>2, <2>3, GRPCTellsNothing DEF GRPCKeeps
<1>10. CASE ask.op = "getActors"
  <2>1. GRPC!Request(ask) = [rpc |-> "getMetadata", bytes |-> Wire(Empty, <<>>)]
    BY <1>10, Called, Requests DEF GRPC!Request, GRPC!GetActors
  <2>2. GRPCMeans(ask) = [writes |-> <<>>, reads |-> <<Metadata, Actors>>]
    BY <2>1 DEF GRPCMeans, GRPCMeaning
  <2>3. Effects(ask, <<>>)
    BY <1>10, Promised, NoEffect
  <2>4. gets = <<Actors>> /\ Actors \in DOMAIN Texts
    <3>1. gets = <<Actors>>
      BY <1>10, Got
    <3> QED BY <1>1, <3>1
  <2>5. ASSUME NEW after, CellsFit(after)
        PROVE  GRPCTells(ask, after)
    <3> DEFINE count == after[Actors].json.number
               counted == <<Wire(ActiveActorsCount, [count |-> count])>>
    <3>1. GRPCMessage(ask, after).activeActorsCountList = counted
      <4>1. GRPC!Request(ask).rpc = "getMetadata" /\ GRPCMeans(ask).reads = <<Metadata, Actors>>
        BY <2>1, <2>2
      <4> QED BY <4>1, MetadataTold
    <3>2. GRPC!ActorsResult(counted) = <<Number(count)>>
      <4>1. DOMAIN counted = {1} /\ Read(ActiveActorsCount, counted[1]).count = count
        BY PartsRead
      <4> HIDE DEF counted
      <4> QED BY <4>1, SameValues, SameMessages DEF GRPC!ActorsResult
    <3>3. GRPC!Result(ask, GRPCMessage(ask, after)) = <<Number(count)>>
      BY <1>10, <3>1, <3>2 DEF GRPC!Result
    <3>4. after[Actors] = JsonText(Number(count))
      BY <2>5, TextsAssumption DEF CellsFit
    <3>5. ParseOrKeep(after[Actors]) = Number(count)
      BY <3>4, FittingTexts
    <3>6. Meant(Number(count)) = Number(count)
      BY DEF Meant, IsBuffer, Number
    <3>7. ResolvesWithCells(ask)
      BY <1>10 DEF ResolvesWithCells
    <3> HIDE DEF count
    <3> QED BY <2>4, <2>5, <3>3, <3>5, <3>6, <3>7, GRPCTellsOne
  <2> QED BY <2>2, <2>3, <2>5 DEF GRPCKeeps
<1>11. CASE ask.op = "shutdown"
  <2>1. GRPC!Request(ask) = [rpc |-> "shutdown", bytes |-> Wire(Empty, <<>>)]
    BY <1>11, Called, Requests DEF GRPC!Request, GRPC!SidecarShutdown
  <2>2. GRPCMeans(ask) = Nothing
    BY <2>1 DEF GRPCMeans, GRPCMeaning
  <2>3. Effects(ask, <<>>)
    BY <1>11, Promised, NoEffect
  <2> QED BY <1>11, <2>2, <2>3, GRPCTellsNothing DEF GRPCKeeps, Nothing
<1>12. CASE ask.op = "delete"
  <2> DEFINE message == [storeName |-> PlainText("store"), key |-> PlainText(ask.key)]
             m == Read(DeleteStateRequest, Wire(DeleteStateRequest, message))
  <2>1. GRPC!Request(ask) = [rpc |-> "deleteState", bytes |-> Wire(DeleteStateRequest, message)]
    BY <1>12, Called, Requests, SameValues DEF GRPC!Request, GRPC!StateDelete
  <2>2. m.key = PlainText(ask.key)
    <3>1. DeleteStateRequest \in AllSchemas
      BY DEF AllSchemas
    <3>2. DOMAIN message \subseteq DOMAIN DeleteStateRequest
      BY DEF DeleteStateRequest
    <3>3. \A f \in DOMAIN message : m[f] = message[f]
      BY <3>1, <3>2, ReadBack
    <3> HIDE DEF m
    <3> QED BY <3>3
  <2> HIDE DEF message
  <2>3. GRPCMeans(ask) = Writes(<<"state", ask.key>>, EmptyText)
    BY <2>1, <2>2, Requests DEF GRPCMeans, GRPCMeaning, PlainText
  <2>4. Fits(<<"state", ask.key>>, EmptyText)
            /\ Promise!Sets(ask) = Single(<<"state", ask.key>>, ParseOrKeep(EmptyText))
    BY <1>12, Promised, FittingTexts DEF UnparsedKinds
  <2>5. Effects(ask, Single(<<"state", ask.key>>, EmptyText))
    BY <2>4, OneEffect
  <2> QED BY <1>12, <2>3, <2>5, GRPCTellsNothing DEF GRPCKeeps, Writes
<1>13. CASE ask.op = "publish"
  <2> DEFINE data == OrEmpty(ask.data)
  <2>0. IsJson(data)
    BY <1>13 DEF WellAsked, Passed, PassedOverGRPC
  <2> DEFINE message == [pubsubName |-> PlainText("pubsub"), topic |-> PlainText("topic"),
                            data |-> JsonText(data)]
             m == Read(PublishEventRequest, Wire(PublishEventRequest, message))
  <2>1. GRPC!Request(ask) = [rpc |-> "publishEvent", bytes |-> Wire(PublishEventRequest, message)]
    BY <1>13, <2>0, Called, Requests, SameValues DEF GRPC!Request, GRPC!PubSubPublish
  <2>2. m.data = JsonText(data)
    <3>1. PublishEventRequest \in AllSchemas
      BY DEF AllSchemas
    <3>2. DOMAIN message \subseteq DOMAIN PublishEventRequest
      BY DEF PublishEventRequest
    <3>3. \A f \in DOMAIN message : m[f] = message[f]
      BY <3>1, <3>2, ReadBack
    <3> HIDE DEF m
    <3> QED BY <3>3
  <2> HIDE DEF message
  <2>3. GRPCMeans(ask) = Writes(Topic, JsonText(data))
    BY <2>1, <2>2, Requests DEF GRPCMeans, GRPCMeaning, PlainText
  <2>4. Fits(Topic, JsonText(data))
            /\ Promise!Sets(ask) = Single(Topic, ParseOrKeep(JsonText(data)))
    BY <1>13, <2>0, Promised, FittingTexts DEF UnparsedKinds, Topic
  <2>5. Effects(ask, Single(Topic, JsonText(data)))
    BY <2>4, OneEffect DEF Topic
  <2> QED BY <1>13, <2>3, <2>5, GRPCTellsNothing DEF GRPCKeeps, Writes
<1>14. CASE ask.op = "metadataSet"
  <2> DEFINE message == [key |-> PlainText(ask.key), value |-> ask.value.string]
             m == Read(SetMetadataRequest, Wire(SetMetadataRequest, message))
  <2>1. GRPC!Request(ask) = [rpc |-> "setMetadata", bytes |-> Wire(SetMetadataRequest, message)]
    BY <1>14, Called, Requests, SameValues DEF GRPC!Request, GRPC!MetadataSet
  <2>2. m.key = PlainText(ask.key) /\ m.value = ask.value.string
    <3>1. SetMetadataRequest \in AllSchemas
      BY DEF AllSchemas
    <3>2. DOMAIN message \subseteq DOMAIN SetMetadataRequest
      BY DEF SetMetadataRequest
    <3>3. \A f \in DOMAIN message : m[f] = message[f]
      BY <3>1, <3>2, ReadBack
    <3> HIDE DEF m
    <3> QED BY <3>3
  <2> HIDE DEF message
  <2>3. GRPCMeans(ask) = Writes(<<"metadata", ask.key>>, ask.value.string)
    BY <2>1, <2>2, Requests DEF GRPCMeans, GRPCMeaning, PlainText
  <2>4. Fits(<<"metadata", ask.key>>, ask.value.string)
            /\ Promise!Sets(ask) = Single(<<"metadata", ask.key>>, ParseOrKeep(ask.value.string))
    <3>1. IsPlainString(ask.value)
      BY <1>14 DEF WellAsked, Passed, PassedOverGRPC
    <3> QED BY <1>14, <3>1, Promised, FittingTexts DEF UnparsedKinds
  <2>5. Effects(ask, Single(<<"metadata", ask.key>>, ask.value.string))
    BY <2>4, OneEffect
  <2> QED BY <1>14, <2>3, <2>5, GRPCTellsNothing DEF GRPCKeeps, Writes
<1>15. CASE ask.op = "unregisterReminder"
  <2> DEFINE message == [actorType |-> PlainText("type"), actorId |-> PlainText("id"),
                            name |-> PlainText(ask.name)]
             m == Read(UnregisterActorReminderRequest,
                      Wire(UnregisterActorReminderRequest, message))
  <2>1. GRPC!Request(ask)
            = [rpc |-> "unregisterActorReminder",
                bytes |-> Wire(UnregisterActorReminderRequest, message)]
    BY <1>15, Called, Requests, SameValues DEF GRPC!Request, GRPC!UnregisterActorReminder
  <2>2. m.name = PlainText(ask.name)
    <3>1. UnregisterActorReminderRequest \in AllSchemas
      BY DEF AllSchemas
    <3>2. DOMAIN message \subseteq DOMAIN UnregisterActorReminderRequest
      BY DEF UnregisterActorReminderRequest
    <3>3. \A f \in DOMAIN message : m[f] = message[f]
      BY <3>1, <3>2, ReadBack
    <3> HIDE DEF m
    <3> QED BY <3>3
  <2> HIDE DEF message
  <2>3. GRPCMeans(ask) = Writes(<<"reminder", ask.name>>, EmptyText)
    BY <2>1, <2>2, Requests DEF GRPCMeans, GRPCMeaning, PlainText
  <2>4. Fits(<<"reminder", ask.name>>, EmptyText)
            /\ Promise!Sets(ask) = Single(<<"reminder", ask.name>>, ParseOrKeep(EmptyText))
    BY <1>15, Promised, FittingTexts DEF UnparsedKinds
  <2>5. Effects(ask, Single(<<"reminder", ask.name>>, EmptyText))
    BY <2>4, OneEffect
  <2> QED BY <1>15, <2>3, <2>5, GRPCTellsNothing DEF GRPCKeeps, Writes
<1>16. CASE ask.op = "unregisterTimer"
  <2> DEFINE message == [actorType |-> PlainText("type"), actorId |-> PlainText("id"),
                            name |-> PlainText(ask.name)]
             m == Read(UnregisterActorTimerRequest, Wire(UnregisterActorTimerRequest, message))
  <2>1. GRPC!Request(ask)
            = [rpc |-> "unregisterActorTimer",
                bytes |-> Wire(UnregisterActorTimerRequest, message)]
    BY <1>16, Called, Requests, SameValues DEF GRPC!Request, GRPC!UnregisterActorTimer
  <2>2. m.name = PlainText(ask.name)
    <3>1. UnregisterActorTimerRequest \in AllSchemas
      BY DEF AllSchemas
    <3>2. DOMAIN message \subseteq DOMAIN UnregisterActorTimerRequest
      BY DEF UnregisterActorTimerRequest
    <3>3. \A f \in DOMAIN message : m[f] = message[f]
      BY <3>1, <3>2, ReadBack
    <3> HIDE DEF m
    <3> QED BY <3>3
  <2> HIDE DEF message
  <2>3. GRPCMeans(ask) = Writes(<<"timer", ask.name>>, EmptyText)
    BY <2>1, <2>2, Requests DEF GRPCMeans, GRPCMeaning, PlainText
  <2>4. Fits(<<"timer", ask.name>>, EmptyText)
            /\ Promise!Sets(ask) = Single(<<"timer", ask.name>>, ParseOrKeep(EmptyText))
    BY <1>16, Promised, FittingTexts DEF UnparsedKinds
  <2>5. Effects(ask, Single(<<"timer", ask.name>>, EmptyText))
    BY <2>4, OneEffect
  <2> QED BY <1>16, <2>3, <2>5, GRPCTellsNothing DEF GRPCKeeps, Writes
<1>17. CASE ask.op = "registerReminder"
  <2> DEFINE text == IF Falsy(ask.data) THEN EmptyText ELSE ToText(ask.data)
             message == [actorType |-> PlainText("type"), actorId |-> PlainText("id"),
                            name |-> PlainText(ask.name), period |-> PlainText("period"),
                                data |-> text]
             m == Read(RegisterActorReminderRequest, Wire(RegisterActorReminderRequest, message))
  <2>1. GRPC!Request(ask)
            = [rpc |-> "registerActorReminder",
                bytes |-> Wire(RegisterActorReminderRequest, message)]
    BY <1>17, Called, Requests, SameValues DEF GRPC!Request, GRPC!RegisterActorReminder
  <2>2. m.name = PlainText(ask.name) /\ m.data = text
    <3>1. RegisterActorReminderRequest \in AllSchemas
      BY DEF AllSchemas
    <3>2. DOMAIN message \subseteq DOMAIN RegisterActorReminderRequest
      BY DEF RegisterActorReminderRequest
    <3>3. \A f \in DOMAIN message : m[f] = message[f]
      BY <3>1, <3>2, ReadBack
    <3> HIDE DEF m
    <3> QED BY <3>3
  <2> HIDE DEF message
  <2>3. GRPCMeans(ask) = Writes(<<"reminder", ask.name>>, text)
    BY <2>1, <2>2, Requests DEF GRPCMeans, GRPCMeaning, PlainText
  <2>4. Fits(<<"reminder", ask.name>>, text)
            /\ Promise!Sets(ask) = Single(<<"reminder", ask.name>>, ParseOrKeep(text))
    <3>1. IsEmptyOrPrimitive(ask.data)
      BY <1>17, PlainIsPrimitive DEF WellAsked, Passed, PassedOverGRPC
    <3>2. Fits(<<"reminder", ask.name>>, text) /\ ParseOrKeep(text) = ask.data
      BY <3>1, PrimitiveSent DEF UnparsedKinds
    <3> QED BY <1>17, <3>2, Promised
  <2>5. Effects(ask, Single(<<"reminder", ask.name>>, text))
    BY <2>4, OneEffect
  <2> QED BY <1>17, <2>3, <2>5, GRPCTellsNothing DEF GRPCKeeps, Writes
<1>18. CASE ask.op = "registerTimer"
  <2> DEFINE text == IF Falsy(ask.data) THEN EmptyText ELSE ToText(ask.data)
             message == [actorType |-> PlainText("type"), actorId |-> PlainText("id"),
                            name |-> PlainText(ask.name), callback |-> PlainText("callback"),
                                period |-> PlainText("period"), data |-> text]
             m == Read(RegisterActorTimerRequest, Wire(RegisterActorTimerRequest, message))
  <2>1. GRPC!Request(ask)
            = [rpc |-> "registerActorTimer", bytes |-> Wire(RegisterActorTimerRequest, message)]
    <3>1. GRPC!Request(ask) = GRPC!RegisterActorTimer(ask)
      BY <1>18 DEF GRPC!Request
    <3> QED BY <3>1, Called, Requests, SameValues DEF GRPC!RegisterActorTimer
  <2>2. m.name = PlainText(ask.name) /\ m.data = text
    <3>1. RegisterActorTimerRequest \in AllSchemas
      BY DEF AllSchemas
    <3>2. DOMAIN message \subseteq DOMAIN RegisterActorTimerRequest
      BY DEF RegisterActorTimerRequest
    <3>3. \A f \in DOMAIN message : m[f] = message[f]
      BY <3>1, <3>2, ReadBack
    <3> HIDE DEF m
    <3> QED BY <3>3
  <2> HIDE DEF message
  <2>3. GRPCMeans(ask) = Writes(<<"timer", ask.name>>, text)
    BY <2>1, <2>2, Requests DEF GRPCMeans, GRPCMeaning, PlainText
  <2>4. Fits(<<"timer", ask.name>>, text)
            /\ Promise!Sets(ask) = Single(<<"timer", ask.name>>, ParseOrKeep(text))
    <3>1. IsEmptyOrPrimitive(ask.data)
      BY <1>18, PlainIsPrimitive DEF WellAsked, Passed, PassedOverGRPC
    <3>2. Fits(<<"timer", ask.name>>, text) /\ ParseOrKeep(text) = ask.data
      BY <3>1, PrimitiveSent DEF UnparsedKinds
    <3> QED BY <1>18, <3>2, Promised
  <2>5. Effects(ask, Single(<<"timer", ask.name>>, text))
    BY <2>4, OneEffect
  <2> QED BY <1>18, <2>3, <2>5, GRPCTellsNothing DEF GRPCKeeps, Writes
<1>19. CASE ask.op = "send"
  <2>0. IsJson(ask.data) /\ ask.data # Undefined
    BY <1>19, JsonIsNoBuffer DEF WellAsked, Passed, PassedOverGRPC
  <2> DEFINE message == [name |-> PlainText("binding"), operation |-> PlainText("create"),
                            data |-> JsonText(ask.data)]
             m == Read(InvokeBindingRequest, Wire(InvokeBindingRequest, message))
  <2>1. GRPC!Request(ask)
            = [rpc |-> "invokeBinding", bytes |-> Wire(InvokeBindingRequest, message)]
    <3>1. GRPC!Request(ask) = GRPC!BindingSend(ask)
      BY <1>19 DEF GRPC!Request
    <3> QED BY <2>0, <3>1, Called, Requests, SameValues DEF GRPC!BindingSend
  <2>2. m.data = JsonText(ask.data)
    <3>1. InvokeBindingRequest \in AllSchemas
      BY DEF AllSchemas
    <3>2. DOMAIN message \subseteq DOMAIN InvokeBindingRequest
      BY DEF InvokeBindingRequest
    <3>3. \A f \in DOMAIN message : m[f] = message[f]
      BY <3>1, <3>2, ReadBack
    <3> HIDE DEF m
    <3> QED BY <3>3
  <2> HIDE DEF message
  <2>3. GRPCMeans(ask) = Hears(Binding, JsonText(ask.data))
    BY <2>1, <2>2, Requests DEF GRPCMeans, GRPCMeaning
  <2>4. Fits(Binding, JsonText(ask.data))
            /\ Promise!Sets(ask) = Single(Binding, ParseOrKeep(JsonText(ask.data)))
    BY <1>19, <2>0, Promised, FittingTexts DEF UnparsedKinds, Binding
  <2>5. Effects(ask, Single(Binding, JsonText(ask.data)))
    BY <2>4, OneEffect DEF Binding
  <2>6. gets = <<Binding>> /\ Binding \in DOMAIN Texts
    <3>1. gets = <<Binding>>
      BY <1>19, Got
    <3> QED BY <1>1, <3>1
  <2>7. GRPCMeans(ask).reads = <<Binding>>
    BY <2>3 DEF Hears
  <2>8. ASSUME NEW after, CellsFit(after)
        PROVE  GRPCTells(ask, after)
    <3>1. GRPCMessage(ask, after).data = after[Binding]
      BY <2>1, <2>7, DataTold
    <3>2. GRPC!Result(ask, GRPCMessage(ask, after)) = <<Buffer(after[Binding])>>
      BY <1>19, <3>1, SameValues DEF GRPC!Result
    <3>3. Meant(Buffer(after[Binding])) = ParseOrKeep(after[Binding])
      BY <2>6, <2>8, MeantAsRead
    <3>4. ResolvesWithCells(ask)
      BY <1>19 DEF ResolvesWithCells
    <3> QED BY <2>6, <2>8, <3>2, <3>3, <3>4, GRPCTellsOne
  <2> QED BY <2>3, <2>5, <2>8 DEF GRPCKeeps, Hears
<1>20. CASE ask.op = "actorInvoke"
  <2> DEFINE bytes == IF Falsy(ask.data) THEN EmptyText ELSE ask.data.buffer
  <2>0. /\ IsBytes(ask.data) \/ ask.data = String(EmptyText)
        /\ IsBytes(ask.data) => ~Falsy(ask.data) /\ ~IsString(ask.data)
        /\ ask.data = String(EmptyText) => Falsy(ask.data)
    <3>1. IsBytes(ask.data) \/ ask.data = String(EmptyText)
      BY <1>20 DEF WellAsked, Passed, PassedOverGRPC
    <3>2. IsBytes(ask.data) => DOMAIN ask.data = {"buffer"}
      BY DEF IsBytes, IsBuffer
    <3> QED BY <3>1, <3>2 DEF Falsy, IsString, Undefined, Null, False, Number, String
  <2> DEFINE message == [actorType |-> PlainText("type"), actorId |-> PlainText("id"),
                            method |-> PlainText("method"), data |-> bytes]
             m == Read(InvokeActorRequest, Wire(InvokeActorRequest, message))
  <2>1. GRPC!Request(ask) = [rpc |-> "invokeActor", bytes |-> Wire(InvokeActorRequest, message)]
    <3>1. GRPC!Request(ask) = GRPC!ActorInvoke(ask)
      BY <1>20 DEF GRPC!Request
    <3>2. CASE IsBytes(ask.data)
      BY <2>0, <3>1, <3>2, Called, Requests, SameValues DEF GRPC!ActorInvoke, IsBytes
    <3>3. CASE ask.data = String(EmptyText)
      BY <2>0, <3>1, <3>3, Called, Requests, SameValues DEF GRPC!ActorInvoke
    <3> QED BY <2>0, <3>2, <3>3
  <2>2. m.data = bytes
    <3>1. InvokeActorRequest \in AllSchemas
      BY DEF AllSchemas
    <3>2. DOMAIN message \subseteq DOMAIN InvokeActorRequest
      BY DEF InvokeActorRequest
    <3>3. \A f \in DOMAIN message : m[f] = message[f]
      BY <3>1, <3>2, ReadBack
    <3> HIDE DEF m
    <3> QED BY <3>3
  <2> HIDE DEF message, bytes
  <2>3. GRPCMeans(ask) = Hears(Actor, bytes)
    BY <2>1, <2>2, Requests DEF GRPCMeans, GRPCMeaning
  <2>4. Fits(Actor, bytes) /\ Promise!Sets(ask) = Single(Actor, ParseOrKeep(bytes))
    <3>1. CASE IsBytes(ask.data)
      <4>1. bytes = ask.data.buffer /\ IsBuffer(ask.data)
        BY <2>0, <3>1 DEF IsBytes, bytes
      <4>2. Fits(Actor, bytes)
        BY <3>1, <4>1 DEF IsBytes, Fits, Actor, UnparsedKinds
      <4> QED BY <1>20, <4>1, <4>2, Promised
    <3>2. CASE ask.data = String(EmptyText)
      <4>1. bytes = EmptyText /\ ~IsBuffer(ask.data)
        BY <2>0, <3>2 DEF IsBuffer, String, bytes
      <4> QED BY <1>20, <3>2, <4>1, Promised, FittingTexts DEF Actor
    <3> QED BY <2>0, <3>1, <3>2
  <2>5. Effects(ask, Single(Actor, bytes))
    BY <2>4, OneEffect DEF Actor
  <2>6. gets = <<Actor>> /\ Actor \in DOMAIN Texts
    <3>1. gets = <<Actor>>
      BY <1>20, Got
    <3> QED BY <1>1, <3>1
  <2>7. GRPCMeans(ask).reads = <<Actor>>
    BY <2>3 DEF Hears
  <2>8. ASSUME NEW after, CellsFit(after)
        PROVE  GRPCTells(ask, after)
    <3>1. GRPCMessage(ask, after).data = after[Actor]
      BY <2>1, <2>7, DataTold
    <3>2. GRPC!Result(ask, GRPCMessage(ask, after)) = <<ParseOrKeep(after[Actor])>>
      BY <1>20, <3>1, SameValues DEF GRPC!Result
    <3>3. Meant(ParseOrKeep(after[Actor])) = ParseOrKeep(after[Actor])
      BY <2>6, <2>8, MeantAsRead
    <3>4. ResolvesWithCells(ask)
      BY <1>20 DEF ResolvesWithCells
    <3> QED BY <2>6, <2>8, <3>2, <3>3, <3>4, GRPCTellsOne
  <2> QED BY <2>3, <2>5, <2>8 DEF GRPCKeeps, Hears
<1>21. CASE ask.op = "invoke"
  <2> DEFINE data == OrEmpty(ask.data)
  <2>5. ask.method \in {"get", "post", "put", "delete"} /\ IsJson(data)
    BY <1>21 DEF WellAsked, Passed, PassedOverGRPC
  <2> DEFINE extension == Wire(HTTPExtension, [verb |-> GRPC!Verb(ask.method)])
             body == Wire(AnyMessage, [value |-> JsonText(data)])
             inner == [method |-> PlainText("method"), httpExtension |-> extension, data |-> body,
                       contentType |-> PlainText("application/json")]
             invocation == Wire(InvokeRequest, inner)
             message == [id |-> PlainText("app"), message |-> invocation]
  <2>1. GRPC!Request(ask)
            = [rpc |-> "invokeService", bytes |-> Wire(InvokeServiceRequest, message)]
    BY <1>21, <2>5, Called, Requests, SameValues, SameMessages DEF GRPC!Request, GRPC!InvokerInvoke
  <2>2. Read(InvokeServiceRequest, Wire(InvokeServiceRequest, message)).message = invocation
    <3> HIDE DEF invocation
    <3>1. InvokeServiceRequest \in AllSchemas
      BY DEF AllSchemas
    <3>2. DOMAIN message \subseteq DOMAIN InvokeServiceRequest
      BY DEF InvokeServiceRequest
    <3>3. \A f \in DOMAIN message :
             Read(InvokeServiceRequest, Wire(InvokeServiceRequest, message))[f] = message[f]
      BY <3>1, <3>2, ReadBack
    <3> QED BY <3>3
  <2>3. /\ Read(InvokeRequest, invocation).httpExtension = extension
        /\ Read(InvokeRequest, invocation).data = body
    <3> HIDE DEF extension, body
    <3>1. InvokeRequest \in AllSchemas
      BY DEF AllSchemas
    <3>2. DOMAIN inner \subseteq DOMAIN InvokeRequest
      BY DEF InvokeRequest
    <3>3. \A f \in DOMAIN inner : Read(InvokeRequest, Wire(InvokeRequest, inner))[f] = inner[f]
      BY <3>1, <3>2, ReadBack
    <3> QED BY <3>3
  <2>4. /\ Read(HTTPExtension, extension).verb = GRPC!Verb(ask.method)
        /\ Read(AnyMessage, body).value = JsonText(data)
    BY PartsRead
  <2> HIDE DEF extension, body, invocation, message
  <2>6. GRPCMeans(ask) = Invoked(ask.method, JsonText(data))
    <3>1. GRPCMeans(ask)
              = GRPCInvoked(Read(InvokeServiceRequest, Wire(InvokeServiceRequest, message)))
      BY <2>1, Requests DEF GRPCMeans, GRPCMeaning
    <3> QED BY <2>2, <2>3, <2>4, <2>5, <3>1, VerbArrives DEF GRPCInvoked
  <2>7. \A after : GRPC!Result(ask, GRPCMessage(ask, after)) =
                       <<ParseOrKeep(Read(AnyMessage, GRPCMessage(ask, after).data).value)>>
    BY <1>21, SameValues, SameMessages DEF GRPC!Result
  <2>8. ASSUME ask.method # "delete", GRPCMeans(ask).reads = <<App>>, NEW after, CellsFit(after)
        PROVE  GRPCTells(ask, after)
    <3>1. gets = <<App>> /\ App \in DOMAIN Texts
      <4>1. gets = <<App>>
        BY <1>21, <2>8, Got
      <4> QED BY <1>1, <4>1
    <3>2. Read(AnyMessage, GRPCMessage(ask, after).data).value = after[App]
      BY <2>1, <2>8, InvokeTold
    <3>3. GRPC!Result(ask, GRPCMessage(ask, after)) = <<ParseOrKeep(after[App])>>
      BY <2>7, <3>2
    <3>4. Meant(ParseOrKeep(after[App])) = ParseOrKeep(after[App])
      BY <2>8, <3>1, MeantAsRead
    <3>5. ResolvesWithCells(ask)
      BY <1>21, <2>8 DEF ResolvesWithCells
    <3> QED BY <2>8, <3>1, <3>3, <3>4, <3>5, GRPCTellsOne
  <2>9. CASE ask.method = "get"
    <3>1. GRPCMeans(ask) = Reads(App)
      BY <2>6, <2>9 DEF Invoked
    <3>2. Effects(ask, <<>>)
      BY <1>21, <2>9, Promised, NoEffect
    <3>3. \A after : CellsFit(after) => GRPCTells(ask, after)
      BY <2>8, <2>9, <3>1 DEF Reads
    <3> QED BY <3>1, <3>2, <3>3 DEF GRPCKeeps, Reads
  <2>10. CASE ask.method \in {"post", "put"}
    <3>1. GRPCMeans(ask) = Hears(App, JsonText(data))
      BY <2>6, <2>10 DEF Invoked
    <3>2. Fits(App, JsonText(data)) /\ ParseOrKeep(JsonText(data)) = data
      BY <2>5, FittingTexts DEF App, UnparsedKinds
    <3>3. Promise!Sets(ask) = Single(App, ParseOrKeep(JsonText(data)))
      BY <1>21, <2>10, <3>2, Promised
    <3>4. Effects(ask, Single(App, JsonText(data)))
      BY <3>2, <3>3, OneEffect DEF App
    <3>5. \A after : CellsFit(after) => GRPCTells(ask, after)
      BY <2>8, <2>10, <3>1 DEF Hears
    <3> QED BY <3>1, <3>4, <3>5 DEF GRPCKeeps, Hears
  <2>11. CASE ask.method = "delete"
    <3>1. GRPCMeans(ask) = Writes(App, EmptyText)
      BY <2>6, <2>11 DEF Invoked
    <3>2. Fits(App, EmptyText) /\ ParseOrKeep(EmptyText) = String(EmptyText)
      BY FittingTexts DEF App
    <3>3. Promise!Sets(ask) = Single(App, ParseOrKeep(EmptyText))
      BY <1>21, <2>11, <3>2, Promised
    <3>4. Effects(ask, Single(App, EmptyText))
      BY <3>2, <3>3, OneEffect DEF App
    <3>5. ASSUME NEW after
          PROVE  GRPCTells(ask, after)
      <4>1. GRPCMeans(ask).reads = <<>>
        BY <3>1 DEF Writes
      <4>2. Read(AnyMessage, GRPCMessage(ask, after).data).value = EmptyText
        BY <2>1, <4>1, InvokeTold
      <4>3. GRPC!Result(ask, GRPCMessage(ask, after)) = <<String(EmptyText)>>
        BY <2>7, <3>2, <4>2
      <4>4. MeantAll(<<String(EmptyText)>>) = <<String(EmptyText)>>
        BY DEF MeantAll, Meant, IsBuffer, String
      <4>5. Promise!Outcome(ask, Values(after)) = <<String(EmptyText)>>
        BY <1>21, <2>11, Outcomes
      <4> QED BY <4>3, <4>4, <4>5 DEF GRPCTells
    <3> QED BY <3>1, <3>4, <3>5 DEF GRPCKeeps, Writes
  <2> QED BY <2>5, <2>9, <2>10, <2>11
<1>22. CASE ask.op = "save"
  <2> DEFINE items == ask.items
             text(i) == GRPC!SavedText(items[i].value)
             list == [i \in DOMAIN items |->
                         Wire(StateItem, [key |-> PlainText(items[i].key), value |-> text(i)])]
             message == [storeName |-> PlainText("store"), statesList |-> list]
             m == Read(SaveStateRequest, Wire(SaveStateRequest, message))
  <2>1. GRPC!Request(ask) = [rpc |-> "saveState", bytes |-> Wire(SaveStateRequest, message)]
    <3>1. GRPC!Request(ask) = GRPC!StateSave(ask)
      BY <1>22 DEF GRPC!Request
    <3>2. \A item : GRPC!SavedItem(item) =
                       Wire(StateItem,
                           [key |-> PlainText(item.key), value |-> GRPC!SavedText(item.value)])
      BY SameValues, SameMessages DEF GRPC!SavedItem
    <3>3. [i \in DOMAIN items |-> GRPC!SavedItem(items[i])] = list
      BY <3>2
    <3> HIDE DEF list
    <3> QED BY <3>1, <3>3, Called, Requests, SameValues DEF GRPC!StateSave
  <2>2. m.statesList = list
    <3> HIDE DEF list
    <3>1. SaveStateRequest \in AllSchemas
      BY DEF AllSchemas
    <3>2. DOMAIN message \subseteq DOMAIN SaveStateRequest
      BY DEF SaveStateRequest
    <3>3. \A f \in DOMAIN message : m[f] = message[f]
      BY <3>1, <3>2, ReadBack
    <3> HIDE DEF m
    <3> QED BY <3>3
  <2> DEFINE written == GRPCItems(list)
  <2> HIDE DEF message
  <2>3. GRPCMeans(ask) = WritesItems("state", written)
    BY <2>1, <2>2, Requests DEF GRPCMeans, GRPCMeaning
  <2>4. /\ OwnKeys(items)
        /\ \A i \in DOMAIN items :
              (IsObject(items[i].value) /\ IsJson(items[i].value)) \/ IsPrimitive(items[i].value)
    BY <1>22 DEF WellAsked, Passed, PassedOverGRPC
  <2>5. /\ DOMAIN written = DOMAIN items
        /\ \A i \in DOMAIN items : written[i].key = items[i].key /\ written[i].text = text(i)
    <3>1. \A i \in DOMAIN items : /\ Read(StateItem, list[i]).key = PlainText(items[i].key)
                                  /\ Read(StateItem, list[i]).value = text(i)
      <4> HIDE DEF text
      <4> QED BY PartsRead
    <3>2. DOMAIN list = DOMAIN items
      OBVIOUS
    <3> HIDE DEF list, text
    <3>3. \A k : PlainText(k).plain = k
      BY DEF PlainText
    <3> QED BY <3>1, <3>2, <3>3 DEF GRPCItems, Item
  <2>6. \A i \in DOMAIN items :
           IsText(text(i)) /\ ParseOrKeep(text(i)) = items[i].value /\ IsJson(items[i].value)
    <3> SUFFICES ASSUME NEW v, (IsObject(v) /\ IsJson(v)) \/ IsPrimitive(v)
                 PROVE  /\ IsText(GRPC!SavedText(v)) /\ ParseOrKeep(GRPC!SavedText(v)) = v
                        /\ IsJson(v)
      BY <2>4
    <3>0. IsJson(v)
      BY PrimitiveReads
    <3>1. GRPC!SavedText(v) = IF IsObject(v) THEN JsonText(v) ELSE ToText(v)
      BY <3>0, SameValues DEF GRPC!SavedText
    <3>2. CASE IsObject(v)
      BY <3>0, <3>1, <3>2, JsonRead
    <3>3. CASE IsPrimitive(v)
      BY <3>1, <3>3, PrimitiveReads
    <3> QED BY <3>2, <3>3
  <2>7. Promise!Sets(ask) = Promise!SetsItems("state", items)
    BY <1>22, Promised
  <2> HIDE DEF written, text
  <2>8. Effects(ask, WritesItems("state", written).writes)
    BY <2>4, <2>5, <2>6, <2>7, ItemsEffect
  <2> QED BY <1>22, <2>3, <2>8, GRPCTellsNothing DEF GRPCKeeps
<1>23. CASE ask.op = "transaction"
  <2> DEFINE operations == ask.operations
             text(i) == GRPC!OperationText(operations[i].request.value)
             list == [i \in DOMAIN operations |-> Wire(TransactionalStateOperation,
                          [operationtype |-> PlainText(operations[i].operation),
                           request |-> Wire(StateItem,
                               [key |-> PlainText(operations[i].request.key),
                                                        value |-> text(i)])])]
             message == [storename |-> PlainText("store"), operationsList |-> list]
             m == Read(ExecuteStateTransactionRequest,
                      Wire(ExecuteStateTransactionRequest, message))
  <2>1. GRPC!Request(ask)
            = [rpc |-> "executeStateTransaction",
                bytes |-> Wire(ExecuteStateTransactionRequest, message)]
    <3>1. GRPC!Request(ask) = GRPC!StateTransaction(ask)
      BY <1>23 DEF GRPC!Request
    <3>2. \A i \in DOMAIN operations : GRPC!TransactionItem(operations[i])
                                        = Wire(TransactionalStateOperation,
                          [operationtype |-> PlainText(operations[i].operation),
                           request |-> Wire(StateItem,
                               [key |-> PlainText(operations[i].request.key),
                                                        value |-> text(i)])])
      BY SameValues, SameMessages DEF GRPC!TransactionItem
    <3>3. [i \in DOMAIN operations |-> GRPC!TransactionItem(operations[i])] = list
      BY <3>2
    <3> HIDE DEF list
    <3> QED BY <3>1, <3>3, Called, Requests, SameValues DEF GRPC!StateTransaction
  <2>2. m.operationsList = list
    <3> HIDE DEF list
    <3>1. ExecuteStateTransactionRequest \in AllSchemas
      BY DEF AllSchemas
    <3>2. DOMAIN message \subseteq DOMAIN ExecuteStateTransactionRequest
      BY DEF ExecuteStateTransactionRequest
    <3>3. \A f \in DOMAIN message : m[f] = message[f]
      BY <3>1, <3>2, ReadBack
    <3> HIDE DEF m
    <3> QED BY <3>3
  <2> DEFINE written == GRPCOperations(list)
  <2> HIDE DEF message
  <2>3. GRPCMeans(ask) = WritesItems("state", written)
    BY <2>1, <2>2, Requests DEF GRPCMeans, GRPCMeaning
  <2>4. /\ OwnKeys([i \in DOMAIN operations |-> operations[i].request])
        /\ \A i \in DOMAIN operations :
              operations[i].operation # "delete" => IsPlainString(operations[i].request.value)
    BY <1>23 DEF WellAsked, Passed, PassedOverGRPC
  <2>5. /\ DOMAIN written = DOMAIN operations
        /\ \A i \in DOMAIN operations :
              /\ written[i].key = operations[i].request.key
              /\ written[i].text = IF operations[i].operation = "delete"
                     THEN EmptyText ELSE text(i)
    <3>1. \A i \in DOMAIN operations :
             LET o == Read(TransactionalStateOperation, list[i])
                 item == Read(StateItem, o.request)
             IN /\ o.operationtype = PlainText(operations[i].operation)
                /\ item.key = PlainText(operations[i].request.key) /\ item.value = text(i)
      <4> HIDE DEF text
      <4> SUFFICES ASSUME NEW i \in DOMAIN operations
                   PROVE  LET o == Read(TransactionalStateOperation, list[i])
                              item == Read(StateItem, o.request)
                          IN /\ o.operationtype = PlainText(operations[i].operation)
                             /\ item.key = PlainText(operations[i].request.key)
                             /\ item.value = text(i)
        OBVIOUS
      <4> DEFINE sent == Wire(StateItem,
                             [key |-> PlainText(operations[i].request.key), value |-> text(i)])
                 o == Read(TransactionalStateOperation, list[i])
      <4>1. Read(StateItem, sent).key = PlainText(operations[i].request.key)
                /\ Read(StateItem, sent).value = text(i)
        BY PartsRead
      <4>2. list[i] = Wire(TransactionalStateOperation,
                           [operationtype |-> PlainText(operations[i].operation),
                               request |-> sent])
        OBVIOUS
      <4> HIDE DEF sent, list
      <4>3. o.operationtype = PlainText(operations[i].operation) /\ o.request = sent
        BY <4>2, PartsRead
      <4> QED BY <4>1, <4>3
    <3>2. DOMAIN list = DOMAIN operations
      OBVIOUS
    <3> HIDE DEF list, text
    <3>3. \A k : PlainText(k).plain = k
      BY DEF PlainText
    <3> QED BY <3>1, <3>2, <3>3 DEF GRPCOperations, Item
  <2>6. \A i \in DOMAIN operations : operations[i].operation # "delete" =>
           /\ IsText(text(i)) /\ ParseOrKeep(text(i)) = operations[i].request.value
           /\ IsJson(operations[i].request.value)
    <3> SUFFICES ASSUME NEW v, IsPlainString(v)
                 PROVE  LET sent == GRPC!OperationText(v)
                        IN IsText(sent) /\ ParseOrKeep(sent) = v /\ IsJson(v)
      BY <2>4
    <3>1. GRPC!OperationText(v) = IF Falsy(v) THEN EmptyText ELSE ToText(v)
      BY SameValues DEF GRPC!OperationText
    <3>2. IsEmptyOrPrimitive(v)
      BY PlainIsPrimitive
    <3>3. "state" \notin UnparsedKinds
      BY DEF UnparsedKinds
    <3>4. Fits(<<"state", "k">>, GRPC!OperationText(v)) /\ ParseOrKeep(GRPC!OperationText(v)) = v
      BY <3>1, <3>2, <3>3, PrimitiveSent
    <3> QED BY <3>2, <3>4, PrimitiveReads DEF Fits, IsEmptyOrPrimitive
  <2>7. IsText(EmptyText) /\ ParseOrKeep(EmptyText) = String(EmptyText)
    BY FittingTexts DEF EmptyText, PlainText, IsText, IsPlain
  <2>8. Promise!Sets(ask) = Promise!SetsOperations("state", operations)
    BY <1>23, Promised
  <2> HIDE DEF written, text
  <2>9. \A i \in DOMAIN operations :
           /\ written[i].key = operations[i].request.key
           /\ IsText(written[i].text)
           /\ ParseOrKeep(written[i].text) = IF operations[i].operation = "delete"
                 THEN String(EmptyText) ELSE operations[i].request.value
    BY <2>5, <2>6, <2>7
  <2>10. Effects(ask, WritesItems("state", written).writes)
    BY <2>4, <2>5, <2>6, <2>8, <2>9, OperationsEffect
  <2> QED BY <1>23, <2>3, <2>10, GRPCTellsNothing DEF GRPCKeeps
<1>24. CASE ask.op = "actorTransaction"
  <2> DEFINE operations == ask.operations
             text(i) == Template(operations[i].request.value)
             list == [i \in DOMAIN operations |-> Wire(TransactionalActorStateOperation,
                          [key |-> PlainText(operations[i].request.key),
                           operationtype |-> PlainText(operations[i].operation),
                           value |-> Wire(AnyMessage, [value |-> text(i)])])]
             message == [actorType |-> PlainText("type"), actorId |-> PlainText("id"),
                            operationsList |-> list]
             m == Read(ExecuteActorStateTransactionRequest,
                      Wire(ExecuteActorStateTransactionRequest, message))
  <2>1. GRPC!Request(ask)
            = [rpc |-> "executeActorStateTransaction",
                bytes |-> Wire(ExecuteActorStateTransactionRequest, message)]
    <3>1. GRPC!Request(ask) = GRPC!ActorStateTransaction(ask)
      BY <1>24 DEF GRPC!Request
    <3>2. \A i \in DOMAIN operations : GRPC!ActorOperation(operations[i])
                                        = Wire(TransactionalActorStateOperation,
                          [key |-> PlainText(operations[i].request.key),
                           operationtype |-> PlainText(operations[i].operation),
                           value |-> Wire(AnyMessage, [value |-> text(i)])])
      BY SameValues, SameMessages DEF GRPC!ActorOperation
    <3>3. [i \in DOMAIN operations |-> GRPC!ActorOperation(operations[i])] = list
      BY <3>2
    <3> HIDE DEF list
    <3> QED BY <3>1, <3>3, Called, Requests, SameValues DEF GRPC!ActorStateTransaction
  <2>2. m.operationsList = list
    <3> HIDE DEF list
    <3>1. ExecuteActorStateTransactionRequest \in AllSchemas
      BY DEF AllSchemas
    <3>2. DOMAIN message \subseteq DOMAIN ExecuteActorStateTransactionRequest
      BY DEF ExecuteActorStateTransactionRequest
    <3>3. \A f \in DOMAIN message : m[f] = message[f]
      BY <3>1, <3>2, ReadBack
    <3> HIDE DEF m
    <3> QED BY <3>3
  <2> DEFINE written == GRPCActorOperations(list)
  <2> HIDE DEF message
  <2>3. GRPCMeans(ask) = WritesItems("actor", written)
    BY <2>1, <2>2, Requests DEF GRPCMeans, GRPCMeaning
  <2>4. /\ OwnKeys([i \in DOMAIN operations |-> operations[i].request])
        /\ \A i \in DOMAIN operations :
              operations[i].operation # "delete" => IsNullOrPrimitive(operations[i].request.value)
    BY <1>24 DEF WellAsked, Passed, PassedOverGRPC, IsNullOrPrimitive
  <2>5. /\ DOMAIN written = DOMAIN operations
        /\ \A i \in DOMAIN operations :
              /\ written[i].key = operations[i].request.key
              /\ written[i].text = IF operations[i].operation = "delete"
                     THEN EmptyText ELSE text(i)
    <3>1. \A i \in DOMAIN operations :
             LET o == Read(TransactionalActorStateOperation, list[i])
             IN /\ o.operationtype = PlainText(operations[i].operation)
                /\ o.key = PlainText(operations[i].request.key)
                /\ Read(AnyMessage, o.value).value = text(i)
      <4> HIDE DEF text
      <4> SUFFICES ASSUME NEW i \in DOMAIN operations
                   PROVE  LET o == Read(TransactionalActorStateOperation, list[i])
                          IN /\ o.operationtype = PlainText(operations[i].operation)
                             /\ o.key = PlainText(operations[i].request.key)
                             /\ Read(AnyMessage, o.value).value = text(i)
        OBVIOUS
      <4> DEFINE sent == Wire(AnyMessage, [value |-> text(i)])
                 o == Read(TransactionalActorStateOperation, list[i])
      <4>1. Read(AnyMessage, sent).value = text(i)
        BY PartsRead
      <4>2. list[i] = Wire(TransactionalActorStateOperation,
                           [key |-> PlainText(operations[i].request.key),
                            operationtype |-> PlainText(operations[i].operation), value |-> sent])
        OBVIOUS
      <4> HIDE DEF sent, list
      <4>3. /\ o.operationtype = PlainText(operations[i].operation)
            /\ o.key = PlainText(operations[i].request.key) /\ o.value = sent
        BY <4>2, PartsRead
      <4> QED BY <4>1, <4>3
    <3>2. DOMAIN list = DOMAIN operations
      OBVIOUS
    <3> HIDE DEF list, text
    <3>3. \A k : PlainText(k).plain = k
      BY DEF PlainText
    <3> QED BY <3>1, <3>2, <3>3 DEF GRPCActorOperations, Item
  <2>6. \A i \in DOMAIN operations : operations[i].operation # "delete" =>
           /\ IsText(text(i)) /\ ParseOrKeep(text(i)) = operations[i].request.value
           /\ IsJson(operations[i].request.value)
    <3> SUFFICES ASSUME NEW v, v = Null \/ IsPrimitive(v)
                 PROVE  IsText(Template(v)) /\ ParseOrKeep(Template(v)) = v /\ IsJson(v)
      BY <2>4 DEF IsNullOrPrimitive
    <3>1. CASE v = Null
      <4>1. Json(Null) = Null /\ Null # Undefined
        BY JsonOf, Shapes DEF IsArray, IsBuffer
      <4> QED BY <3>1, <4>1, JsonRead DEF Template, IsJson
    <3>2. CASE IsPrimitive(v)
      <4>1. v # Null /\ v # Undefined
        BY <3>2 DEF IsPrimitive, IsPlainString, IsString, Null, Undefined, True, False
      <4>2. Template(v) = ToText(v)
        BY <4>1 DEF Template
      <4> QED BY <3>2, <4>2, PrimitiveReads
    <3> QED BY <3>1, <3>2
  <2>7. IsText(EmptyText) /\ ParseOrKeep(EmptyText) = String(EmptyText)
    BY FittingTexts DEF EmptyText, PlainText, IsText, IsPlain
  <2>8. Promise!Sets(ask) = Promise!SetsOperations("actor", operations)
    BY <1>24, Promised
  <2> HIDE DEF written, text
  <2>9. \A i \in DOMAIN operations :
           /\ written[i].key = operations[i].request.key
           /\ IsText(written[i].text)
           /\ ParseOrKeep(written[i].text) = IF operations[i].operation = "delete"
                 THEN String(EmptyText) ELSE operations[i].request.value
    BY <2>5, <2>6, <2>7
  <2>10. Effects(ask, WritesItems("actor", written).writes)
    BY <2>4, <2>5, <2>6, <2>8, <2>9, OperationsEffect
  <2> QED BY <1>24, <2>3, <2>10, GRPCTellsNothing DEF GRPCKeeps
<1>25. ask.op \in Operations["grpc"]
  BY DEF WellAsked
<1> QED
  BY <1>2, <1>3, <1>4, <1>5, <1>6, <1>7, <1>8, <1>9, <1>10, <1>11, <1>12, <1>13, <1>14, <1>15,
     <1>16, <1>17, <1>18, <1>19, <1>20, <1>21, <1>22, <1>23, <1>24, <1>25 DEF Operations

(***************************************************************************)
(* The inductive invariant of the calls.                                   *)
(***************************************************************************)

MayBeAsked == UNION {Asks(p, c) : p \in Protocols, c \in Callers}

\* What is on its way to the sidecar was asked for, and could be sent.
AskGood(p, ask) ==
    /\ ask \in MayBeAsked
    /\ WellAsked(p, ask)
    /\ p = "grpc" => GRPC!Request(ask) # GRPC!Throws

StatusGood(p, status) ==
    IF p = "http" THEN status \in {200, 204} \cup RefusalStatuses ELSE status \in {0, 2}

CallGood(p, k) ==
    /\ k.stage \in {"idle", "sent", "answered", "resolved", "rejected", "unsettled"}
    /\ k.stage = "idle" => k = Idle
    /\ k.stage \in {"sent", "answered"}
           => {"stage", "ask"} \subseteq DOMAIN k /\ AskGood(p, k.ask)
    /\ k.stage = "answered" => "answer" \in DOMAIN k /\ StatusGood(p, k.answer.status)

CallsOK ==
    /\ protocol \in Protocols /\ open \in BOOLEAN /\ up \in BOOLEAN
    /\ CellsFit(cells)
    /\ call = [c \in Callers |-> call[c]]
    /\ \A c \in Callers : CallGood(protocol, call[c])

\* There are no calls at first.
LEMMA CallsOKInitially == CallsInit => CallsOK
<1> SUFFICES ASSUME CallsInit PROVE CallsOK
  OBVIOUS
<1>1. CellsFit(Texts)
  BY TextsAssumption DEF CellsFit
<1>2. \A p : CallGood(p, Idle)
  BY DEF CallGood, Idle
<1> QED BY <1>1, <1>2 DEF CallsInit, CallsOK

\* A step that changes one call and not the cells.
LEMMA CallChanges ==
    ASSUME CallsOK, NEW c \in Callers, NEW k, CallGood(protocol, k),
           call' = [call EXCEPT ![c] = k], UNCHANGED <<protocol, open, up, cells>>
    PROVE  CallsOK'
BY DEF CallsOK

\* A call that fails is settled.
LEMMA FailedGood ==
    ASSUME NEW p, NEW ask
    PROVE  CallGood(p, Failed(ask)) /\ Failed(ask).stage \in {"resolved", "rejected"}
BY DEF CallGood, Failed, Resolved, Rejected, Idle

-----------------------------------------------------------------------------
\* What is written over cells that fit is what the promise sets in their values.
LEMMA OverlayKeeps ==
    ASSUME NEW ask, NEW writes, Effects(ask, writes), NEW old, CellsFit(old)
    PROVE  /\ CellsFit(Overlay(writes, old))
           /\ Values(Overlay(writes, old)) = Promise!Overlay(Promise!Sets(ask), Values(old))
           /\ \A cell \in DOMAIN old :
                 cell[1] = "configuration" => Overlay(writes, old)[cell] = old[cell]
<1> DEFINE after == Overlay(writes, old)
           sets == Promise!Sets(ask)
<1>1. /\ DOMAIN after = DOMAIN writes \cup DOMAIN old
      /\ \A cell \in DOMAIN after :
            after[cell] = IF cell \in DOMAIN writes THEN writes[cell] ELSE old[cell]
  BY DEF Overlay
<1>2. /\ DOMAIN writes = DOMAIN sets
      /\ \A cell \in DOMAIN writes : /\ Fits(cell, writes[cell])
                                     /\ cell[1] \notin {"configuration", "actors"}
                                     /\ ParseOrKeep(writes[cell]) = sets[cell]
  BY DEF Effects
<1> HIDE DEF after, sets
<1>3. CellsFit(after)
  <2>1. Actors \notin DOMAIN writes
    BY <1>2 DEF Actors
  <2>2. Actors \in DOMAIN old
    BY TextsAssumption DEF CellsFit
  <2> QED BY <1>1, <1>2, <2>1, <2>2 DEF CellsFit
<1>4. Values(after) = Overlay(sets, Values(old))
  <2>1. DOMAIN Values(old) = DOMAIN old
            /\ \A cell \in DOMAIN old : Values(old)[cell] = ParseOrKeep(old[cell])
    BY DEF Values
  <2>2. /\ DOMAIN Overlay(sets, Values(old)) = DOMAIN after
        /\ \A cell \in DOMAIN after : Overlay(sets, Values(old))[cell] = ParseOrKeep(after[cell])
    BY <1>1, <1>2, <2>1 DEF Overlay
  <2>3. Overlay(sets, Values(old)) = [cell \in DOMAIN after |-> Overlay(sets, Values(old))[cell]]
    BY <2>2 DEF Overlay
  <2> QED BY <2>2, <2>3 DEF Values
<1>5. \A cell \in DOMAIN old : cell[1] = "configuration" => after[cell] = old[cell]
  BY <1>1, <1>2
<1> QED BY <1>3, <1>4, <1>5, SamePromise DEF after, sets

ResultOf(p, k) ==
    IF p = "http" THEN HTTP!Result(k.ask, k.answer.text)
    ELSE GRPC!Result(k.ask, Message(k.ask, k.answer))

ConfigurationKept ==
    \A cell \in DOMAIN cells : cell[1] = "configuration" => cells'[cell] = cells[cell]

\* What a call that is served does, and what it is answered with.
LEMMA ServeDoes ==
    ASSUME CallsOK, NEW c \in Callers, Serve(c)
    PROVE  LET ask == call[c].ask
           IN /\ CellsFit(cells')
              /\ Values(cells') = Promise!Overlay(Promise!Sets(ask), Values(cells))
              /\ ConfigurationKept
              /\ call' = [call EXCEPT ![c] = call'[c]]
              /\ CallGood(protocol, call'[c]) /\ call'[c].stage = "answered"
              /\ call'[c].answer.status \in {0} \cup 200..399
              /\ MeantAll(ResultOf(protocol, call'[c])) = Promise!Outcome(ask, Values(cells'))
<1> DEFINE ask == call[c].ask
           request == Request(ask)
           meaning == Meaning(request)
           texts == Told(meaning, cells')
           k == Answered(call[c], Answer(request, texts))
<1>1. AskGood(protocol, ask) /\ call[c].stage = "sent"
  BY DEF Serve, CallsOK, CallGood
<1>2. meaning # NotFound /\ cells' = Overlay(meaning.writes, cells)
          /\ call' = [call EXCEPT ![c] = k]
  BY DEF Serve, Told
<1>3. call'[c] = k
  BY <1>2 DEF CallsOK
<1>4. k.stage = "answered" /\ k.ask = ask /\ k.answer = Answer(request, texts)
      /\ DOMAIN k = {"stage", "ask", "cut", "answer"}
  BY DEF Answered
<1>5. CASE protocol = "http"
  <2>1. request = HTTP!Request(ask) /\ meaning = HTTPMeans(ask)
    BY <1>5 DEF Request, Meaning, HTTPMeans
  <2>2. HTTPKeeps(ask)
    BY <1>1, <1>2, <1>5, <2>1, HTTPServes DEF AskGood
  <2>3. CellsFit(cells') /\ Values(cells') = Promise!Overlay(Promise!Sets(ask), Values(cells))
    BY <1>2, <2>1, <2>2, OverlayKeeps DEF HTTPKeeps, CallsOK
  <2>10. ConfigurationKept
    BY <1>2, <2>1, <2>2, OverlayKeeps DEF HTTPKeeps, CallsOK, ConfigurationKept
  <2>4. /\ k.answer.status \in {200, 204}
        /\ k.answer.text = HTTPAnswer(request, texts)
    BY <1>4, <1>5 DEF Answer
  <2>5. ResultOf(protocol, k)
            = HTTP!Result(ask, HTTPAnswer(HTTP!Request(ask), Told(HTTPMeans(ask), cells')))
    BY <1>4, <1>5, <2>1, <2>4 DEF ResultOf
  <2>6. HTTPTells(ask, cells')
    BY <2>2, <2>3 DEF HTTPKeeps
  <2> HIDE DEF k, request, meaning, texts
  <2>7. MeantAll(ResultOf(protocol, k)) = Promise!Outcome(ask, Values(cells'))
    BY <2>5, <2>6 DEF HTTPTells
  <2>8. CallGood(protocol, k)
    BY <1>1, <1>4, <1>5, <2>4 DEF CallGood, StatusGood
  <2>9. k.answer.status \in {0} \cup 200..399
    BY <2>4
  <2> QED BY <1>2, <1>3, <1>4, <2>3, <2>7, <2>8, <2>9, <2>10
<1>6. CASE protocol = "grpc"
  <2>1. request = GRPC!Request(ask) /\ meaning = GRPCMeans(ask)
    BY <1>6 DEF Request, Meaning, GRPCMeans
  <2>2. GRPCKeeps(ask)
    BY <1>1, <1>6, GRPCServes DEF AskGood
  <2>3. CellsFit(cells') /\ Values(cells') = Promise!Overlay(Promise!Sets(ask), Values(cells))
    BY <1>2, <2>1, <2>2, OverlayKeeps DEF GRPCKeeps, CallsOK
  <2>10. ConfigurationKept
    BY <1>2, <2>1, <2>2, OverlayKeeps DEF GRPCKeeps, CallsOK, ConfigurationKept
  <2>4. k.answer.status = 0 /\ k.answer.bytes = GRPCAnswer(request, texts)
    BY <1>4, <1>6 DEF Answer
  <2>5. ResultOf(protocol, k) = GRPC!Result(ask, GRPCMessage(ask, cells'))
    BY <1>4, <1>6, <2>1, <2>4 DEF ResultOf, Message, GRPCMessage
  <2>6. GRPCTells(ask, cells')
    BY <2>2, <2>3 DEF GRPCKeeps
  <2> HIDE DEF k, request, meaning, texts
  <2>7. MeantAll(ResultOf(protocol, k)) = Promise!Outcome(ask, Values(cells'))
    BY <2>5, <2>6 DEF GRPCTells
  <2>8. CallGood(protocol, k)
    BY <1>1, <1>4, <1>6, <2>4 DEF CallGood, StatusGood
  <2> QED BY <1>2, <1>3, <1>4, <2>3, <2>4, <2>7, <2>8, <2>10
<1> QED BY <1>5, <1>6, ClientAssumption DEF CallsOK

-----------------------------------------------------------------------------
\* No step of the calls breaks what is known of them.
LEMMA CallsKeptOK ==
    ASSUME CallsOK, CallsNext
    PROVE  CallsOK'
<1>1. ASSUME NEW c \in Callers, Ask(c)
      PROVE  CallsOK'
  <2>1. PICK ask \in Asks(protocol, c) : call' = [call EXCEPT ![c] =
              IF CannotBeSent(ask) THEN Failed(ask)
              ELSE [stage |-> "sent", ask |-> ask, cut |-> FALSE]]
    BY <1>1 DEF Ask
  <2>2. ~CannotBeSent(ask) => AskGood(protocol, ask)
    BY AsksAssumption DEF CallsOK, CannotBeSent, AskGood, MayBeAsked
  <2>3. ~CannotBeSent(ask) => CallGood(protocol, [stage |-> "sent", ask |-> ask, cut |-> FALSE])
    BY <2>2 DEF CallGood
  <2> QED BY <1>1, <2>1, <2>3, FailedGood, CallChanges DEF Ask
<1>2. ASSUME NEW c \in Callers, Forget(c)
      PROVE  CallsOK'
  <2>1. CallGood(protocol, Idle)
    BY DEF CallGood, Idle
  <2> QED BY <1>2, <2>1, CallChanges DEF Forget
<1>3. ASSUME NEW c \in Callers, Serve(c)
      PROVE  CallsOK'
  <2>1. /\ CellsFit(cells') /\ call' = [call EXCEPT ![c] = call'[c]]
        /\ CallGood(protocol, call'[c])
    BY <1>3, ServeDoes
  <2>2. protocol' = protocol /\ open' = open /\ up' \in BOOLEAN
    BY <1>3 DEF Serve
  <2> QED BY <2>1, <2>2 DEF CallsOK
<1>4. ASSUME NEW c \in Callers, Refuse(c)
      PROVE  CallsOK'
  <2>1. PICK refusal \in Refusals : call' = [call EXCEPT ![c] = Answered(call[c], refusal)]
    BY <1>4 DEF Refuse
  <2>2. StatusGood(protocol, refusal.status)
    BY ClientAssumption DEF Refusals, StatusGood, CallsOK
  <2>3. AskGood(protocol, call[c].ask)
    BY <1>4 DEF Refuse, CallsOK, CallGood
  <2>4. CallGood(protocol, Answered(call[c], refusal))
    BY <2>2, <2>3 DEF CallGood, Answered
  <2> QED BY <1>4, <2>1, <2>4, CallChanges DEF Refuse
<1>5. ASSUME NEW c \in Callers, ConnectionFails(c)
      PROVE  CallsOK'
  <2>1. call' = [call EXCEPT ![c] = Failed(call[c].ask)]
    BY <1>5 DEF ConnectionFails
  <2> QED BY <1>5, <2>1, FailedGood, CallChanges DEF ConnectionFails
<1>6. ASSUME NEW c \in Callers, AnswerArrives(c)
      PROVE  CallsOK'
  <2>1. call' = [call EXCEPT ![c] = Settled(call[c].ask, call[c].answer)]
    BY <1>6 DEF AnswerArrives
  <2>2. \A result : CallGood(protocol, Resolved(result)) /\ CallGood(protocol, Unsettled)
    BY DEF CallGood, Resolved, Unsettled, Idle
  <2>3. CallGood(protocol, Settled(call[c].ask, call[c].answer))
    BY <2>2, FailedGood DEF Settled
  <2> QED BY <1>6, <2>1, <2>3, CallChanges DEF AnswerArrives
<1>7. CASE Stop
  <2>1. ASSUME NEW c \in Callers, call[c].stage \in {"sent", "answered"}
        PROVE  CallGood(protocol, [call[c] EXCEPT !.cut = TRUE])
    BY <2>1 DEF CallsOK, CallGood, Idle
  <2>2. \A c \in Callers : CallGood(protocol, call'[c])
    BY <1>7, <2>1 DEF Stop, CallsOK
  <2>3. call' = [c \in Callers |-> call'[c]]
    BY <1>7 DEF Stop, CallsOK
  <2> QED BY <1>7, <2>2, <2>3 DEF Stop, CallsOK
<1>8. CASE SidecarStarts
  BY <1>8 DEF SidecarStarts, CallsOK
<1> QED BY <1>1, <1>2, <1>3, <1>4, <1>5, <1>6, <1>7, <1>8 DEF CallsNext

(***************************************************************************)
(* A configuration that changes, and the whole of the client.              *)
(***************************************************************************)

\* A change of the configuration leaves every other cell.
LEMMA ChangeKeepsCells ==
    ASSUME CellsFit(cells), ConfigurationChanges
    PROVE  /\ CellsFit(cells')
           /\ DOMAIN cells' = DOMAIN cells
           /\ \A cell \in DOMAIN cells : cell # Configuration => cells'[cell] = cells[cell]
<1>1. PICK text : text = PlainText(ToString(Version + 1))
               /\ cells' = [cells EXCEPT ![Configuration] = text]
  BY DEF ConfigurationChanges
<1>2. IsText(text) /\ IsPlain(text) /\ ParseOrKeep(text) = String(text)
  BY <1>1 DEF PlainText, IsText, IsPlain, ParseOrKeep
<1>3. Fits(Configuration, text)
  BY <1>2, StringIsJson, Shapes DEF Fits, IsString
<1>4. Actors # Configuration
  BY DEF Actors, Configuration
<1> QED BY <1>1, <1>3, <1>4 DEF CellsFit

\* Nor does any other step of the client.
LEMMA CallsStayOK == CallsOK /\ [Next]_vars => CallsOK'
<1> SUFFICES ASSUME CallsOK, [Next]_vars PROVE CallsOK'
  OBVIOUS
<1>1. CASE CallsNext
  BY <1>1, CallsKeptOK
<1>2. CASE ConfigurationChanges
  <2>1. CellsFit(cells')
    BY <1>2, ChangeKeepsCells DEF CallsOK
  <2> QED BY <1>2, <2>1 DEF ConfigurationChanges, CallsOK
<1>3. ASSUME NEW s \in Subscribers, Subscribe(s)
      PROVE  CallsOK'
  BY <1>3 DEF Subscribe, CallsOK
<1>4. CASE UNCHANGED callVars
  BY <1>4 DEF callVars, CallsOK
<1> QED BY <1>1, <1>2, <1>3, <1>4 DEF Next, vars, DataArrives, CallbackEnds, StopSubscription,
            StopAnswered, StopFails, SidecarRegisters, SidecarUnsubscribes

-----------------------------------------------------------------------------
(***************************************************************************)
(* The promise of a call.                                                  *)
(***************************************************************************)

InEffect(k) == k.stage = "answered" /\ k.answer.status \in {0} \cup 200..399

PromiseAt(p, k) ==
    CASE k = Idle -> Idle
      [] k.stage = "sent" -> [stage |-> "pending", ask |-> k.ask]
      [] k.stage = "answered" /\ ~InEffect(k) -> [stage |-> "pending", ask |-> k.ask]
      [] InEffect(k) -> [stage |-> "done", result |-> MeantAll(ResultOf(p, k))]
      [] k.stage = "resolved" /\ k.result # <<False>> ->
             [stage |-> "resolved", result |-> MeantAll(k.result)]
      [] OTHER -> [stage |-> "failed"]

\* The promise of a caller only depends on its call.
LEMMA PromiseIs ==
    /\ \A c : PromiseOf(c) = PromiseAt(protocol, call[c])
    /\ \A c : PromiseOf(c)' = PromiseAt(protocol', call'[c])
BY DEF PromiseOf, PromiseAt, Succeeded, InEffect, EffectResult, ResultOf, Request

\* What the promise is at each stage of the call.
LEMMA PromiseByStage ==
    ASSUME NEW p, NEW k
    PROVE  /\ k = Idle => PromiseAt(p, k) = Idle
           /\ k.stage = "sent" => PromiseAt(p, k) = [stage |-> "pending", ask |-> k.ask]
           /\ k.stage = "answered" =>
                 /\ ~InEffect(k) => PromiseAt(p, k) = [stage |-> "pending", ask |-> k.ask]
                 /\ InEffect(k) =>
                       PromiseAt(p, k) = [stage |-> "done", result |-> MeantAll(ResultOf(p, k))]
           /\ k.stage = "resolved" =>
                 PromiseAt(p, k) = IF k.result = <<False>> THEN [stage |-> "failed"]
                                   ELSE [stage |-> "resolved", result |-> MeantAll(k.result)]
           /\ k.stage \in {"rejected", "unsettled"} => PromiseAt(p, k) = [stage |-> "failed"]
<1>1. k = Idle => k.stage = "idle"
  BY DEF Idle
<1>2. InEffect(k) => k.stage = "answered"
  BY DEF InEffect
<1> QED BY <1>1, <1>2 DEF PromiseAt

Promises == [c \in Callers |-> PromiseOf(c)]

\* The steps of the promises, in terms of the calls.
LEMMA IsCall ==
    ASSUME NEW c, NEW ask, ask \in MayBeAsked,
           Promises[c] = Idle, Promises'[c] = [stage |-> "pending", ask |-> ask],
           Promises' = [Promises EXCEPT ![c] = [stage |-> "pending", ask |-> ask]],
           UNCHANGED Values(cells)
    PROVE  Promise!Call(c)
<1>1. Promises'[c].stage = "pending" /\ Promises'[c].ask = ask
  OBVIOUS
<1>2. Promises' = [Promises EXCEPT ![c] = [stage |-> "pending", ask |-> Promises'[c].ask]]
  BY <1>1
<1> QED BY <1>1, <1>2 DEF Promise!Call, Promises, Values, Promise!Idle, Idle, MayBeAsked

\* One that cannot be asked.
LEMMA IsRefuse ==
    ASSUME NEW c, Promises[c] = Idle, Promises' = [Promises EXCEPT ![c] = [stage |-> "failed"]],
           UNCHANGED Values(cells)
    PROVE  Promise!Refuse(c)
BY DEF Promise!Refuse, Promises, Values, Promise!Idle, Idle

\* One that takes effect.
LEMMA IsDo ==
    ASSUME NEW c, NEW ask, Promises[c].stage = "pending", Promises[c].ask = ask,
           Values(cells)' = Promise!Overlay(Promise!Sets(ask), Values(cells)),
           Promises' = [Promises EXCEPT ![c] =
               [stage |-> "done", result |-> Promise!Outcome(ask, Values(cells)')]]
    PROVE  Promise!Do(c)
BY DEF Promise!Do, Promises, Values

\* One that resolves.
LEMMA IsResolve ==
    ASSUME NEW c, Promises[c].stage = "done", Promises'
               = [Promises EXCEPT ![c].stage = "resolved"],
           UNCHANGED Values(cells)
    PROVE  Promise!Resolve(c)
BY DEF Promise!Resolve, Promises, Values

\* One that fails.
LEMMA IsFail ==
    ASSUME NEW c, Promises' = [Promises EXCEPT ![c] = [stage |-> "failed"]],
           UNCHANGED Values(cells)
    PROVE  Promises[c].stage \in {"pending", "done"} => Promise!Fail(c)
BY DEF Promise!Fail, Promises, Values

\* One that is done with.
LEMMA IsForget ==
    ASSUME NEW c, Promises' = [Promises EXCEPT ![c] = Idle], UNCHANGED Values(cells)
    PROVE  Promises[c].stage \in {"resolved", "failed"} => Promise!Forget(c)
BY DEF Promise!Forget, Promises, Values, Promise!Idle, Idle

\* A configuration that changes by itself.
LEMMA IsChange ==
    ASSUME DOMAIN Values(cells)' = DOMAIN Values(cells),
           \A cell \in DOMAIN Values(cells) :
              cell[1] # "configuration" => Values(cells)'[cell] = Values(cells)[cell],
           UNCHANGED Promises
    PROVE  Promise!Change
BY DEF Promise!Change, Promises, Values

\* Nothing but the call of one caller changes.
LEMMA OneChanges ==
    ASSUME CallsOK, NEW c \in Callers, NEW k, call' = [call EXCEPT ![c] = k],
           UNCHANGED protocol
    PROVE  /\ Promises[c] = PromiseAt(protocol, call[c])
           /\ Promises' = [Promises EXCEPT ![c] = PromiseAt(protocol, k)]
           /\ Promises'[c] = PromiseAt(protocol, k)
<1>1. /\ \A d \in Callers : Promises[d] = PromiseAt(protocol, call[d])
      /\ \A d \in Callers : Promises'[d] = PromiseAt(protocol, call'[d])
  BY PromiseIs DEF Promises
<1>2. call'[c] = k /\ \A d \in Callers \ {c} : call'[d] = call[d]
  BY DEF CallsOK
<1>3. Promises'[c] = PromiseAt(protocol, k) /\ \A d \in Callers \ {c} : Promises'[d] = Promises[d]
  BY <1>1, <1>2
<1>4. Promises' = [d \in Callers |-> Promises'[d]] /\ Promises = [d \in Callers |-> Promises[d]]
  BY DEF Promises
<1> QED BY <1>1, <1>3, <1>4

\* The promise of each caller.
LEMMA PromisesAre ==
    ASSUME NEW c \in Callers
    PROVE  Promises[c] = PromiseAt(protocol, call[c])
BY PromiseIs DEF Promises

\* A call that failed, whether it rejects or says False.
LEMMA FailedIs ==
    ASSUME NEW p, NEW ask
    PROVE  PromiseAt(p, Failed(ask)) = [stage |-> "failed"]
<1>1. PromiseAt(p, Rejected) = [stage |-> "failed"]
  BY PromiseByStage DEF Rejected
<1>2. PromiseAt(p, Resolved(<<False>>)) = [stage |-> "failed"]
  BY PromiseByStage DEF Resolved
<1> QED BY <1>1, <1>2 DEF Failed

\* Values change with the cells only.
LEMMA SameCells == UNCHANGED cells => UNCHANGED Values(cells)
BY DEF Values

-----------------------------------------------------------------------------
(***************************************************************************)
(* Every step of the client is one of its promises or leaves them alone.   *)
(***************************************************************************)

\* A call that is made, or cannot be sent.
LEMMA AskPromises ==
    ASSUME CallsOK, NEW c \in Callers, Ask(c)
    PROVE  Promise!Call(c) \/ Promise!Refuse(c)
<1>1. PICK ask \in Asks(protocol, c) : call' = [call EXCEPT ![c] =
              IF CannotBeSent(ask) THEN Failed(ask)
              ELSE [stage |-> "sent", ask |-> ask, cut |-> FALSE]]
  BY DEF Ask
<1>2. Promises[c] = Idle
  BY PromisesAre, PromiseByStage DEF Ask
<1>3. UNCHANGED Values(cells)
  BY SameCells DEF Ask
<1>6. UNCHANGED protocol
  BY DEF Ask
<1>4. CASE CannotBeSent(ask)
  <2>1. call' = [call EXCEPT ![c] = Failed(ask)]
    BY <1>1, <1>4
  <2>2. Promises' = [Promises EXCEPT ![c] = [stage |-> "failed"]]
    <3>1. PromiseAt(protocol, Failed(ask)) = [stage |-> "failed"]
      BY FailedIs
    <3> QED BY <1>6, <2>1, <3>1, OneChanges
  <2> QED BY <1>2, <1>3, <2>2, IsRefuse
<1>5. CASE ~CannotBeSent(ask)
  <2> DEFINE k == [stage |-> "sent", ask |-> ask, cut |-> FALSE]
  <2>1. call' = [call EXCEPT ![c] = k]
    BY <1>1, <1>5
  <2>2. PromiseAt(protocol, k) = [stage |-> "pending", ask |-> ask]
    <3>1. k.stage = "sent" /\ k.ask = ask
      OBVIOUS
    <3> HIDE DEF k
    <3> QED BY <3>1, PromiseByStage
  <2> HIDE DEF k
  <2>3. /\ Promises' = [Promises EXCEPT ![c] = [stage |-> "pending", ask |-> ask]]
        /\ Promises'[c] = [stage |-> "pending", ask |-> ask]
    BY <1>6, <2>1, <2>2, OneChanges
  <2>4. ask \in MayBeAsked
    BY DEF CallsOK, MayBeAsked
  <2> QED BY <1>2, <1>3, <2>3, <2>4, IsCall
<1> QED BY <1>4, <1>5

\* A caller that is done with a promise.
LEMMA ForgetPromises ==
    ASSUME CallsOK, NEW c \in Callers, Forget(c)
    PROVE  Promise!Forget(c)
<1>1. call' = [call EXCEPT ![c] = Idle] /\ call[c].stage \in {"resolved", "rejected"}
  BY DEF Forget
<1>2. Promises[c].stage \in {"resolved", "failed"}
  BY <1>1, PromisesAre, PromiseByStage
<1>3. Promises' = [Promises EXCEPT ![c] = Idle]
  <2>1. PromiseAt(protocol, Idle) = Idle
    BY PromiseByStage
  <2>2. UNCHANGED protocol
    BY DEF Forget
  <2> QED BY <1>1, <2>1, <2>2, OneChanges
<1>4. UNCHANGED Values(cells)
  BY SameCells DEF Forget
<1> QED BY <1>2, <1>3, <1>4, IsForget

\* A call that is served takes effect.
LEMMA ServePromises ==
    ASSUME CallsOK, NEW c \in Callers, Serve(c)
    PROVE  Promise!Do(c)
<1> DEFINE k == call'[c]
           ask == call[c].ask
<1>1. /\ Values(cells') = Promise!Overlay(Promise!Sets(ask), Values(cells))
      /\ call' = [call EXCEPT ![c] = k]
      /\ k.stage = "answered" /\ k.answer.status \in {0} \cup 200..399
      /\ MeantAll(ResultOf(protocol, k)) = Promise!Outcome(ask, Values(cells'))
  BY ServeDoes
<1> HIDE DEF k
<1>2. PromiseAt(protocol, k) = [stage |-> "done", result |-> Promise!Outcome(ask, Values(cells'))]
  BY <1>1, PromiseByStage DEF InEffect
<1>3. Promises'
          = [Promises EXCEPT ![c]
              = [stage |-> "done", result |-> Promise!Outcome(ask, Values(cells'))]]
  BY <1>1, <1>2, OneChanges DEF Serve
<1>4. Promises[c].stage = "pending" /\ Promises[c].ask = ask
  BY PromisesAre, PromiseByStage DEF Serve
<1>5. Values(cells)' = Values(cells')
  BY DEF Values
<1> QED BY <1>1, <1>3, <1>4, <1>5, IsDo

\* One that is refused has not taken effect.
LEMMA RefusePromises ==
    ASSUME CallsOK, NEW c \in Callers, Refuse(c)
    PROVE  UNCHANGED <<Values(cells), Promises>>
<1>1. PICK refusal \in Refusals : call' = [call EXCEPT ![c] = Answered(call[c], refusal)]
  BY DEF Refuse
<1> DEFINE k == Answered(call[c], refusal)
<1>2. k.stage = "answered" /\ k.ask = call[c].ask /\ k.answer = refusal
  BY DEF Answered
<1>3. refusal.status \notin {0} \cup 200..399
  <2>1. CASE protocol = "http"
    <3>1. refusal.status \in RefusalStatuses
      BY <2>1 DEF Refusals
    <3> QED BY <3>1, ClientAssumption
  <2>2. CASE protocol # "http"
    BY <2>2 DEF Refusals
  <2> QED BY <2>1, <2>2
<1> HIDE DEF k
<1>4. PromiseAt(protocol, k) = [stage |-> "pending", ask |-> call[c].ask]
  BY <1>2, <1>3, PromiseByStage DEF InEffect
<1>5. PromiseAt(protocol, call[c]) = [stage |-> "pending", ask |-> call[c].ask]
  BY PromiseByStage DEF Refuse
<1>6. Promises' = [Promises EXCEPT ![c] = Promises[c]]
  BY <1>1, <1>4, <1>5, OneChanges DEF k, Refuse
<1>7. Promises' = Promises
  BY <1>6 DEF Promises
<1> QED BY <1>7, SameCells DEF Refuse

\* A call whose connection fails, whether or not it took effect.
LEMMA ConnectionFailsPromises ==
    ASSUME CallsOK, NEW c \in Callers, ConnectionFails(c)
    PROVE  Promise!Fail(c)
<1>1. call' = [call EXCEPT ![c] = Failed(call[c].ask)] /\ call[c].stage \in {"sent", "answered"}
  BY DEF ConnectionFails
<1>2. Promises[c].stage \in {"pending", "done"}
  <2>1. CASE call[c].stage = "sent"
    BY <2>1, PromisesAre, PromiseByStage
  <2>2. CASE call[c].stage = "answered" /\ InEffect(call[c])
    BY <2>2, PromisesAre, PromiseByStage
  <2>3. CASE call[c].stage = "answered" /\ ~InEffect(call[c])
    BY <2>3, PromisesAre, PromiseByStage
  <2> QED BY <1>1, <2>1, <2>2, <2>3
<1>3. Promises' = [Promises EXCEPT ![c] = [stage |-> "failed"]]
  <2>1. UNCHANGED protocol
    BY DEF ConnectionFails
  <2>2. PromiseAt(protocol, Failed(call[c].ask)) = [stage |-> "failed"]
    BY FailedIs
  <2> QED BY <1>1, <2>1, <2>2, OneChanges
<1>4. UNCHANGED Values(cells)
  BY SameCells DEF ConnectionFails
<1> QED BY <1>2, <1>3, <1>4, IsFail

\* An answer settles its promise, with what there was when the call took effect.
LEMMA AnswerPromises ==
    ASSUME CallsOK, NEW c \in Callers, AnswerArrives(c)
    PROVE  Promise!Resolve(c) \/ Promise!Fail(c)
<1> DEFINE k == call[c]
           settled == Settled(k.ask, k.answer)
<1>1. call' = [call EXCEPT ![c] = settled] /\ k.stage = "answered"
  BY DEF AnswerArrives
<1>2. UNCHANGED Values(cells)
  BY SameCells DEF AnswerArrives
<1>3. Promises' = [Promises EXCEPT ![c] = PromiseAt(protocol, settled)]
  BY <1>1, OneChanges DEF AnswerArrives
<1>4. StatusGood(protocol, k.answer.status) /\ protocol \in {"http", "grpc"}
  BY <1>1, ClientAssumption DEF CallsOK, CallGood
<1>5. \/ settled = Failed(k.ask) \/ settled = Unsettled
      \/ settled = Resolved(ResultOf(protocol, k)) /\ InEffect(k)
  <2>1. CASE protocol = "http"
    <3>1. HTTP!Succeeds(k.answer.status) => InEffect(k)
      <4>1. k.answer.status \in {200, 204} \/ k.answer.status \in 400..599
        BY <1>4, <2>1, ClientAssumption DEF StatusGood
      <4>2. HTTP!Succeeds(k.answer.status) => k.answer.status \in 200..399
        BY <4>1 DEF HTTP!Succeeds
      <4> QED BY <1>1, <4>2 DEF InEffect
    <3>2. settled = IF HTTP!Succeeds(k.answer.status)
              THEN Resolved(HTTP!Result(k.ask, k.answer.text))
                    ELSE Failed(k.ask)
      BY <2>1 DEF Settled
    <3> QED BY <2>1, <3>1, <3>2 DEF ResultOf
  <2>2. CASE protocol = "grpc"
    BY <1>1, <2>2 DEF Settled, ResultOf, InEffect
  <2> QED BY <1>4, <2>1, <2>2
<1> HIDE DEF settled
<1>6. Promises[c].stage \in {"pending", "done"}
  BY <1>1, PromisesAre, PromiseByStage
<1>7. CASE PromiseAt(protocol, settled) = [stage |-> "failed"]
  BY <1>2, <1>3, <1>6, <1>7, IsFail
<1>8. CASE settled = Resolved(ResultOf(protocol, k)) /\ InEffect(k)
  <2> DEFINE result == ResultOf(protocol, k)
  <2>1. settled.stage = "resolved" /\ settled.result = result
    BY <1>8 DEF Resolved
  <2> HIDE DEF result
  <2>2. CASE result # <<False>>
    <3>1. PromiseAt(protocol, settled) = [stage |-> "resolved", result |-> MeantAll(result)]
      BY <2>1, <2>2, PromiseByStage
    <3>2. Promises[c] = [stage |-> "done", result |-> MeantAll(result)]
      BY <1>1, <1>8, PromisesAre, PromiseByStage DEF result
    <3>3. [Promises[c] EXCEPT !.stage = "resolved"]
              = [stage |-> "resolved", result |-> MeantAll(result)]
      BY <3>2
    <3>4. Promises' = [Promises EXCEPT ![c].stage = "resolved"]
      BY <1>3, <3>1, <3>3
    <3>5. Promises[c].stage = "done"
      BY <3>2
    <3> QED BY <1>2, <3>4, <3>5, IsResolve
  <2>3. CASE result = <<False>>
    BY <1>7, <2>1, <2>3, PromiseByStage
  <2> QED BY <2>2, <2>3
<1>9. CASE settled = Failed(k.ask) \/ settled = Unsettled
  <2>1. PromiseAt(protocol, Unsettled) = [stage |-> "failed"]
    BY PromiseByStage DEF Unsettled
  <2> QED BY <1>7, <1>9, <2>1, FailedIs
<1> QED BY <1>5, <1>8, <1>9

\* A stop changes no promise.
LEMMA StopPromises ==
    ASSUME CallsOK, Stop
    PROVE  UNCHANGED <<Values(cells), Promises>>
<1>4. call' = IF protocol = "grpc" THEN call
              ELSE [c \in Callers |-> IF call[c].stage \in {"sent", "answered"}
                                      THEN [call[c] EXCEPT !.cut = TRUE] ELSE call[c]]
  BY DEF Stop
<1>1. ASSUME NEW c \in Callers
      PROVE  PromiseAt(protocol, call'[c]) = PromiseAt(protocol, call[c])
  <2>1. \/ call'[c] = call[c]
        \/ call[c].stage \in {"sent", "answered"} /\ call'[c] = [call[c] EXCEPT !.cut = TRUE]
    <3>1. CASE protocol = "grpc" \/ call[c].stage \notin {"sent", "answered"}
      <4>1. call'[c] = call[c]
        BY <1>4, <3>1
      <4> QED BY <4>1
    <3>2. CASE ~(protocol = "grpc" \/ call[c].stage \notin {"sent", "answered"})
      <4>1. call'[c] = [call[c] EXCEPT !.cut = TRUE]
        BY <1>4, <3>2
      <4> QED BY <3>2, <4>1
    <3> QED BY <3>1, <3>2
  <2>2. CASE call[c].stage \in {"sent", "answered"} /\ call'[c] = [call[c] EXCEPT !.cut = TRUE]
    <3> DEFINE k == call[c]
               cut == [k EXCEPT !.cut = TRUE]
    <3>1. {"stage", "ask"} \subseteq DOMAIN k /\ (k.stage = "answered" => "answer" \in DOMAIN k)
      BY <2>2 DEF CallsOK, CallGood
    <3>2. cut.stage = k.stage /\ cut.ask = k.ask
              /\ (k.stage = "answered" => cut.answer = k.answer)
      BY <3>1
    <3> HIDE DEF cut
    <3>3. k.stage = "answered" =>
             (InEffect(cut) <=> InEffect(k)) /\ ResultOf(protocol, cut) = ResultOf(protocol, k)
      BY <3>2 DEF InEffect, ResultOf
    <3>4. PromiseAt(protocol, cut) = PromiseAt(protocol, k)
      BY <2>2, <3>2, <3>3, PromiseByStage
    <3> QED BY <2>2, <3>4 DEF cut
  <2> QED BY <2>1, <2>2
<1>2. protocol' = protocol /\ cells' = cells
  BY DEF Stop
<1>3. \A c \in Callers : Promises'[c] = Promises[c]
  BY <1>1, <1>2, PromiseIs DEF Promises
<1> QED BY <1>2, <1>3, SameCells DEF Promises

\* A configuration that changes.
LEMMA ChangePromises ==
    ASSUME CallsOK, ConfigurationChanges
    PROVE  Promise!Change
<1>1. /\ DOMAIN cells' = DOMAIN cells
      /\ \A cell \in DOMAIN cells : cell # Configuration => cells'[cell] = cells[cell]
  BY ChangeKeepsCells DEF CallsOK
<1>2. \A cell : cell[1] # "configuration" => cell # Configuration
  BY DEF Configuration
<1>3. /\ DOMAIN Values(cells)' = DOMAIN Values(cells)
      /\ \A cell \in DOMAIN Values(cells) :
            cell[1] # "configuration" => Values(cells)'[cell] = Values(cells)[cell]
  BY <1>1, <1>2 DEF Values
<1>4. UNCHANGED Promises
  BY PromiseIs DEF ConfigurationChanges, Promises
<1> QED BY <1>3, <1>4, IsChange

\* A step that leaves the calls and the cells.
LEMMA NothingPromises ==
    ASSUME UNCHANGED <<protocol, cells, call>>
    PROVE  UNCHANGED <<Values(cells), Promises>>
BY PromiseIs DEF Values, Promises

\* Every step of the client is a step of its promises, or none.
LEMMA StepPromises == CallsOK /\ [Next]_vars => [Promise!Next]_<<Values(cells), Promises>>
<1> SUFFICES ASSUME CallsOK, [Next]_vars
             PROVE  Promise!Next \/ UNCHANGED <<Values(cells), Promises>>
  OBVIOUS
<1>1. CASE CallsNext
  <2>1. ASSUME NEW c \in Callers,
               Ask(c) \/ Forget(c) \/ Serve(c) \/ Refuse(c) \/ ConnectionFails(c)
                   \/ AnswerArrives(c)
        PROVE  Promise!Next \/ UNCHANGED <<Values(cells), Promises>>
    BY <2>1, AskPromises, ForgetPromises, ServePromises, RefusePromises, ConnectionFailsPromises,
       AnswerPromises DEF Promise!Next
  <2>2. CASE Stop
    BY <2>2, StopPromises
  <2>3. CASE SidecarStarts
    BY <2>3, NothingPromises DEF SidecarStarts
  <2> QED BY <1>1, <2>1, <2>2, <2>3 DEF CallsNext
<1>2. CASE ConfigurationChanges
  BY <1>2, ChangePromises DEF Promise!Next
<1>3. ASSUME NEW s \in Subscribers, Subscribe(s)
      PROVE  UNCHANGED <<Values(cells), Promises>>
  BY <1>3, NothingPromises DEF Subscribe
<1>4. CASE UNCHANGED callVars
  BY <1>4, NothingPromises DEF callVars
<1> QED BY <1>1, <1>2, <1>3, <1>4 DEF Next, vars, DataArrives, CallbackEnds, StopSubscription,
            StopAnswered, StopFails, SidecarRegisters, SidecarUnsubscribes

\* Nothing is promised at first.
LEMMA PromisesInitially == Init => Promise!Init
<1> SUFFICES ASSUME Init PROVE Promise!Init
  OBVIOUS
<1>1. cells = Texts /\ \A c \in Callers : call[c] = Idle
  BY DEF Init, CallsInit
<1>2. \A c \in Callers : PromiseOf(c) = Idle
  BY <1>1, PromiseIs, PromiseByStage
<1> QED BY <1>1, <1>2 DEF Promise!Init, Promise!Idle, Idle

(***************************************************************************)
(* What a subscription hears.                                              *)
(***************************************************************************)

Versions == 0..MaxVersion

TextOf(n) == PlainText(ToString(n))

Said == {String(TextOf(n)) : n \in Versions}

Update(s, n) == ConfigurationUpdate(s, TextOf(n))

Updates(s) == {Update(s, n) : n \in Versions}

\* How often the configuration changes.
LEMMA Bounded == MaxVersion \in Nat
BY SubscriptionAssumption

\* A text tells the version it is of.
LEMMA TextsDiffer ==
    ASSUME NEW m \in Versions, NEW n \in Versions, TextOf(m) = TextOf(n)
    PROVE  m = n
<1>1. ToString(m) = ToString(n)
  BY DEF TextOf, PlainText
<1> QED BY <1>1, SubscriptionAssumption DEF Versions

\* The callback is called with the text that the sidecar sends.
LEMMA UpdateTells ==
    ASSUME NEW s, NEW text
    PROVE  Wrapped(ConfigurationUpdate(s, text)) = <<String(text)>>
<1> DEFINE item == [key |-> PlainText("k"), value |-> text]
           items == <<Wire(ConfigurationItem, item)>>
           message == [id |-> PlainText(s), itemsList |-> items]
<1>1. SubscribeConfigurationResponse \in AllSchemas /\ ConfigurationItem \in AllSchemas
  BY DEF AllSchemas
<1>2. /\ DOMAIN message \subseteq DOMAIN SubscribeConfigurationResponse
      /\ DOMAIN item \subseteq DOMAIN ConfigurationItem
  BY DEF SubscribeConfigurationResponse, ConfigurationItem
<1>3. /\ "itemsList" \in DOMAIN message /\ message["itemsList"] = items
      /\ "value" \in DOMAIN item /\ item["value"] = text
  OBVIOUS
<1>4. DOMAIN items = {1} /\ items[1] = Wire(ConfigurationItem, item)
  OBVIOUS
<1>5. ConfigurationUpdate(s, text) = Wire(SubscribeConfigurationResponse, message)
  BY DEF ConfigurationUpdate
<1> HIDE DEF item, items, message
<1>6. Read(SubscribeConfigurationResponse, ConfigurationUpdate(s, text)).itemsList = items
  BY <1>1, <1>2, <1>3, <1>5, ReadBack
<1>7. Read(ConfigurationItem, items[1]).value = text
  BY <1>1, <1>2, <1>3, <1>4, ReadBack
<1>8. GRPC!ConfigurationResult(items) = <<String(text)>>
  <2>1. GRPC!ConfigurationResult(items) = [i \in {1} |-> String(text)]
    BY <1>4, <1>7, SameValues, SameMessages DEF GRPC!ConfigurationResult
  <2>2. [i \in {1} |-> String(text)] = <<String(text)>>
    OBVIOUS
  <2> QED BY <2>1, <2>2
<1> QED BY <1>6, <1>8 DEF Wrapped

\* What was heard and what is on its way are the versions from the first on.
Follows(s, heard, items, first) ==
    /\ first \in Nat /\ first + Len(heard) + Len(items) <= MaxVersion + 1
    /\ \A i \in 1..Len(heard) : heard[i] = String(TextOf(first + i - 1))
    /\ \A i \in 1..Len(items) : items[i] = Update(s, first + Len(heard) + i - 1)

\* Before anything is heard.
LEMMA NothingFollows ==
    ASSUME NEW s, NEW first \in 0..MaxVersion + 1
    PROVE  Follows(s, <<>>, <<>>, first)
<1>1. Len(<<>>) = 0 /\ first \in Nat /\ first <= MaxVersion + 1
  BY Bounded
<1>2. first + 0 + 0 = first /\ 1..0 = {}
  BY <1>1
<1> QED BY <1>1, <1>2 DEF Follows

\* An item that arrives.
LEMMA TakenFollows ==
    ASSUME NEW s, NEW heard \in Seq(Said), NEW items \in Seq(Updates(s)), items # <<>>,
           NEW first, Follows(s, heard, items, first)
    PROVE  LET more == heard \o Wrapped(Head(items))
           IN /\ more \in Seq(Said) /\ Tail(items) \in Seq(Updates(s))
              /\ Len(more) + Len(Tail(items)) = Len(heard) + Len(items)
              /\ Follows(s, more, Tail(items), first)
<1> DEFINE h == Len(heard)
           text == String(TextOf(first + h))
           more == heard \o <<text>>
           rest == Tail(items)
<1>1. h \in Nat /\ Len(items) \in Nat \ {0} /\ first \in Nat /\ MaxVersion \in Nat
      /\ first + h + Len(items) <= MaxVersion + 1
  <2>1. first \in Nat /\ first + h + Len(items) <= MaxVersion + 1
    BY DEF Follows
  <2>2. h \in Nat /\ Len(items) \in Nat \ {0}
    OBVIOUS
  <2> QED BY <2>1, <2>2, Bounded
<1>2. Head(items) = Update(s, first + h)
  <2>1. 1 \in 1..Len(items) /\ Head(items) = items[1] /\ first + h + 1 - 1 = first + h
    BY <1>1
  <2> QED BY <2>1 DEF Follows
<1>3. Wrapped(Head(items)) = <<text>>
  BY <1>2, UpdateTells DEF Update
<1>4. first + h \in Versions
  BY <1>1 DEF Versions
<1>5. text \in Said
  BY <1>4 DEF Said
<1> HIDE DEF text
<1>6. more \in Seq(Said) /\ rest \in Seq(Updates(s)) /\ Len(more) = h + 1
          /\ Len(rest) = Len(items) - 1
  BY <1>1, <1>5
<1>7. ASSUME NEW i \in 1..Len(more)
      PROVE  more[i] = String(TextOf(first + i - 1))
  <2>1. CASE i \in 1..h
    BY <1>5, <2>1 DEF Follows
  <2>2. CASE i = h + 1
    <3>1. more[i] = text /\ first + i - 1 = first + h
      BY <1>1, <1>5, <2>2
    <3> QED BY <3>1 DEF text
  <2> QED BY <1>1, <1>6, <2>1, <2>2
<1>8. ASSUME NEW i \in 1..Len(rest)
      PROVE  rest[i] = Update(s, first + Len(more) + i - 1)
  <2>1. rest[i] = items[i + 1] /\ i + 1 \in 1..Len(items)
    BY <1>1, <1>6
  <2>2. items[i + 1] = Update(s, first + h + (i + 1) - 1)
    BY <2>1 DEF Follows
  <2>3. first + h + (i + 1) - 1 = first + Len(more) + i - 1
    BY <1>1, <1>6
  <2> QED BY <2>1, <2>2, <2>3
<1> HIDE DEF more, rest
<1>9. Follows(s, more, rest, first)
  BY <1>1, <1>6, <1>7, <1>8 DEF Follows
<1>10. Len(more) + Len(rest) = h + Len(items)
  BY <1>1, <1>6
<1> QED BY <1>3, <1>6, <1>9, <1>10 DEF more, rest

\* An item that is sent.
LEMMA AddedFollows ==
    ASSUME NEW s, NEW heard \in Seq(Said), NEW items \in Seq(Updates(s)),
           NEW first, Follows(s, heard, items, first),
           NEW version, version = first + Len(heard) + Len(items), version <= MaxVersion
    PROVE  LET more == Append(items, Update(s, version))
           IN /\ more \in Seq(Updates(s)) /\ Len(more) = Len(items) + 1
              /\ Follows(s, heard, more, first)
<1> DEFINE u == Update(s, version)
           more == Append(items, u)
<1>1. Len(heard) \in Nat /\ Len(items) \in Nat /\ first \in Nat /\ MaxVersion \in Nat
  <2>1. first \in Nat
    BY DEF Follows
  <2>2. Len(heard) \in Nat /\ Len(items) \in Nat
    OBVIOUS
  <2> QED BY <2>1, <2>2, Bounded
<1>2. u \in Updates(s)
  <2>1. version \in Versions
    BY <1>1 DEF Versions
  <2> QED BY <2>1 DEF Updates
<1> HIDE DEF u
<1>3. more \in Seq(Updates(s)) /\ Len(more) = Len(items) + 1
  BY <1>2
<1>4. ASSUME NEW i \in 1..Len(more)
      PROVE  more[i] = Update(s, first + Len(heard) + i - 1)
  <2>1. CASE i \in 1..Len(items)
    BY <1>2, <2>1 DEF Follows
  <2>2. CASE i = Len(items) + 1
    <3>1. more[i] = u /\ first + Len(heard) + i - 1 = version
      BY <1>1, <1>2, <2>2
    <3> QED BY <3>1 DEF u
  <2> QED BY <1>1, <1>3, <2>1, <2>2
<1> HIDE DEF more
<1>5. Follows(s, heard, more, first)
  BY <1>1, <1>3, <1>4 DEF Follows
<1> QED BY <1>3, <1>5 DEF more, u

-----------------------------------------------------------------------------
Live == {"subscribed", "stopping", "unsubscribed", "kept"}

\* From which version on and up to which is heard.
UpTo(s, sub, version) ==
    /\ sub.since \in Nat /\ Follows(s, sub.heard, sub.items, sub.since + 1)
    /\ sub.stream = "registered" => sub.since + Len(sub.heard) + Len(sub.items) = version

Listens(s, sub, version) ==
    /\ sub.heard \in Seq(Said) /\ sub.items \in Seq(Updates(s))
    /\ sub.stream \in {"none", "asked"} =>
          sub.items = <<>> /\ sub.heard = <<>> /\ sub.since = 0
    /\ sub.stage \in Live => sub.listening /\ UpTo(s, sub, version)

VersionIn(in) == CHOOSE n \in Versions : in[Configuration] = TextOf(n)

Known(in) ==
    /\ Configuration \in DOMAIN in
    /\ VersionIn(in) \in Versions /\ in[Configuration] = TextOf(VersionIn(in))

\* The configuration has one version.
LEMMA VersionIs ==
    ASSUME NEW in, NEW n \in Versions, Configuration \in DOMAIN in, in[Configuration] = TextOf(n)
    PROVE  VersionIn(in) = n /\ Known(in)
<1>1. VersionIn(in) \in Versions /\ in[Configuration] = TextOf(VersionIn(in))
  BY DEF VersionIn
<1>2. VersionIn(in) = n
  BY <1>1, TextsDiffer
<1> QED BY <1>1, <1>2 DEF Known

\* The version is that of the configuration's text.
LEMMA VersionNow == Version = VersionIn(cells) /\ Version' = VersionIn(cells')
BY DEF Version, VersionIn, Versions, TextOf

HInv ==
    /\ CallsOK /\ IInv
    /\ Known(cells)
    /\ \A s \in Subscribers : Listens(s, subscription[s], VersionIn(cells))

AllListen == \A s \in Subscribers : Listens(s, subscription'[s], VersionIn(cells'))

\* A subscription that keeps what it heard and what is on its way to it.
LEMMA StillListens ==
    ASSUME NEW s, NEW sub, NEW new, NEW version, Listens(s, sub, version),
           new.heard = sub.heard, new.items = sub.items, new.listening = sub.listening,
           new.since = sub.since,
           new.stage \in Live => sub.stage \in Live,
           new.stream = sub.stream \/ new.stream = "ended"
    PROVE  Listens(s, new, version)
<1>1. UpTo(s, sub, version) => UpTo(s, new, version)
  BY DEF UpTo
<1> QED BY <1>1 DEF Listens

\* A step that leaves the cells and every subscription but one.
LEMMA OneListens ==
    ASSUME HInv, NEW s \in Subscribers, NEW new, UNCHANGED cells,
           subscription' = [subscription EXCEPT ![s] = new],
           Listens(s, new, VersionIn(cells))
    PROVE  AllListen
BY DEF HInv, IInv, AllListen

\* A subscription starts with nothing heard.
LEMMA SubscribeListens ==
    ASSUME HInv, NEW s \in Subscribers, Subscribe(s)
    PROVE  AllListen
<1> DEFINE sub == subscription[s]
           new == IF protocol = "http" \/ ~open THEN [sub EXCEPT !.stage = "refused"]
                  ELSE [sub EXCEPT !.stage = "subscribed", !.stream = "asked",
                                   !.listening = TRUE]
<1>1. Own(s, sub) /\ Listens(s, sub, VersionIn(cells)) /\ sub.stage = "none"
  BY DEF HInv, IInv, Subscribe
<1>2. sub.stream = "none" /\ sub.items = <<>> /\ sub.heard = <<>> /\ sub.since = 0
  BY <1>1 DEF Own, Listens
<1>3. /\ new.items = <<>> /\ new.heard = <<>> /\ new.since = 0 /\ new.stream \in {"none", "asked"}
      /\ new.stage \in {"refused", "subscribed"}
      /\ new.stage = "subscribed" => new.listening
  BY <1>1, <1>2 DEF Own, IsSubscription, Fields
<1>4. subscription' = [subscription EXCEPT ![s] = new] /\ UNCHANGED cells
  BY DEF Subscribe
<1> HIDE DEF new
<1>5. UpTo(s, new, VersionIn(cells))
  <2>1. Follows(s, <<>>, <<>>, 0 + 1) /\ 0 \in Nat
    <3>1. 0 + 1 \in 0..MaxVersion + 1
      BY Bounded
    <3> QED BY <3>1, NothingFollows
  <2>2. new.stream # "registered"
    BY <1>3
  <2> QED BY <1>3, <2>1, <2>2 DEF UpTo
<1>6. Listens(s, new, VersionIn(cells))
  <2>1. <<>> \in Seq(Said) /\ <<>> \in Seq(Updates(s))
    OBVIOUS
  <2> QED BY <1>3, <1>5, <2>1 DEF Listens, Live
<1> QED BY <1>4, <1>6, OneListens

\* The callback is called with the next version, or no longer listened for.
LEMMA DataArrivesListens ==
    ASSUME HInv, NEW s \in Subscribers, DataArrives(s)
    PROVE  AllListen
<1> DEFINE sub == subscription[s]
           bytes == Head(sub.items)
           version == VersionIn(cells)
<1>1. IsSubscription(sub) /\ Listens(s, sub, version) /\ sub.items # <<>> /\ UNCHANGED cells
  BY DEF HInv, IInv, Own, DataArrives, callVars
<1>2. sub.heard \in Seq(Said) /\ sub.items \in Seq(Updates(s))
          /\ sub.stream \notin {"none", "asked"}
  BY <1>1 DEF Listens
<1>3. CASE sub.listening
  <2> DEFINE more == sub.heard \o Wrapped(bytes)
             rest == Tail(sub.items)
             taken == [sub EXCEPT !.items = Tail(@), !.streamId = StreamIdOf(bytes),
                                  !.heard = @ \o Wrapped(bytes), !.running = @ + 1]
  <2>1. /\ taken.items = rest /\ taken.heard = more /\ taken.stage = sub.stage
        /\ taken.since = sub.since
        /\ taken.stream = sub.stream /\ taken.listening = sub.listening
    BY <1>1 DEF IsSubscription, Fields
  <2>2. subscription' = [subscription EXCEPT ![s] = taken]
    BY <1>3 DEF DataArrives
  <2>3. ASSUME NEW first, Follows(s, sub.heard, sub.items, first)
        PROVE  /\ Len(more) + Len(rest) = Len(sub.heard) + Len(sub.items)
               /\ Follows(s, more, rest, first)
    BY <1>1, <1>2, <2>3, TakenFollows
  <2>4. Wrapped(bytes) \in Seq(Said) /\ rest \in Seq(Updates(s))
    <3>1. PICK n \in Versions : bytes = Update(s, n)
      BY <1>1, <1>2 DEF Updates
    <3>2. Wrapped(bytes) = <<String(TextOf(n))>>
      BY <3>1, UpdateTells DEF Update
    <3>3. String(TextOf(n)) \in Said
      BY DEF Said
    <3>4. <<String(TextOf(n))>> \in Seq(Said)
      BY <3>3
    <3>5. rest \in Seq(Updates(s))
      BY <1>1, <1>2
    <3> QED BY <3>2, <3>4, <3>5
  <2>5. more \in Seq(Said)
    BY <1>2, <2>4
  <2> HIDE DEF taken, more, rest, bytes
  <2>6. ASSUME UpTo(s, sub, version)
        PROVE  UpTo(s, taken, version)
    <3> DEFINE since == sub.since
    <3>1. /\ since \in Nat /\ Follows(s, sub.heard, sub.items, since + 1)
          /\ sub.stream = "registered" => since + Len(sub.heard) + Len(sub.items) = version
      BY <2>6 DEF UpTo
    <3>2. /\ Len(more) + Len(rest) = Len(sub.heard) + Len(sub.items)
          /\ Follows(s, more, rest, since + 1)
      BY <2>3, <3>1
    <3>3. since + Len(more) + Len(rest) = since + Len(sub.heard) + Len(sub.items)
      <4>1. Len(more) \in Nat /\ Len(rest) \in Nat /\ Len(sub.heard) \in Nat
                /\ Len(sub.items) \in Nat
        BY <1>2, <2>4, <2>5
      <4>2. Len(more) + Len(rest) = Len(sub.heard) + Len(sub.items) /\ since \in Nat
        BY <3>1, <3>2
      <4> DEFINE a == Len(more) b == Len(rest) c == Len(sub.heard) d == Len(sub.items)
      <4>3. a \in Nat /\ b \in Nat /\ c \in Nat /\ d \in Nat /\ a + b = c + d
        BY <4>1, <4>2
      <4> HIDE DEF a, b, c, d, since
      <4>4. since + a + b = since + c + d
        BY <4>2, <4>3
      <4> QED BY <4>4 DEF a, b, c, d
    <3> QED BY <2>1, <3>1, <3>2, <3>3 DEF UpTo
  <2>7. Listens(s, taken, version)
    BY <1>1, <1>2, <2>1, <2>4, <2>5, <2>6 DEF Listens
  <2> QED BY <1>1, <2>2, <2>7, OneListens
<1>4. CASE ~sub.listening
  <2> DEFINE dropped == [sub EXCEPT !.items = Tail(@)]
  <2>1. /\ dropped.items = Tail(sub.items) /\ dropped.heard = sub.heard
        /\ dropped.stage = sub.stage /\ dropped.stream = sub.stream
        /\ dropped.since = sub.since
    BY <1>1 DEF IsSubscription, Fields
  <2>2. subscription' = [subscription EXCEPT ![s] = dropped]
    BY <1>4 DEF DataArrives
  <2>3. sub.stage \notin Live
    BY <1>1, <1>4 DEF Listens
  <2>4. Tail(sub.items) \in Seq(Updates(s))
    BY <1>1, <1>2
  <2> HIDE DEF dropped
  <2>5. Listens(s, dropped, version)
    BY <1>2, <2>1, <2>3, <2>4 DEF Listens
  <2> QED BY <1>1, <2>2, <2>5, OneListens
<1> QED BY <1>3, <1>4

\* The end of a callback changes nothing that is heard.
LEMMA CallbackEndsListens ==
    ASSUME HInv, NEW s \in Subscribers, CallbackEnds(s)
    PROVE  AllListen
<1> DEFINE sub == subscription[s]
           new == [sub EXCEPT !.running = @ - 1]
<1>1. IsSubscription(sub) /\ Listens(s, sub, VersionIn(cells)) /\ UNCHANGED cells
  BY DEF HInv, IInv, Own, CallbackEnds, callVars
<1>2. subscription' = [subscription EXCEPT ![s] = new]
  BY DEF CallbackEnds, HInv, IInv
<1>3. /\ new.items = sub.items /\ new.heard = sub.heard /\ new.listening = sub.listening
      /\ new.stream = sub.stream /\ new.stage = sub.stage /\ new.since = sub.since
  BY <1>1 DEF IsSubscription, Fields
<1> HIDE DEF new
<1>4. Listens(s, new, VersionIn(cells))
  BY <1>1, <1>3, StillListens
<1> QED BY <1>1, <1>2, <1>4, OneListens

\* A stop that is sent, or cannot be, goes on listening.
LEMMA StopSubscriptionListens ==
    ASSUME HInv, NEW s \in Subscribers, StopSubscription(s)
    PROVE  AllListen
<1> DEFINE sub == subscription[s]
           sent == Wire(UnsubscribeConfigurationRequest,
                        [storeName |-> PlainText("store"), id |-> PlainText(sub.streamId)])
           new == IF ~open THEN [sub EXCEPT !.stage = "kept"]
                  ELSE [sub EXCEPT !.stage = "stopping", !.request = sent]
<1>1. /\ IsSubscription(sub) /\ Listens(s, sub, VersionIn(cells)) /\ sub.stage \in Live
      /\ UNCHANGED cells
  BY DEF HInv, IInv, Own, StopSubscription, callVars, Live
<1>2. subscription' = [subscription EXCEPT ![s] = new]
  BY DEF StopSubscription
<1> HIDE DEF sent
<1>3. /\ new.items = sub.items /\ new.heard = sub.heard /\ new.listening = sub.listening
      /\ new.stream = sub.stream /\ new.since = sub.since
  BY <1>1 DEF IsSubscription, Fields
<1> HIDE DEF new
<1>4. Listens(s, new, VersionIn(cells))
  BY <1>1, <1>3, StillListens
<1> QED BY <1>1, <1>2, <1>4, OneListens

\* A stop that is refused goes on listening, and one that is not is over.
LEMMA StopAnsweredListens ==
    ASSUME HInv, NEW s \in Subscribers, StopAnswered(s)
    PROVE  AllListen
<1> DEFINE sub == subscription[s]
           kept == [sub EXCEPT !.stage = "kept"]
           stopped == [sub EXCEPT !.stage = "stopped", !.listening = FALSE, !.items = <<>>]
<1>1. /\ IsSubscription(sub) /\ Listens(s, sub, VersionIn(cells)) /\ sub.stage = "unsubscribed"
      /\ UNCHANGED cells
  BY DEF HInv, IInv, Own, StopAnswered, callVars
<1>2. subscription' = [subscription EXCEPT ![s] = IF ~sub.ok THEN kept ELSE stopped]
  BY DEF StopAnswered
<1>3. /\ kept.items = sub.items /\ kept.heard = sub.heard /\ kept.listening = sub.listening
      /\ kept.stream = sub.stream /\ kept.since = sub.since
      /\ stopped.items = <<>> /\ stopped.heard = sub.heard /\ stopped.stage = "stopped"
      /\ stopped.stream = sub.stream /\ stopped.since = sub.since
  BY <1>1 DEF IsSubscription, Fields
<1> HIDE DEF kept, stopped
<1>4. Listens(s, kept, VersionIn(cells))
  BY <1>1, <1>3, StillListens DEF Live
<1>5. Listens(s, stopped, VersionIn(cells))
  <2>1. <<>> \in Seq(Updates(s)) /\ stopped.stage \notin Live
    BY <1>3 DEF Live
  <2> QED BY <1>1, <1>3, <2>1 DEF Listens
<1>6. CASE sub.ok
  BY <1>1, <1>2, <1>5, <1>6, OneListens
<1>7. CASE ~sub.ok
  BY <1>1, <1>2, <1>4, <1>7, OneListens
<1> QED BY <1>6, <1>7

\* A stop that does not settle.
LEMMA StopFailsListens ==
    ASSUME HInv, NEW s \in Subscribers, StopFails(s)
    PROVE  AllListen
<1> DEFINE sub == subscription[s]
           new == [sub EXCEPT !.stage = "unsettled"]
<1>1. IsSubscription(sub) /\ Listens(s, sub, VersionIn(cells)) /\ UNCHANGED cells
  BY DEF HInv, IInv, Own, StopFails, callVars
<1>2. subscription' = [subscription EXCEPT ![s] = new]
  BY DEF StopFails, HInv, IInv
<1>3. /\ new.items = sub.items /\ new.heard = sub.heard /\ new.listening = sub.listening
      /\ new.stream = sub.stream /\ new.stage \notin Live /\ new.since = sub.since
  BY <1>1 DEF IsSubscription, Fields, Live
<1> HIDE DEF new
<1>4. Listens(s, new, VersionIn(cells))
  BY <1>1, <1>3, StillListens
<1> QED BY <1>1, <1>2, <1>4, OneListens

\* Nothing was sent to a subscription before it is registered.
LEMMA SidecarRegistersListens ==
    ASSUME HInv, NEW s \in Subscribers, SidecarRegisters(s)
    PROVE  AllListen
<1> DEFINE sub == subscription[s]
           new == [sub EXCEPT !.stream = "registered", !.since = Version]
           version == VersionIn(cells)
<1>1. /\ IsSubscription(sub) /\ Listens(s, sub, version) /\ sub.stream = "asked"
      /\ UNCHANGED cells
  BY DEF HInv, IInv, Own, SidecarRegisters, callVars
<1>2. subscription' = [subscription EXCEPT ![s] = new]
  BY DEF SidecarRegisters, HInv, IInv
<1>3. sub.items = <<>> /\ sub.heard = <<>>
  BY <1>1 DEF Listens
<1>4. /\ new.items = <<>> /\ new.heard = <<>> /\ new.listening = sub.listening
      /\ new.stage = sub.stage /\ new.stream = "registered" /\ new.since = version
  BY <1>1, <1>3, VersionNow DEF IsSubscription, Fields
<1> HIDE DEF new
<1>5. UpTo(s, new, version)
  <2>1. version \in Nat /\ version + 1 \in 0..MaxVersion + 1
    <3>1. version \in Versions
      BY DEF HInv, Known
    <3> HIDE DEF version
    <3> QED BY <3>1, Bounded DEF Versions
  <2> HIDE DEF version
  <2>2. Follows(s, <<>>, <<>>, version + 1)
    BY <2>1, NothingFollows
  <2>3. version + Len(<<>>) + Len(<<>>) = version
    BY <2>1
  <2> QED BY <1>4, <2>1, <2>2, <2>3 DEF UpTo
<1>6. Listens(s, new, version)
  BY <1>1, <1>3, <1>4, <1>5 DEF Listens
<1> QED BY <1>1, <1>2, <1>6, OneListens

\* A stream that the sidecar ends.
LEMMA SidecarUnsubscribesListens ==
    ASSUME HInv, NEW s \in Subscribers, SidecarUnsubscribes(s)
    PROVE  AllListen
<1> DEFINE id == IdOf(subscription[s].request)
<1>1. UNCHANGED cells /\ subscription[s].stage \in Live
  BY DEF SidecarUnsubscribes, callVars, Live
<1>2. subscription' = [t \in Subscribers |->
          [subscription[t] EXCEPT
              !.stream = IF t = id /\ t \in Registered THEN "ended" ELSE @,
              !.stage = IF t = s THEN "unsubscribed" ELSE @,
              !.ok = IF t = s THEN id \in Registered ELSE @]]
  BY DEF SidecarUnsubscribes, IdOf
<1> HIDE DEF id
<1>3. ASSUME NEW t \in Subscribers
      PROVE  Listens(t, subscription'[t], VersionIn(cells'))
  <2> DEFINE sub == subscription[t]
             new == subscription'[t]
  <2>1. IsSubscription(sub) /\ Listens(t, sub, VersionIn(cells))
    BY DEF HInv, IInv, Own
  <2>2. new = [sub EXCEPT
            !.stream = IF t = id /\ t \in Registered THEN "ended" ELSE @,
            !.stage = IF t = s THEN "unsubscribed" ELSE @,
            !.ok = IF t = s THEN id \in Registered ELSE @]
    BY <1>2
  <2>3. /\ new.items = sub.items /\ new.heard = sub.heard /\ new.listening = sub.listening
        /\ new.stream = sub.stream \/ new.stream = "ended"
        /\ new.since = sub.since
        /\ t = s \/ new.stage = sub.stage
    BY <2>1, <2>2 DEF IsSubscription, Fields
  <2> HIDE DEF new
  <2> QED BY <1>1, <2>1, <2>3, StillListens DEF new
<1> QED BY <1>3 DEF AllListen

\* The configuration is the sidecar's alone to change.
LEMMA CallsKeepVersion ==
    ASSUME HInv, CallsNext
    PROVE  VersionIn(cells') = VersionIn(cells) /\ Known(cells')
<1>1. Configuration \in DOMAIN cells' /\ cells'[Configuration] = cells[Configuration]
  <2>1. Configuration \in DOMAIN cells
    BY DEF HInv, Known
  <2>2. ASSUME NEW c \in Callers, Serve(c)
        PROVE  Configuration \in DOMAIN cells' /\ cells'[Configuration] = cells[Configuration]
    <3>1. CellsFit(cells') /\ ConfigurationKept
      BY <2>2, ServeDoes DEF HInv
    <3>2. Configuration[1] = "configuration"
      BY DEF Configuration
    <3>3. Configuration \in DOMAIN cells'
      BY <3>1, SubscriptionAssumption DEF CellsFit, Configuration
    <3> QED BY <2>1, <3>1, <3>2, <3>3 DEF ConfigurationKept
  <2>3. CASE UNCHANGED cells
    BY <2>1, <2>3
  <2> QED BY <2>2, <2>3 DEF CallsNext, Ask, Forget, Refuse, ConnectionFails, AnswerArrives,
              Stop, SidecarStarts
<1>2. VersionIn(cells) \in Versions /\ cells'[Configuration] = TextOf(VersionIn(cells))
  BY <1>1 DEF HInv, Known
<1> QED BY <1>1, <1>2, VersionIs

\* Streams that end with the sidecar.
LEMMA StreamsEndListens ==
    ASSUME HInv, CallsNext, StreamsEnd
    PROVE  AllListen
<1>1. ASSUME NEW s \in Subscribers
      PROVE  Listens(s, subscription'[s], VersionIn(cells'))
  <2> DEFINE sub == subscription[s]
             new == subscription'[s]
  <2>1. IsSubscription(sub) /\ Listens(s, sub, VersionIn(cells'))
    BY CallsKeepVersion DEF HInv, IInv, Own
  <2>2. new = IF up' \/ sub.stream = "none" THEN sub ELSE [sub EXCEPT !.stream = "ended"]
    BY DEF StreamsEnd
  <2>3. /\ new.items = sub.items /\ new.heard = sub.heard /\ new.listening = sub.listening
        /\ new.stream = sub.stream \/ new.stream = "ended"
        /\ new.stage = sub.stage /\ new.since = sub.since
    BY <2>1, <2>2 DEF IsSubscription, Fields
  <2> HIDE DEF new
  <2> QED BY <2>1, <2>3, StillListens DEF new
<1> QED BY <1>1 DEF AllListen

\* Every subscription that is registered is sent the change.
LEMMA ConfigurationChangesListens ==
    ASSUME HInv, ConfigurationChanges
    PROVE  AllListen /\ Known(cells')
<1> DEFINE version == VersionIn(cells)
           text == TextOf(version + 1)
<1>1. version \in Versions /\ version < MaxVersion /\ version + 1 \in Versions
  <2>1. version \in Versions /\ version < MaxVersion
    BY VersionNow DEF ConfigurationChanges, HInv, Known
  <2> QED BY <2>1, Bounded DEF Versions
<1>2. cells' = [cells EXCEPT ![Configuration] = text]
  BY VersionNow DEF ConfigurationChanges, TextOf
<1>3. subscription' = [s \in Subscribers |->
          IF s \notin Registered THEN subscription[s]
          ELSE [subscription[s] EXCEPT !.items = Append(@, ConfigurationUpdate(s, text))]]
  BY VersionNow DEF ConfigurationChanges, TextOf
<1>4. VersionIn(cells') = version + 1 /\ Known(cells')
  <2>1. Configuration \in DOMAIN cells' /\ cells'[Configuration] = text
    BY <1>2 DEF HInv, Known
  <2> HIDE DEF version
  <2> QED BY <1>1, <2>1, VersionIs
<1>5. ASSUME NEW s \in Subscribers
      PROVE  Listens(s, subscription'[s], version + 1)
  <2> DEFINE sub == subscription[s]
             new == subscription'[s]
  <2>1. IsSubscription(sub) /\ Listens(s, sub, version)
    BY DEF HInv, IInv, Own
  <2>2. CASE s \notin Registered
    <3>1. new = sub /\ sub.stream # "registered"
      BY <1>3, <2>2 DEF Registered
    <3>2. UpTo(s, sub, version) => UpTo(s, sub, version + 1)
      BY <3>1 DEF UpTo
    <3> QED BY <2>1, <3>1, <3>2 DEF Listens
  <2>3. CASE s \in Registered
    <3> DEFINE u == Update(s, version + 1)
               more == Append(sub.items, u)
    <3>1. sub.stream = "registered" /\ new = [sub EXCEPT !.items = more]
      BY <1>3, <2>3 DEF Registered, Update
    <3> HIDE DEF more
    <3>2. /\ new.items = more /\ new.heard = sub.heard /\ new.listening = sub.listening
          /\ new.stage = sub.stage /\ new.stream = "registered" /\ new.since = sub.since
      BY <2>1, <3>1 DEF IsSubscription, Fields
    <3>3. sub.heard \in Seq(Said) /\ sub.items \in Seq(Updates(s))
      BY <2>1 DEF Listens
    <3>4. Len(sub.heard) \in Nat /\ Len(sub.items) \in Nat /\ version \in Nat
      BY <1>1, <3>3 DEF Versions
    <3>5. u \in Updates(s)
      BY <1>1 DEF Updates
    <3>6. more \in Seq(Updates(s)) /\ Len(more) = Len(sub.items) + 1
      <4> HIDE DEF u
      <4> QED BY <3>3, <3>5 DEF more
    <3> HIDE DEF new, sub, version
    <3>7. ASSUME UpTo(s, sub, version)
          PROVE  UpTo(s, new, version + 1)
      <4> DEFINE since == sub.since
      <4>1. /\ since \in Nat /\ Follows(s, sub.heard, sub.items, since + 1)
            /\ since + Len(sub.heard) + Len(sub.items) = version
        BY <3>1, <3>7 DEF UpTo
      <4> HIDE DEF since
      <4> DEFINE m == Len(more) h == Len(sub.heard) n == Len(sub.items)
      <4>2. h \in Nat /\ n \in Nat /\ m = n + 1 /\ since + h + n = version
        BY <3>4, <3>6, <4>1
      <4>3. since + 1 + h + n = version + 1 /\ since + h + m = version + 1
        <5> HIDE DEF m, h, n
        <5> QED BY <4>1, <4>2
      <4>4. version + 1 <= MaxVersion
        BY <1>1, <3>4, Bounded
      <4>5. Follows(s, sub.heard, more, since + 1)
        BY <3>3, <4>1, <4>3, <4>4, AddedFollows DEF more, u
      <4> QED BY <3>2, <4>1, <4>3, <4>5 DEF UpTo, since
    <3> QED BY <2>1, <3>2, <3>3, <3>6, <3>7 DEF Listens, new, sub
  <2> QED BY <2>2, <2>3
<1> QED BY <1>4, <1>5 DEF AllListen

\* Nobody listens at first.
LEMMA HearsInitially == Init => HInv
<1> SUFFICES ASSUME Init PROVE HInv
  OBVIOUS
<1>1. CallsOK /\ IInv
  BY CallsOKInitially, Initially DEF Init
<1>2. Known(cells)
  <2>1. 0 \in Versions /\ cells[Configuration] = TextOf(0) /\ Configuration \in DOMAIN cells
    <3>1. 0 \in Versions
      BY Bounded DEF Versions
    <3>2. cells = Texts
      BY DEF Init, CallsInit
    <3>3. Texts[Configuration] = TextOf(0) /\ Configuration \in DOMAIN Texts
      BY SubscriptionAssumption DEF TextOf, Configuration
    <3> QED BY <3>1, <3>2, <3>3
  <2> QED BY <2>1, VersionIs
<1>3. ASSUME NEW s, NEW version
      PROVE  Listens(s, NotSubscribed, version)
  <2>1. <<>> \in Seq(Said) /\ <<>> \in Seq(Updates(s))
    OBVIOUS
  <2> QED BY <2>1 DEF Listens, NotSubscribed, Live
<1>4. \A s \in Subscribers : Listens(s, subscription[s], VersionIn(cells))
  BY <1>3 DEF Init
<1> QED BY <1>1, <1>2, <1>4 DEF HInv

\* Every step keeps what is known of the subscriptions.
LEMMA StepHears == HInv /\ [Next]_vars => HInv'
<1> SUFFICES ASSUME HInv, [Next]_vars PROVE HInv'
  OBVIOUS
<1>1. CallsOK' /\ IInv'
  BY CallsStayOK, StepGood, GoodKeeps DEF HInv
<1>2. AllListen /\ Known(cells')
  <2>1. CASE CallsNext /\ StreamsEnd
    BY <2>1, StreamsEndListens, CallsKeepVersion
  <2>2. CASE ConfigurationChanges
    BY <2>2, ConfigurationChangesListens
  <2>3. ASSUME NEW s \in Subscribers,
               \/ Subscribe(s) \/ DataArrives(s) \/ CallbackEnds(s)
               \/ StopSubscription(s) \/ StopAnswered(s) \/ StopFails(s)
               \/ SidecarRegisters(s) \/ SidecarUnsubscribes(s)
        PROVE  AllListen /\ Known(cells')
    <3>1. UNCHANGED cells
      BY <2>3 DEF Subscribe, DataArrives, CallbackEnds, StopSubscription, StopAnswered,
                  StopFails, SidecarRegisters, SidecarUnsubscribes, callVars
    <3>2. Known(cells')
      BY <3>1 DEF HInv
    <3>3. AllListen
      BY <2>3, SubscribeListens, DataArrivesListens, CallbackEndsListens,
         StopSubscriptionListens, StopAnsweredListens, StopFailsListens, SidecarRegistersListens, SidecarUnsubscribesListens
    <3> QED BY <3>2, <3>3
  <2>4. CASE UNCHANGED vars
    BY <2>4 DEF vars, callVars, HInv, AllListen
  <2> QED BY <2>1, <2>2, <2>3, <2>4 DEF Next
<1> QED BY <1>1, <1>2 DEF HInv, AllListen

\* Two sequences one after the other.
LEMMA Joined ==
    ASSUME NEW S, NEW a \in Seq(S), NEW b \in Seq(S)
    PROVE  /\ a \o b \in Seq(S) /\ Len(a \o b) = Len(a) + Len(b)
           /\ \A i \in 1..Len(a) : (a \o b)[i] = a[i]
           /\ \A i \in Len(a) + 1..Len(a) + Len(b) : (a \o b)[i] = b[i - Len(a)]
OBVIOUS

\* What is heard of a subscription that follows the versions.
LEMMA ListeningHears ==
    ASSUME HInv, NEW s \in Subscribers,
           subscription[s].stage \in {"subscribed", "stopping", "kept"}
    PROVE  LET sub == subscription[s]
               texts == sub.heard \o [i \in DOMAIN sub.items |-> Head(Wrapped(sub.items[i]))]
           IN /\ \A i \in DOMAIN texts : texts[i] = String(PlainText(ToString(sub.since + i)))
              /\ s \in Registered => sub.since + Len(texts) = Version
<1> DEFINE sub == subscription[s]
           h == Len(sub.heard)
           m == Len(sub.items)
           coming == [i \in DOMAIN sub.items |-> Head(Wrapped(sub.items[i]))]
           texts == sub.heard \o coming
           since == sub.since
           first == since + 1
<1>1. /\ sub.heard \in Seq(Said) /\ sub.items \in Seq(Updates(s))
      /\ UpTo(s, sub, VersionIn(cells))
  BY DEF HInv, Listens, Live
<1>2. h \in Nat /\ m \in Nat /\ DOMAIN sub.items = 1..m
  BY <1>1
<1>3. /\ since \in Nat /\ Follows(s, sub.heard, sub.items, first)
      /\ sub.stream = "registered" => since + h + m = VersionIn(cells)
  BY <1>1 DEF UpTo
<1> HIDE DEF since
<1>4. /\ first + h + m <= MaxVersion + 1
      /\ \A i \in 1..h : sub.heard[i] = String(TextOf(first + i - 1))
      /\ \A i \in 1..m : sub.items[i] = Update(s, first + h + i - 1)
  BY <1>3 DEF Follows
<1>5. \A i \in 1..m : coming[i] = String(TextOf(first + h + i - 1))
  <2> SUFFICES ASSUME NEW i \in 1..m PROVE coming[i] = String(TextOf(first + h + i - 1))
    OBVIOUS
  <2> DEFINE n == first + h + i - 1
  <2>1. sub.items[i] = Update(s, n)
    BY <1>4
  <2> HIDE DEF n
  <2>2. Wrapped(sub.items[i]) = <<String(TextOf(n))>>
    BY <2>1, UpdateTells DEF Update
  <2>3. coming[i] = Head(Wrapped(sub.items[i]))
    BY <1>2
  <2>4. coming[i] = String(TextOf(n))
    BY <2>2, <2>3
  <2> QED BY <2>4 DEF n
<1>6. \A i \in 1..m : coming[i] \in Said
  <2> SUFFICES ASSUME NEW i \in 1..m PROVE coming[i] \in Said
    OBVIOUS
  <2>1. first + h + i - 1 \in Versions
    <3> HIDE DEF h, m
    <3> QED BY <1>2, <1>3, <1>4, Bounded DEF Versions
  <2>2. coming[i] = String(TextOf(first + h + i - 1))
    BY <1>5
  <2> QED BY <2>1, <2>2 DEF Said
<1>7. coming \in Seq(Said) /\ Len(coming) = m
  <2>1. DOMAIN coming = 1..m
    BY <1>2
  <2>2. coming \in [1..m -> Said]
    <3>1. coming = [i \in 1..m |-> coming[i]]
      BY <2>1
    <3> HIDE DEF coming, m
    <3> QED BY <1>6, <3>1
  <2> HIDE DEF coming, m
  <2> QED BY <1>2, <2>1, <2>2
<1> HIDE DEF coming
<1>8. /\ texts \in Seq(Said) /\ Len(texts) = h + m
      /\ \A i \in 1..h : texts[i] = sub.heard[i]
      /\ \A i \in h + 1..h + m : texts[i] = coming[i - h]
  <2>1. sub.heard \in Seq(Said) /\ coming \in Seq(Said)
    BY <1>1, <1>7
  <2> HIDE DEF sub
  <2>2. /\ texts \in Seq(Said) /\ Len(texts) = h + Len(coming)
        /\ \A i \in 1..h : texts[i] = sub.heard[i]
        /\ \A i \in h + 1..h + Len(coming) : texts[i] = coming[i - h]
    BY <2>1, Joined
  <2>3. Len(coming) = m
    BY <1>7
  <2> HIDE DEF texts, h, m
  <2> QED BY <2>2, <2>3
<1>9. ASSUME NEW i \in 1..Len(texts)
      PROVE  texts[i] = String(TextOf(since + i))
  <2>1. texts[i] = String(TextOf(first + i - 1))
    <3>1. CASE i \in 1..h
      <4>1. texts[i] = sub.heard[i]
        BY <1>8, <3>1
      <4> QED BY <1>4, <3>1, <4>1
    <3>2. CASE i \in h + 1..h + m
      <4> DEFINE j == i - h
      <4>1. j \in 1..m /\ first + h + j - 1 = first + i - 1
        <5> HIDE DEF h, m
        <5> QED BY <1>2, <1>3, <3>2
      <4>2. texts[i] = coming[j]
        BY <1>8, <3>2
      <4> HIDE DEF j
      <4> QED BY <1>5, <4>1, <4>2
    <3> HIDE DEF h, m, texts
    <3> QED BY <1>2, <1>8, <3>1, <3>2
  <2>2. first + i - 1 = since + i
    <3> HIDE DEF texts
    <3> QED BY <1>3
  <2> QED BY <2>1, <2>2
<1>10. DOMAIN texts = 1..Len(texts)
  <2>1. texts \in Seq(Said)
    BY <1>8
  <2> HIDE DEF texts
  <2> QED BY <2>1
<1>11. ASSUME s \in Registered
       PROVE  since + Len(texts) = Version
  <2>1. since + h + m = VersionIn(cells)
    BY <1>3, <1>11 DEF Registered
  <2>2. Len(texts) = h + m
    BY <1>8
  <2> HIDE DEF texts, h, m
  <2>3. since + Len(texts) = VersionIn(cells)
    BY <1>2, <1>3, <2>1, <2>2
  <2> QED BY <2>3, VersionNow
<1> HIDE DEF texts
<1>12. \A i \in DOMAIN texts : texts[i] = String(PlainText(ToString(since + i)))
  BY <1>9, <1>10 DEF TextOf
<1> QED BY <1>11, <1>12 DEF texts, coming, since

(***************************************************************************)
(* The theorems.                                                           *)
(***************************************************************************)

\* The client keeps its promise.
THEOREM PromiseIsKept == Spec => ImplementsPromise
<1>1. [Promise!Next]_<<Values(cells), Promises>> <=> [Promise!Next]_(Promise!vars)
  BY DEF Promise!vars, Values, Promises
<1> QED BY <1>1, PromisesInitially, StepPromises, CallsOKInitially, CallsStayOK, PTL
           DEF Spec, Init, ImplementsPromise, Promise!Spec

\* The sidecar is only ever given texts, and every promise and subscription is at a
\* stage of its own.
THEOREM ClientTypeOK == Spec => []TypeOK
<1>1. HInv => TypeOK
  <2> SUFFICES ASSUME HInv PROVE TypeOK
    OBVIOUS
  <2>1. open \in BOOLEAN /\ up \in BOOLEAN
    BY DEF HInv, CallsOK
  <2>2. \A cell \in DOMAIN cells : IsText(cells[cell])
    BY DEF HInv, CallsOK, CellsFit, Fits
  <2>3. \A c \in Callers : call[c].stage \in
            {"idle", "sent", "answered", "resolved", "rejected", "unsettled"}
    BY DEF HInv, CallsOK, CallGood
  <2>4. \A s \in Subscribers : subscription[s].stage \in Stages
    BY DEF HInv, IInv, Own
  <2> QED BY <2>1, <2>2, <2>3, <2>4 DEF TypeOK, Stages
<1> QED BY <1>1, HearsInitially, StepHears, PTL DEF Spec

\* What a subscription's callback was called with and what is on its way to it is
\* every change since the sidecar registered it, from the very next to the last, in
\* order, however callbacks overlap and calls, stops and the sidecar's end come
\* between.
THEOREM ConfigurationAlwaysHeard == Spec => []ConfigurationIsHeard
<1>1. HInv => ConfigurationIsHeard
  BY ListeningHears DEF ConfigurationIsHeard
<1> QED BY <1>1, HearsInitially, StepHears, PTL DEF Spec

\* A stop that resolves has ended its own stream, and no stream ends by the
\* stop of another.
THEOREM StopAlwaysEndsOwn == Spec => StopEndsOwn
<1>1. AllGood => \A s \in Subscribers :
          /\ subscription'[s].stage = "stopped" => subscription'[s].stream # "registered"
          /\ subscription[s].stream = "registered" /\ subscription'[s].stream = "ended" =>
                subscription[s].stage = "stopping" \/ ~up'
  BY DEF AllGood, Good, Own, EndedByOwn
<1> QED
  BY <1>1, Initially, StepGood, GoodKeeps, PTL DEF Spec, StopEndsOwn

\* The callback of a subscription whose stop has resolved is never called again.
THEOREM NothingEverAfterStop == Spec => NothingAfterStop
<1>1. AllGood => \A s \in Subscribers :
          subscription[s].stage = "stopped" =>
              subscription'[s].heard = subscription[s].heard
  BY DEF AllGood, Good, Silent
<1> QED
  BY <1>1, Initially, StepGood, GoodKeeps, PTL DEF Spec, NothingAfterStop
=============================================================================
