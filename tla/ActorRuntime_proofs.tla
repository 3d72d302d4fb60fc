-------------------------- MODULE ActorRuntime_proofs --------------------------
(***************************************************************************)
(* Theorems of ActorRuntime: what a method of an actor is called with,     *)
(* whatever the arguments are and however calls, registrations and         *)
(* restarts interleave.                                                    *)
(***************************************************************************)
EXTENDS ActorRuntime, TLAPS

(***************************************************************************)
(* The conversions.                                                        *)
(***************************************************************************)

LEMMA Parsed == ASSUME NEW v PROVE ParseOrKeep(JsonText(v)) = v
<1>1. DOMAIN JsonText(v) = {"json"}
  BY DEF JsonText
<1> QED
  BY <1>1 DEF ParseOrKeep, JsonText

LEMMA Structured == ASSUME NEW x PROVE IsObject(Object(x)) /\ IsObject(Array(x))
<1>1. DOMAIN Object(x) = {"object"} /\ DOMAIN Array(x) = {"array"}
  BY DEF Object, Array
<1> QED
  BY <1>1 DEF IsObject

\* The string of a text reads as what the text is the JSON of.
LEMMA StringRead == ASSUME NEW t PROVE Deserialize(String(t)) = ParseOrKeep(t)
<1>1. DOMAIN String(t) = {"string"} /\ String(t).string = t
  BY DEF String
<1>2. DOMAIN Undefined = {"constant"} /\ DOMAIN Null = {"constant"}
  BY DEF Undefined, Null
<1>3. {"string"} # {"constant"} /\ {"string"} # {"array"}
  OBVIOUS
<1>4. String(t) \notin {Undefined, Null} /\ ~IsArray(String(t)) /\ IsString(String(t))
  BY <1>1, <1>2, <1>3 DEF IsArray, IsString
<1>5. ToText(String(t)) = t
  BY <1>1, <1>4 DEF ToText, ItemToText, IsBuffer
<1> QED
  BY <1>4, <1>5 DEF Deserialize

(***************************************************************************)
(* JSON.                                                                   *)
(***************************************************************************)

LEMMA Shapes ==
    /\ DOMAIN Undefined = {"constant"} /\ DOMAIN Null = {"constant"} /\ Undefined # Null
    /\ \A x : /\ DOMAIN Object(x) = {"object"} /\ Object(x).object = x
              /\ DOMAIN Array(x) = {"array"} /\ Array(x).array = x
              /\ DOMAIN String(x) = {"string"} /\ String(x).string = x
<1>1. Undefined.constant = "undefined" /\ Null.constant = "null"
  BY DEF Undefined, Null
<1> QED
  BY <1>1 DEF Undefined, Null, Object, Array, String

LEMMA JsonLeafTwice ==
    ASSUME NEW v
    PROVE  /\ JsonLeaf(JsonLeaf(v)) = JsonLeaf(v)
           /\ JsonLeaf(v) = Undefined => v = Undefined
<1>1. CASE IsBuffer(v)
  <2>1. DOMAIN JsonLeaf(v) = {"object"}
    BY <1>1, Shapes DEF JsonLeaf, BufferJson
  <2>2. {"object"} # {"constant"} /\ {"object"} # {"buffer"}
    OBVIOUS
  <2> QED
    BY <2>1, <2>2, Shapes DEF JsonLeaf, IsBuffer
<1>2. CASE ~IsBuffer(v)
  BY <1>2 DEF JsonLeaf
<1> QED
  BY <1>1, <1>2

\* What stands in an array or an object.
JsonItem(v) == JsonOver(JsonLeaf, v)

Items(items) == [i \in DOMAIN items |-> IF items[i] = Undefined THEN Null ELSE JsonItem(items[i])]

Members(o) == [m \in DOMAIN o |-> JsonItem(o[m])]

LeafItems(items) ==
    [i \in DOMAIN items |-> IF items[i] = Undefined THEN Null ELSE JsonLeaf(items[i])]

LeafMembers(o) == [m \in DOMAIN o |-> JsonLeaf(o[m])]

LEMMA Disjoint ==
    ASSUME NEW v
    PROVE  /\ IsArray(v) => DOMAIN v # {"object"} /\ ~IsBuffer(v) /\ v # Null
           /\ DOMAIN v = {"object"} => ~IsBuffer(v) /\ v # Null
           /\ IsBuffer(v) => v # Null
BY Shapes DEF IsArray, IsBuffer

LEMMA JsonItemOf ==
    ASSUME NEW v
    PROVE  /\ IsArray(v) => JsonItem(v) = Array(LeafItems(v.array))
           /\ DOMAIN v = {"object"} => JsonItem(v) = Object(LeafMembers(v.object))
           /\ ~IsArray(v) /\ DOMAIN v # {"object"} => JsonItem(v) = JsonLeaf(v)
BY Disjoint DEF JsonItem, JsonOver, LeafItems, LeafMembers

LEMMA JsonOf ==
    ASSUME NEW v
    PROVE  /\ IsArray(v) => Json(v) = Array(Items(v.array))
           /\ DOMAIN v = {"object"} => Json(v) = Object(Members(v.object))
           /\ ~IsArray(v) /\ DOMAIN v # {"object"} => Json(v) = JsonLeaf(v)
BY Disjoint DEF Json, JsonOver, JsonItem, Items, Members

LEMMA BufferChanges ==
    ASSUME NEW v, IsBuffer(v)
    PROVE  DOMAIN JsonItem(v) = {"object"} /\ DOMAIN Json(v) = {"object"}
<1>1. ~IsArray(v) /\ DOMAIN v # {"object"}
  BY Disjoint
<1>2. JsonItem(v) = BufferJson(v) /\ Json(v) = BufferJson(v)
  BY <1>1, JsonItemOf, JsonOf DEF JsonLeaf
<1> QED
  BY <1>2, Shapes DEF BufferJson

\* What stands in the JSON of a value is as JSON keeps it.
LEMMA JsonItemTwice ==
    ASSUME NEW v
    PROVE  /\ JsonItem(JsonItem(v)) = JsonItem(v)
           /\ JsonItem(v) = Undefined => v = Undefined
<1>0. {"object"} # {"constant"} /\ {"array"} # {"constant"} /\ {"object"} # {"array"}
      /\ {"object"} # {"buffer"}
  OBVIOUS
<1>1. CASE IsArray(v)
  <2> DEFINE items == LeafItems(v.array)
  <2>1. JsonItem(v) = Array(items)
    BY <1>1, JsonItemOf
  <2>2. IsArray(Array(items)) /\ Array(items).array = items /\ Array(items) # Undefined
    BY <1>0, Shapes DEF IsArray
  <2>3. LeafItems(items) = items
    <3>1. DOMAIN items = DOMAIN v.array
      BY DEF LeafItems
    <3>2. ASSUME NEW i \in DOMAIN items
          PROVE  (IF items[i] = Undefined THEN Null ELSE JsonLeaf(items[i])) = items[i]
      <4>1. CASE v.array[i] = Undefined
        <5>1. items[i] = Null
          BY <3>1, <3>2, <4>1 DEF LeafItems
        <5> QED
          BY <5>1, Disjoint, Shapes DEF JsonLeaf
      <4>2. CASE v.array[i] # Undefined
        <5>1. items[i] = JsonLeaf(v.array[i])
          BY <3>1, <3>2, <4>2 DEF LeafItems
        <5> QED
          BY <4>2, <5>1, JsonLeafTwice
      <4> QED
        BY <4>1, <4>2
    <3>3. items = [i \in DOMAIN items |-> items[i]]
      BY DEF LeafItems
    <3> HIDE DEF items
    <3>4. [i \in DOMAIN items |-> IF items[i] = Undefined THEN Null ELSE JsonLeaf(items[i])]
              = [i \in DOMAIN items |-> items[i]]
      BY <3>2
    <3> QED
      BY <3>3, <3>4 DEF LeafItems
  <2> HIDE DEF items
  <2> QED
    BY <2>1, <2>2, <2>3, JsonItemOf
<1>2. CASE DOMAIN v = {"object"}
  <2> DEFINE members == LeafMembers(v.object)
  <2>1. JsonItem(v) = Object(members)
    BY <1>2, JsonItemOf
  <2>2. /\ DOMAIN Object(members) = {"object"} /\ Object(members).object = members
        /\ Object(members) # Undefined
    BY <1>0, Shapes
  <2>3. LeafMembers(members) = members
    BY JsonLeafTwice DEF LeafMembers
  <2> HIDE DEF members
  <2> QED
    BY <2>1, <2>2, <2>3, JsonItemOf
<1>3. CASE ~IsArray(v) /\ DOMAIN v # {"object"}
  <2>1. JsonItem(v) = JsonLeaf(v)
    BY <1>3, JsonItemOf
  <2>2. CASE IsBuffer(v)
    <3> DEFINE o == [type |-> String(PlainText("Buffer")), data |-> [bytes |-> v.buffer]]
    <3>1. JsonItem(v) = Object(o)
      BY <2>1, <2>2 DEF JsonLeaf, BufferJson
    <3>2. LeafMembers(o) = o
      <4>1. ~IsBuffer(o.type) /\ ~IsBuffer(o.data)
        <5>1. DOMAIN o.type = {"string"} /\ DOMAIN o.data = {"bytes"}
          BY Shapes
        <5> QED
          BY <5>1 DEF IsBuffer
      <4>2. DOMAIN o = {"type", "data"} /\ o = [m \in DOMAIN o |-> o[m]]
        OBVIOUS
      <4> HIDE DEF o
      <4>3. \A m \in DOMAIN o : JsonLeaf(o[m]) = o[m]
        BY <4>1, <4>2 DEF JsonLeaf
      <4> QED
        BY <4>2, <4>3 DEF LeafMembers
    <3> HIDE DEF o
    <3>3. DOMAIN Object(o) = {"object"} /\ Object(o).object = o /\ Object(o) # Undefined
      BY <1>0, Shapes
    <3> QED
      BY <3>1, <3>2, <3>3, JsonItemOf
  <2>3. CASE ~IsBuffer(v)
    BY <1>3, <2>1, <2>3 DEF JsonLeaf
  <2> QED
    BY <2>2, <2>3
<1> QED
  BY <1>1, <1>2, <1>3

LEMMA ItemsTwice == ASSUME NEW items PROVE Items(Items(items)) = Items(items)
<1> DEFINE kept == Items(items)
<1>1. DOMAIN kept = DOMAIN items /\ kept = [i \in DOMAIN kept |-> kept[i]]
  BY DEF Items
<1>2. ASSUME NEW i \in DOMAIN kept
      PROVE  (IF kept[i] = Undefined THEN Null ELSE JsonItem(kept[i])) = kept[i]
  <2>1. CASE items[i] = Undefined
    <3>1. kept[i] = Null
      BY <1>1, <1>2, <2>1 DEF Items
    <3>2. ~IsArray(Null) /\ DOMAIN Null # {"object"} /\ ~IsBuffer(Null)
      BY Shapes DEF IsArray, IsBuffer
    <3>3. JsonItem(Null) = Null
      BY <3>2, JsonItemOf DEF JsonLeaf
    <3> QED
      BY <3>1, <3>3, Shapes
  <2>2. CASE items[i] # Undefined
    <3>1. kept[i] = JsonItem(items[i])
      BY <1>1, <1>2, <2>2 DEF Items
    <3> QED
      BY <2>2, <3>1, JsonItemTwice
  <2> QED
    BY <2>1, <2>2
<1> HIDE DEF kept
<1>3. Items(kept) = [i \in DOMAIN kept |-> kept[i]]
  BY <1>2 DEF Items
<1> QED
  BY <1>1, <1>3 DEF kept

\* An array or an object as JSON keeps it survives the body parser and both
\* serializers.
LEMMA BodySurvives ==
    ASSUME NEW v, IsObject(v)
    PROVE  InvokeArgs(JsonText(v)) = Json(v)
<1>1. JsonText(v) # Undefined
  <2>1. DOMAIN JsonText(v) = {"json"} /\ DOMAIN Undefined = {"constant"}
    BY DEF JsonText, Undefined
  <2> QED
    BY <2>1
<1>2. RequestBody(JsonText(v)) = v
  BY <1>1, Parsed DEF RequestBody
<1>3. Serialize(v) = String(JsonText(Json(v)))
  BY DEF Serialize, Stringify
<1> QED
  BY <1>2, <1>3, StringRead, Parsed DEF InvokeArgs

\* The arguments of a proxy's method are the JSON of the array that is spread.
LEMMA ArgumentsSurvive ==
    ASSUME NEW args, args # <<>>
    PROVE  Spread(InvokeArgs(ProxyBody(args))) = Items(args)
<1>1. IsArray(Array(args)) /\ Array(args).array = args
  BY Shapes DEF IsArray
<1>2. ProxyBody(args) = JsonText(Array(Items(args)))
  BY <1>1, JsonOf DEF ProxyBody, Stringify
<1>3. IsArray(Array(Items(args))) /\ Array(Items(args)).array = Items(args)
  BY Shapes DEF IsArray
<1>4. InvokeArgs(ProxyBody(args)) = Array(Items(args))
  BY <1>2, <1>3, BodySurvives, Structured, JsonOf, ItemsTwice
<1> QED
  BY <1>3, <1>4 DEF Spread

\* A value that JSON keeps is kept in an array too.
LEMMA KeptInside == ASSUME NEW v, IsJson(v) PROVE JsonItem(v) = v
<1>0. v # Undefined /\ Json(v) = v
  BY DEF IsJson
<1>1. CASE IsArray(v)
  <2> DEFINE items == v.array
  <2>1. v = Array(Items(items))
    BY <1>0, <1>1, JsonOf
  <2>2. items = Items(items)
    BY <2>1, Shapes
  <2>3. DOMAIN items = DOMAIN items /\ items = [i \in DOMAIN items |-> items[i]]
    BY <2>2 DEF Items
  <2> HIDE DEF items
  <2>4. ASSUME NEW i \in DOMAIN items
        PROVE  (IF items[i] = Undefined THEN Null ELSE JsonLeaf(items[i])) = items[i]
    <3>1. items[i] = IF items[i] = Undefined THEN Null ELSE JsonItem(items[i])
      <4>1. Items(items)[i] = IF items[i] = Undefined THEN Null ELSE JsonItem(items[i])
        BY <2>4 DEF Items
      <4> QED
        BY <2>2, <4>1
    <3>2. items[i] # Undefined /\ items[i] = JsonItem(items[i])
      BY <3>1, Shapes
    <3>3. ~IsBuffer(items[i])
      <4>1. ASSUME IsBuffer(items[i])
            PROVE  FALSE
        <5>1. DOMAIN items[i] = {"buffer"}
          BY <4>1 DEF IsBuffer
        <5>2. DOMAIN JsonItem(items[i]) = {"object"}
          BY <4>1, BufferChanges
        <5> QED
          BY <3>2, <5>1, <5>2
      <4> QED
        BY <4>1
    <3> QED
      BY <3>2, <3>3 DEF JsonLeaf
  <2>5. LeafItems(items) = [i \in DOMAIN items |-> items[i]]
    BY <2>4 DEF LeafItems
  <2> QED
    BY <1>1, <2>1, <2>2, <2>3, <2>5, JsonItemOf DEF items
<1>2. CASE DOMAIN v = {"object"}
  <2> DEFINE o == v.object
  <2>1. v = Object(Members(o))
    BY <1>0, <1>2, JsonOf
  <2>2. o = Members(o)
    BY <2>1, Shapes
  <2>3. o = [m \in DOMAIN o |-> o[m]]
    BY <2>2 DEF Members
  <2> HIDE DEF o
  <2>4. ASSUME NEW m \in DOMAIN o
        PROVE  JsonLeaf(o[m]) = o[m]
    <3>1. o[m] = JsonItem(o[m])
      <4>1. Members(o)[m] = JsonItem(o[m])
        BY <2>4 DEF Members
      <4> QED
        BY <2>2, <4>1
    <3>2. ~IsBuffer(o[m])
      <4>1. ASSUME IsBuffer(o[m])
            PROVE  FALSE
        <5>1. DOMAIN o[m] = {"buffer"}
          BY <4>1 DEF IsBuffer
        <5>2. DOMAIN JsonItem(o[m]) = {"object"}
          BY <4>1, BufferChanges
        <5> QED
          BY <3>1, <5>1, <5>2
      <4> QED
        BY <4>1
    <3> QED
      BY <3>2 DEF JsonLeaf
  <2>5. LeafMembers(o) = [m \in DOMAIN o |-> o[m]]
    BY <2>4 DEF LeafMembers
  <2> QED
    BY <1>2, <2>1, <2>2, <2>3, <2>5, JsonItemOf DEF o
<1>3. CASE ~IsArray(v) /\ DOMAIN v # {"object"}
  BY <1>0, <1>3, JsonOf, JsonItemOf
<1> QED
  BY <1>1, <1>2, <1>3

LEMMA PrimitiveShape ==
    ASSUME NEW v, IsPrimitive(v)
    PROVE  /\ ~IsObject(v) /\ ~IsArray(v) /\ v \notin {Null, Undefined}
           /\ ParseOrKeep(ToText(v)) = v
<1>1. ASSUME v \in {True, False}
      PROVE  DOMAIN v = {"constant"} /\ v.constant \in {"true", "false"}
  BY <1>1 DEF True, False
<1>2. DOMAIN Null = {"constant"} /\ Null.constant = "null"
      /\ DOMAIN Undefined = {"constant"} /\ Undefined.constant = "undefined"
  BY DEF Null, Undefined
<1>3. CASE DOMAIN v = {"number"} \/ v \in {True, False}
  <2>1. /\ ~IsString(v) /\ ~IsBuffer(v) /\ DOMAIN v # {"object"} /\ ~IsArray(v)
        /\ v \notin {Null, Undefined}
    BY <1>1, <1>2, <1>3 DEF IsString, IsArray, IsBuffer
  <2>2. ToText(v) = JsonText(v)
    BY <2>1 DEF ToText, ItemToText
  <2> QED
    BY <2>1, <2>2, Parsed DEF IsObject, IsArray, IsBuffer
<1>4. CASE IsPlainString(v)
  <2>1. DOMAIN v = {"string"} /\ v = String(v.string) /\ DOMAIN v.string = {"plain"}
    BY <1>4 DEF IsPlainString, IsString, IsPlain
  <2>2. IsString(v) /\ ~IsArray(v) /\ ~IsObject(v) /\ v \notin {Null, Undefined}
    BY <1>2, <2>1 DEF IsString, IsArray, IsObject
  <2>3. ToText(v) = v.string
    BY <2>1, <2>2 DEF ToText, ItemToText, IsBuffer
  <2>4. ParseOrKeep(v.string) = String(v.string)
    BY <2>1 DEF ParseOrKeep
  <2> QED
    BY <2>1, <2>2, <2>3, <2>4
<1> QED
  BY <1>3, <1>4 DEF IsPrimitive

\* The serializer keeps a primitive value as it is.
LEMMA PrimitiveKept ==
    ASSUME NEW v, IsPrimitive(v)
    PROVE  Deserialize(v) = v
BY PrimitiveShape DEF Deserialize

LEMMA PrimitiveJson ==
    ASSUME NEW v, IsPrimitive(v)
    PROVE  Json(v) = v /\ JsonItem(v) = v
<1>1. ~IsObject(v) /\ ~IsArray(v)
  BY PrimitiveShape
<1>2. DOMAIN v # {"object"} /\ ~IsBuffer(v)
  BY <1>1 DEF IsObject, IsBuffer
<1> QED
  BY <1>1, <1>2, JsonOf, JsonItemOf DEF JsonLeaf

\* A fired registration is read with its callback and its data, deserialized
\* once more.
LEMMA FiredSurvives ==
    ASSUME NEW k, NEW registration
    PROVE  LET read == FromObject(FiredBody(k, registration))
           IN /\ read.state = Deserialize(JsonItem(Json(registration.data)))
              /\ k = "timer" => read.callback.string.plain = registration.callback
<1> DEFINE callback == IF k = "remind" THEN Undefined
                       ELSE String(PlainText(registration.callback))
           data == Json(registration.data)
           o == [callback |-> callback, data |-> data]
<1>1. FiredBody(k, registration) = JsonText(Object(o))
  BY DEF FiredBody, StringifyObject
<1>2. JsonItem(callback) = callback
  <2>1. DOMAIN callback \in {{"constant"}, {"string"}}
    BY Shapes
  <2> HIDE DEF callback
  <2>2. ~IsArray(callback) /\ DOMAIN callback # {"object"} /\ ~IsBuffer(callback)
    BY <2>1 DEF IsArray, IsBuffer
  <2> QED
    BY <2>2, JsonItemOf DEF JsonLeaf
<1>3. k = "timer" => callback.string.plain = registration.callback
  BY Shapes DEF PlainText
<1> HIDE DEF callback, data
<1>4. Members(o).callback = callback /\ Members(o).data = JsonItem(data)
  BY <1>2 DEF Members
<1> HIDE DEF o
<1>5. InvokeArgs(JsonText(Object(o))) = Object(Members(o))
  BY BodySurvives, Structured, JsonOf, Shapes
<1>6. FromObject(JsonText(Object(o))) = [callback |-> callback, state |-> Deserialize(JsonItem(data))]
  BY <1>4, <1>5, Shapes DEF FromObject
<1> QED
  BY <1>1, <1>3, <1>6 DEF data

\* What a caller gets back is what a method returned, if that is an object, an
\* array or null that JSON keeps, or a primitive value.
LEMMA ResultSurvives ==
    ASSUME NEW v, (IsObject(v) /\ IsJson(v)) \/ IsPrimitive(v)
    PROVE  ParseOrKeep(ResultText(v)) = v
<1>1. CASE IsPrimitive(v)
  <2>1. ~IsObject(v) /\ v \notin {Null, Undefined} /\ ParseOrKeep(ToText(v)) = v
    BY <1>1, PrimitiveShape
  <2>2. ~IsBuffer(v)
    BY <2>1 DEF IsObject, IsBuffer
  <2> QED
    BY <2>1, <2>2 DEF ResultText, Template
<1>2. CASE v = Null
  <2>1. Falsy(v) /\ Template(v) = JsonText(v) /\ ~IsBuffer(v)
    BY <1>2, Disjoint DEF Falsy, Template
  <2> QED
    BY <2>1, Parsed DEF ResultText
<1>3. CASE IsObject(v) /\ IsJson(v) /\ v # Null
  <2>1. ~IsBuffer(v) /\ Json(v) = v
    <3>1. Json(v) = v
      BY <1>3 DEF IsJson
    <3>2. ASSUME IsBuffer(v) PROVE FALSE
      <4>1. DOMAIN v = {"buffer"} /\ DOMAIN Json(v) = {"object"}
        BY <3>2, BufferChanges DEF IsBuffer
      <4> QED
        BY <3>1, <4>1
    <3> QED
      BY <3>1, <3>2
  <2>2. DOMAIN v \in {{"object"}, {"array"}, {"buffer"}}
    BY <1>3 DEF IsObject
  <2>3. /\ DOMAIN Undefined = {"constant"} /\ DOMAIN False = {"constant"}
        /\ DOMAIN Number(0) = {"number"} /\ DOMAIN String(EmptyText) = {"string"}
    BY DEF Undefined, False, Number, String
  <2>4. ~Falsy(v)
    BY <1>3, <2>2, <2>3 DEF Falsy
  <2> QED
    BY <1>3, <2>1, <2>4, Parsed DEF ResultText, Stringify
<1> QED
  BY <1>1, <1>2, <1>3

(***************************************************************************)
(* The inductive invariant: a request carries the body of what was asked,  *)
(* and the sidecar keeps and fires only what was registered.               *)
(***************************************************************************)

Registrations == [callback : Callbacks \cup {None}, data : Data, period : Periods \ {"missing"}]

Kept == [callback : Callbacks \cup {None}, data : Data, period : {"time"}]

Registering(r) == r.kind \in Kinds /\ r.type \in Types /\ r.what \in Registrations \cup {None}

Carries(r) ==
    \/ r.kind = "method" /\ r.method \in Methods /\ r.body = ProxyBody(r.asked)
    \/ r.kind \in Kinds /\ r.asked \in Kept /\ r.body = FiredBody(r.kind, r.asked)

\* What the method was called with.
Called(r) ==
    /\ r.method \in Methods \cup {"receiveReminder"}
    /\ \/ r.kind = "method" /\ (r.asked # <<>> => r.args = Items(r.asked))
       \/ /\ r.kind \in Kinds /\ r.asked \in Kept
          /\ r.args = Spread(Deserialize(JsonItem(Json(r.asked.data))))
          /\ r.method = IF r.kind = "timer" THEN r.asked.callback ELSE "receiveReminder"

\* What a call that settled with a result resolves with.
Returned(r) ==
    "returned" \in DOMAIN r =>
        r.returned \in Results /\ r.value = ParseOrKeep(ResultText(r.returned))

Sound(r) ==
    /\ r.stage \in Stages
    /\ r.stage = "registering" => Registering(r)
    /\ r.stage = "sent" => r.type \in Types /\ Carries(r)
    /\ r.stage = "running" => r.type \in managers /\ Called(r)
    /\ r.stage = "settled" => Returned(r)

CallsSound ==
    /\ call = [c \in Calls |-> call[c]]
    /\ \A c \in Calls : Sound(call[c])

IInv ==
    /\ managers \subseteq Types /\ hosted \subseteq Types
    /\ table \in [Kinds \X Types -> {None} \cup Kept]
    /\ CallsSound

\* A step that moves one call to a sound record, and keeps the registered types,
\* keeps the calls sound.
LEMMA MovesOne ==
    ASSUME CallsSound, NEW c \in Calls, NEW r, Sound(r), Goto(c, r), UNCHANGED managers
    PROVE  CallsSound'
BY DEF CallsSound, Goto, Sound, Registering, Carries, Called, Returned

\* A settled or idle call is sound.
LEMMA EndsSound ==
    /\ \A ok \in BOOLEAN : Sound([stage |-> "settled", ok |-> ok])
    /\ \A result \in Results :
          Sound([stage |-> "settled", ok |-> TRUE, returned |-> result,
                 value |-> ParseOrKeep(ResultText(result))])
    /\ Sound(Idle)
BY DEF Sound, Returned, Idle, Stages

LEMMA BeginKeeps ==
    ASSUME IInv, NEW c \in Calls, NEW k \in Kinds, NEW t \in Types,
           NEW callback \in Callbacks \cup {None}, NEW data \in Data, NEW period \in Periods,
           Begin(c, k, t, Registration(callback, data, period))
    PROVE  IInv'
<1> DEFINE what == Registration(callback, data, period)
           r == [stage |-> "registering", kind |-> k, type |-> t, what |-> what]
<1>1. CASE period = "missing"
  <2>1. Goto(c, [stage |-> "settled", ok |-> FALSE])
    BY <1>1 DEF Begin, Registration
  <2> QED
    BY <2>1, MovesOne, EndsSound DEF IInv, Begin
<1>2. CASE period # "missing"
  <2>1. Goto(c, r)
    BY <1>2 DEF Begin, Registration
  <2>2. what \in Registrations
    BY <1>2 DEF Registration, Registrations
  <2>3. Sound(r)
    BY <2>2 DEF Sound, Registering, Stages
  <2> QED
    BY <2>1, <2>3, MovesOne DEF IInv, Begin
<1> QED
  BY <1>1, <1>2

LEMMA UnregisterKeeps ==
    ASSUME IInv, NEW c \in Calls, NEW k \in Kinds, NEW t \in Types, Unregister(c, k, t)
    PROVE  IInv'
<1>1. Sound([stage |-> "registering", kind |-> k, type |-> t, what |-> None])
  BY DEF Sound, Registering, Stages
<1> QED
  BY <1>1, MovesOne DEF IInv, Unregister

LEMMA ScheduleKeeps ==
    ASSUME IInv, NEW c \in Calls, Schedule(c)
    PROVE  IInv'
<1> DEFINE what == call[c].what
           ok == what = None \/ Accepts(what)
<1>1. Registering(call[c])
  BY DEF IInv, CallsSound, Sound, Schedule, At
<1>2. ok => what \in {None} \cup Kept
  <2>1. ASSUME what \in Registrations, Accepts(what)
        PROVE  what \in Kept
    BY <2>1 DEF Accepts, FormatDuration, Registrations, Kept
  <2> QED
    BY <1>1, <2>1 DEF Registering
<1>3. table' \in [Kinds \X Types -> {None} \cup Kept]
  BY <1>1, <1>2 DEF Schedule, IInv, Registering
<1>4. CallsSound'
  <2>1. ok \in BOOLEAN /\ Goto(c, [stage |-> "settled", ok |-> ok])
    BY DEF Schedule, Accepts
  <2> QED
    BY <2>1, EndsSound, MovesOne DEF IInv, Schedule
<1> QED
  BY <1>3, <1>4 DEF IInv, Schedule

LEMMA ProxyInvokeKeeps ==
    ASSUME IInv, NEW c \in Calls, NEW t \in Types, NEW method \in Methods, NEW args,
           ProxyInvoke(c, t, method, args)
    PROVE  IInv'
<1> DEFINE r == Request("method", t, method, ProxyBody(args), args)
<1>1. Sound(r)
  BY DEF Sound, Stages, Carries, Request
<1> QED
  BY <1>1, MovesOne DEF IInv, ProxyInvoke

LEMMA FireKeeps ==
    ASSUME IInv, NEW c \in Calls, NEW t \in Types, NEW k \in Kinds, Fire(c, k, t)
    PROVE  IInv'
<1> DEFINE kept == table[<<k, t>>]
           r == Request(k, t, None, FiredBody(k, kept), kept)
<1>1. kept \in Kept
  BY DEF IInv, Fire
<1>2. Sound(r)
  BY <1>1 DEF Sound, Stages, Carries, Request
<1> QED
  BY <1>2, MovesOne DEF IInv, Fire

\* A call to a method, if it is called with what was asked for.
LEMMA CallActorMethodKeeps ==
    ASSUME IInv, NEW c \in Calls, NEW method, NEW args, CallActorMethod(c, method, args),
           \/ call[c].kind = "method" /\ (call[c].asked # <<>> => Spread(args) = Items(call[c].asked))
           \/ /\ call[c].kind \in Kinds /\ call[c].asked \in Kept
              /\ args = Deserialize(JsonItem(Json(call[c].asked.data)))
              /\ method = IF call[c].kind = "timer" THEN call[c].asked.callback
                          ELSE "receiveReminder"
    PROVE  IInv'
<1> DEFINE r == [stage |-> "running", kind |-> call[c].kind, type |-> call[c].type,
                 method |-> method, args |-> Spread(args), asked |-> call[c].asked]
<1>1. CASE method \in Methods \cup {"receiveReminder"}
  <2>1. Goto(c, r)
    BY <1>1 DEF CallActorMethod
  <2>2. Called(r)
    BY <1>1 DEF Called
  <2>3. Sound(r)
    BY <2>2 DEF Sound, Stages, CallActorMethod
  <2> QED
    BY <2>1, <2>3, MovesOne DEF IInv, CallActorMethod
<1>2. CASE method \notin Methods \cup {"receiveReminder"}
  <2>1. Goto(c, [stage |-> "settled", ok |-> FALSE])
    BY <1>2 DEF CallActorMethod
  <2> QED
    BY <2>1, EndsSound, MovesOne DEF IInv, CallActorMethod
<1> QED
  BY <1>1, <1>2

LEMMA ServeKeeps ==
    ASSUME IInv, NEW c \in Calls, Serve(c)
    PROVE  IInv'
<1>1. call[c].stage = "sent" => Carries(call[c])
  BY DEF IInv, CallsSound, Sound
<1>2. CASE NotRegistered(c)
  BY <1>2, EndsSound, MovesOne DEF NotRegistered, IInv
<1>3. CASE HandlerMethod(c)
  <2>1. call[c].body = ProxyBody(call[c].asked)
    BY <1>1, <1>3 DEF HandlerMethod, Carries, Kinds
  <2>2. call[c].asked # <<>> => Spread(InvokeArgs(call[c].body)) = Items(call[c].asked)
    BY <2>1, ArgumentsSurvive
  <2> QED
    BY <1>3, <2>2, CallActorMethodKeeps DEF HandlerMethod
<1>4. ASSUME call[c].stage = "sent", call[c].kind \in Kinds
      PROVE  /\ call[c].asked \in Kept
             /\ FromObject(call[c].body).state
                    = Deserialize(JsonItem(Json(call[c].asked.data)))
             /\ call[c].kind = "timer" =>
                    FromObject(call[c].body).callback.string.plain = call[c].asked.callback
  <2>1. call[c].asked \in Kept /\ call[c].body = FiredBody(call[c].kind, call[c].asked)
    BY <1>1, <1>4 DEF Carries, Kinds
  <2> QED
    BY <2>1, FiredSurvives
<1>5. CASE HandlerTimer(c)
  BY <1>4, <1>5, CallActorMethodKeeps DEF HandlerTimer, Kinds
<1>6. CASE HandlerReminder(c)
  BY <1>4, <1>6, CallActorMethodKeeps DEF HandlerReminder, Kinds
<1> QED
  BY <1>2, <1>3, <1>5, <1>6 DEF Serve

LEMMA ReturnKeeps ==
    ASSUME IInv, NEW c \in Calls, Return(c) \/ Forget(c)
    PROVE  IInv'
<1>1. CASE MethodThrows(c)
  BY <1>1, EndsSound, MovesOne DEF MethodThrows, IInv
<1>2. CASE Forget(c)
  BY <1>2, EndsSound, MovesOne DEF Forget, IInv
<1>3. ASSUME NEW result \in Results, MethodReturns(c, result)
      PROVE  IInv'
  <2>1. CASE call[c].kind = "method"
    <3>1. Goto(c, [stage |-> "settled", ok |-> TRUE, returned |-> result,
                   value |-> ParseOrKeep(ResultText(result))])
      BY <1>3, <2>1 DEF MethodReturns
    <3> QED
      BY <1>3, <3>1, EndsSound, MovesOne DEF MethodReturns, IInv
  <2>2. CASE call[c].kind # "method"
    <3>1. Goto(c, [stage |-> "settled", ok |-> TRUE])
      BY <1>3, <2>2 DEF MethodReturns
    <3>2. Sound([stage |-> "settled", ok |-> TRUE])
      BY EndsSound
    <3> QED
      BY <1>3, <3>1, <3>2, MovesOne DEF MethodReturns, IInv
  <2> QED
    BY <2>1, <2>2
<1> QED
  BY <1>1, <1>2, <1>3 DEF Return

\* The types that are registered or told to the sidecar are added to, or the
\* process ends and with it the calls that run.
LEMMA RegistryKeeps ==
    ASSUME IInv, (\E t \in Types : RegisterActor(t)) \/ HandlerConfig \/ Crash
    PROVE  IInv'
<1>1. ASSUME NEW t \in Types, RegisterActor(t)
      PROVE  IInv'
  BY <1>1 DEF RegisterActor, IInv, CallsSound, Sound, Registering, Carries, Called, Returned
<1>2. CASE HandlerConfig
  BY <1>2 DEF HandlerConfig, IInv, CallsSound, Sound, Registering, Carries, Called, Returned
<1>3. CASE Crash
  <2>1. ASSUME NEW c \in Calls
        PROVE  Sound(call[c])'
    <3>1. CASE call[c].stage = "running"
      <4>1. call'[c] = [stage |-> "settled", ok |-> FALSE]
        BY <1>3, <3>1 DEF Crash
      <4> QED
        BY <4>1 DEF Sound, Stages, Returned
    <3>2. CASE call[c].stage # "running"
      <4>1. call'[c] = call[c]
        BY <1>3, <3>2 DEF Crash
      <4> QED
        BY <4>1, <3>2 DEF IInv, CallsSound, Sound, Registering, Carries, Returned
    <3> QED
      BY <3>1, <3>2
  <2> QED
    BY <1>3, <2>1 DEF Crash, IInv, CallsSound
<1> QED
  BY <1>1, <1>2, <1>3

LEMMA StepKeeps == IInv /\ [Next]_vars => IInv'
<1> SUFFICES ASSUME IInv, [Next]_vars PROVE IInv'
  OBVIOUS
<1>1. ASSUME NEW c \in Calls, NEW t \in Types, Ask(c, t)
      PROVE  IInv'
  BY <1>1, BeginKeeps, UnregisterKeeps, ProxyInvokeKeeps
     DEF Ask, RegisterActorTimer, RegisterActorReminder, UnregisterActorTimer,
         UnregisterActorReminder, Kinds
<1>2. CASE UNCHANGED vars
  BY <1>2 DEF vars, IInv, CallsSound, Sound, Registering, Carries, Called, Returned
<1> QED
  BY <1>1, <1>2, FireKeeps, ScheduleKeeps, ServeKeeps, ReturnKeeps, RegistryKeeps DEF Next

LEMMA Holds == Spec => []IInv
<1>1. Init => IInv
  BY DEF Init, IInv, CallsSound, Sound, Idle, Stages
<1> QED
  BY <1>1, StepKeeps, PTL DEF Spec

(***************************************************************************)
(* The theorems.                                                           *)
(***************************************************************************)

\* The runtime never runs a method of a type that is not registered, and the
\* sidecar never keeps a timer or reminder it cannot read.
THEOREM RuntimeTypeCorrect == Spec => []TypeOK
<1>1. IInv => TypeOK
  BY DEF IInv, CallsSound, Sound, Called, Kept, TypeOK, At
<1> QED
  BY <1>1, Holds, PTL

\* Whatever the arguments of a method are, it is called with what their JSON reads
\* as: null for undefined, an object for a Buffer, and every argument that JSON
\* keeps as it is and in its place.
THEOREM ArgumentsAlwaysArrive == Spec => []ArgumentsArrive
<1>1. IInv => ArgumentsArrive
  <2> SUFFICES ASSUME IInv, NEW c \in Calls, At(c, "running"), call[c].kind = "method",
                      call[c].asked # <<>>
               PROVE  /\ call[c].args = Json(Array(call[c].asked)).array
                      /\ \A i \in DOMAIN call[c].asked :
                            IsJson(call[c].asked[i]) => call[c].args[i] = call[c].asked[i]
    BY DEF ArgumentsArrive
  <2> DEFINE asked == call[c].asked
  <2>1. call[c].args = Items(asked)
    BY DEF IInv, CallsSound, Sound, Called, Kinds, At
  <2> HIDE DEF asked
  <2>2. Json(Array(asked)).array = Items(asked)
    <3>1. IsArray(Array(asked)) /\ Array(asked).array = asked
      BY Shapes DEF IsArray
    <3> QED
      BY <3>1, JsonOf, Shapes
  <2>3. ASSUME NEW i \in DOMAIN asked, IsJson(asked[i])
        PROVE  Items(asked)[i] = asked[i]
    <3>1. asked[i] # Undefined /\ JsonItem(asked[i]) = asked[i]
      BY <2>3, KeptInside DEF IsJson
    <3> QED
      BY <3>1 DEF Items
  <2> QED
    BY <2>1, <2>2, <2>3 DEF asked
<1> QED
  BY <1>1, Holds, PTL

\* Data that is a number, a boolean or a string that is not the JSON of something,
\* arrives with the method of its own registration.
THEOREM ScheduledAlwaysArrive ==
    ASSUME \A d \in Data : IsPrimitive(d)
    PROVE  Spec => []ScheduledArrive
<1>1. IInv => ScheduledArrive
  <2> SUFFICES ASSUME IInv, NEW c \in Calls, At(c, "running"), call[c].kind \in Kinds
               PROVE  /\ call[c].args = <<call[c].asked.data>>
                      /\ call[c].method = IF call[c].kind = "timer"
                                          THEN call[c].asked.callback
                                          ELSE "receiveReminder"
    BY DEF ScheduledArrive
  <2>1. Called(call[c])
    BY DEF IInv, CallsSound, Sound, At
  <2>2. call[c].asked \in Kept /\ call[c].args = Spread(Deserialize(JsonItem(Json(call[c].asked.data))))
    BY <2>1 DEF Called, Kinds
  <2>3. Spread(Deserialize(JsonItem(Json(call[c].asked.data)))) = <<call[c].asked.data>>
    <3>1. IsPrimitive(call[c].asked.data)
      BY <2>2 DEF Kept
    <3> QED
      BY <3>1, PrimitiveShape, PrimitiveJson, PrimitiveKept DEF Spread
  <2> QED
    BY <2>1, <2>2, <2>3 DEF Called, Kinds
<1> QED
  BY <1>1, Holds, PTL

\* What a method returns is what its proxy resolves with, if it is an object, an
\* array or null that JSON keeps, a number, a boolean or a string that is not the
\* JSON of something.
THEOREM ResultsAlwaysArrive ==
    ASSUME \A result \in Results : (IsObject(result) /\ IsJson(result)) \/ IsPrimitive(result)
    PROVE  Spec => []ResultArrives
<1>1. IInv => ResultArrives
  BY ResultSurvives DEF IInv, CallsSound, Sound, Returned, ResultArrives, At
<1> QED
  BY <1>1, Holds, PTL
=============================================================================
