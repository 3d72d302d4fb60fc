------------------------------- MODULE JsValues -------------------------------
(***************************************************************************)
(* JavaScript values and the texts they travel as, up to what the SDK's    *)
(* conversions tell apart.  Values of different types are records with     *)
(* different fields.  A text is either the JSON text of some value or is   *)
(* not JSON; what characters it has does not matter.                       *)
(***************************************************************************)
EXTENDS Sequences

Undefined == [constant |-> "undefined"]
Null == [constant |-> "null"]
True == [constant |-> "true"]
False == [constant |-> "false"]

Number(n) == [number |-> n]
String(text) == [string |-> text]
Object(o) == [object |-> o]
Array(items) == [array |-> items]
Buffer(text) == [buffer |-> text]

IsString(v) == DOMAIN v = {"string"}
IsArray(v) == DOMAIN v = {"array"}
IsBuffer(v) == DOMAIN v = {"buffer"}
IsObject(v) == DOMAIN v \in {{"object"}, {"array"}, {"buffer"}} \/ v = Null   \* typeof v === "object"

JsonText(v) == [json |-> v]
PlainText(characters) == [plain |-> characters]

IsPlain(text) == DOMAIN text = {"plain"}
IsText(text) == IsPlain(text) \/ DOMAIN text = {"json"}

EmptyText == PlainText("")

IsPlainString(v) == IsString(v) /\ v = String(v.string) /\ IsPlain(v.string)

\* The values that print as a text that reads as the value.
IsPrimitive(v) == IsPlainString(v) \/ DOMAIN v = {"number"} \/ v \in {True, False}

Falsy(v) == v \in {Undefined, Null, False, Number(0), String(EmptyText)}

EmptyObject == Object(<<>>)

\* The value of a parameter with the default {}.
OrEmpty(v) == IF v = Undefined THEN EmptyObject ELSE v

\* What the JSON of a value reads as: an undefined item of an array is null, a
\* Buffer an object with its bytes.  An undefined member of an object is left
\* out, which reads as undefined.  What is nested three levels deep is as JSON
\* keeps it.
BufferJson(v) == Object([type |-> String(PlainText("Buffer")), data |-> [bytes |-> v.buffer]])

JsonLeaf(v) == IF IsBuffer(v) THEN BufferJson(v) ELSE v

JsonOver(Inner(_), v) ==
    CASE IsArray(v) -> Array([i \in DOMAIN v.array |->
                                IF v.array[i] = Undefined THEN Null ELSE Inner(v.array[i])])
      [] DOMAIN v = {"object"} -> Object([m \in DOMAIN v.object |-> Inner(v.object[m])])
      [] OTHER -> JsonLeaf(v)

Json(v) == JsonOver(LAMBDA item : JsonOver(JsonLeaf, item), v)

\* The values that JSON keeps.
IsJson(v) == v # Undefined /\ Json(v) = v

\* JSON.stringify, of what is not undefined, and of an object whose members are
\* given as JSON keeps them.
Stringify(v) == JsonText(Json(v))

StringifyObject(members) == JsonText(Object(members))

\* JSON.parse, with the text itself when it is not JSON.
ParseOrKeep(text) == IF DOMAIN text = {"json"} THEN text.json ELSE String(text)

\* v.toString(), for v neither null nor undefined, and the items of an array
\* not arrays themselves.  Numbers and booleans print as their JSON.
ItemToText(v) ==
    CASE IsString(v) -> v.string
      [] IsBuffer(v) -> v.buffer
      [] DOMAIN v = {"object"} -> PlainText("[object Object]")
      [] v \in {Null, Undefined} -> EmptyText
      [] OTHER -> JsonText(v)

ToText(v) ==
    IF ~IsArray(v) THEN ItemToText(v)
    ELSE CASE v.array = <<>> -> EmptyText
           [] Len(v.array) = 1 -> ItemToText(v.array[1])
           [] OTHER -> PlainText("joined by commas")

\* `${v}`
Template(v) == IF v = Null THEN JsonText(Null)
               ELSE IF v = Undefined THEN PlainText("undefined")
               ELSE ToText(v)

\* An object with one member, and one whose members are written over another's.
Single(member, value) == [m \in {member} |-> value]

Overlay(new, old) ==
    [m \in DOMAIN new \cup DOMAIN old |-> IF m \in DOMAIN new THEN new[m] ELSE old[m]]
=============================================================================
