--------------------------- MODULE MCActorRuntime ---------------------------
(* Instances of the actor runtime.                                         *)
EXTENDS ActorRuntime, Naturals

five == Number(5)
word == String(PlainText("word"))
numeral == String(JsonText(five))     \* a string that reads as a number
object == Object([p |-> five])
list == Array(<<five, object>>)
bytes == Buffer(PlainText("bytes"))

MCArgLists == {<<>>, <<word>>, <<Undefined, numeral, bytes, list>>}
MCResults == {word, five, object}
MCData == {word, five}
=============================================================================
