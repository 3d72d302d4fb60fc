---------------------------- MODULE MCAppServer ----------------------------
(* A server over either protocol: a method with two verbs, a binding and    *)
(* two topics.  The key of the one is in lower case what the key of the     *)
(* other is cut to; and over HTTP the post, the binding and a topic have    *)
(* one route.                                                              *)
EXTENDS AppServer

CONSTANTS mixed, lower, barred, shared, own, k1, k2

MCLower == [n \in Names |-> IF n = mixed THEN lower ELSE n]
MCCut == [n \in Names |-> IF n = barred THEN lower ELSE n]
MCPath == [n \in Names |-> shared]
MCRoute == [n \in Names |-> IF n = mixed THEN shared ELSE own]

MCTopics == {<<"topic", mixed>>, <<"topic", barred>>}
MCSpelled == {<<"topic", mixed>>}
MCEndpoints == {<<"get", lower>>, <<"post", lower>>, <<"binding", lower>>} \cup MCTopics

object == Object([p |-> Number(5)])
word == PlainText("word")
MCPayloads == [kind \in Kinds |->
    CASE kind = "topic" -> {[type |-> "text", text |-> JsonText(object)]}
      [] kind = "post" -> {[type |-> "json", text |-> word], [type |-> "text", text |-> JsonText(object)]}
      [] OTHER -> {[type |-> "json", text |-> JsonText(object)]}]
MCResults == {object, Undefined}
=============================================================================
