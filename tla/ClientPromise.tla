---------------------------- MODULE ClientPromise ----------------------------
(***************************************************************************)
(* What the interfaces of the client promise, whatever the protocol: a     *)
(* call takes effect at one moment between its start and its end or not at *)
(* all, exactly as its arguments say; a promise that resolves does so with *)
(* the values there were at that moment, and one that rejects leaves open  *)
(* whether the call took effect.                                           *)
(***************************************************************************)
EXTENDS JsValues, Naturals, Sequences

CONSTANTS
    Callers,
    Asked,       \* what may be called with which arguments
    Stored      \* what there is to read at first

VARIABLES
    cells,      \* what there is to read, as values
    promise     \* the call of each caller and where it is

vars == <<cells, promise>>

Idle == [stage |-> "idle"]

Absent == String(EmptyText)

Cells(kind, names) == [i \in DOMAIN names |-> <<kind, names[i]>>]

SetsItems(kind, items) ==
    [cell \in {<<kind, items[i].key>> : i \in DOMAIN items} |->
        LET i == CHOOSE j \in DOMAIN items : items[j].key = cell[2] IN items[i].value]

SetsOperations(kind, operations) ==
    SetsItems(kind, [i \in DOMAIN operations |->
        LET o == operations[i]
        IN [key |-> o.request.key,
            value |-> IF o.operation = "delete" THEN Absent ELSE o.request.value]])

\* The cells a call changes, and to what.
Sets(ask) ==
    CASE ask.op = "save" -> SetsItems("state", ask.items)
      [] ask.op = "delete" -> Single(<<"state", ask.key>>, Absent)
      [] ask.op = "transaction" -> SetsOperations("state", ask.operations)
      [] ask.op = "actorTransaction" -> SetsOperations("actor", ask.operations)
      [] ask.op = "invoke" /\ ask.method = "delete" -> Single(<<"app", "method">>, Absent)
      [] ask.op = "invoke" /\ ask.method \in {"post", "put"} ->
             Single(<<"app", "method">>, OrEmpty(ask.data))
      [] ask.op = "actorInvoke" -> Single(<<"actor", "method">>,
             IF IsBuffer(ask.data) THEN ParseOrKeep(ask.data.buffer) ELSE ask.data)
      [] ask.op = "send" -> Single(<<"binding", "name">>, ask.data)
      [] ask.op = "publish" -> Single(<<"topic", "name">>, OrEmpty(ask.data))
      [] ask.op = "metadataSet" -> Single(<<"metadata", ask.key>>, ask.value)
      [] ask.op = "registerReminder" -> Single(<<"reminder", ask.name>>, ask.data)
      [] ask.op = "unregisterReminder" -> Single(<<"reminder", ask.name>>, Absent)
      [] ask.op = "registerTimer" -> Single(<<"timer", ask.name>>, ask.data)
      [] ask.op = "unregisterTimer" -> Single(<<"timer", ask.name>>, Absent)
      [] OTHER -> <<>>

\* The cells its promise resolves with.
Gets(ask) ==
    CASE ask.op = "get" -> Cells("state", <<ask.key>>)
      [] ask.op = "getBulk" -> Cells("state", ask.keys)
      [] ask.op = "query" -> Cells("state", ask.query.object.keys)
      [] ask.op = "invoke" /\ ask.method # "delete" -> Cells("app", <<"method">>)
      [] ask.op = "send" -> Cells("binding", <<"name">>)
      [] ask.op = "metadataGet" -> Cells("metadata", <<"m">>)
      [] ask.op = "secretGet" -> Cells("secret", <<ask.key>>)
      [] ask.op = "secretGetBulk" -> Cells("secret", <<"s">>)
      [] ask.op = "configurationGet" -> Cells("configuration", SelectSeq(ask.keys, LAMBDA k : k # ""))
      [] ask.op = "actorInvoke" -> Cells("actor", <<"method">>)
      [] ask.op = "actorGet" -> Cells("actor", <<ask.key>>)
      [] ask.op = "reminderGet" -> Cells("reminder", <<ask.name>>)
      [] ask.op = "getActors" -> Cells("actors", <<"count">>)
      [] OTHER -> <<>>

\* A call that has nothing to return but returns something says True.
Outcome(ask, after) ==
    CASE ask.op \in {"publish", "metadataSet", "isHealthy"} -> <<True>>
      [] ask.op = "invoke" /\ ask.method = "delete" -> <<Absent>>
      [] OTHER -> [i \in DOMAIN Gets(ask) |-> after[Gets(ask)[i]]]

-----------------------------------------------------------------------------
Init ==
    /\ cells = Stored
    /\ promise = [c \in Callers |-> Idle]

Call(c) ==
    /\ promise[c] = Idle
    /\ promise'[c].stage = "pending" /\ promise'[c].ask \in Asked
    /\ promise' = [promise EXCEPT ![c] = [stage |-> "pending", ask |-> promise'[c].ask]]
    /\ UNCHANGED cells

\* It cannot even be asked.
Refuse(c) ==
    /\ promise[c] = Idle
    /\ promise' = [promise EXCEPT ![c] = [stage |-> "failed"]]
    /\ UNCHANGED cells

Do(c) ==
    /\ promise[c].stage = "pending"
    /\ LET ask == promise[c].ask
       IN /\ cells' = Overlay(Sets(ask), cells)
          /\ promise' = [promise EXCEPT ![c] =
                            [stage |-> "done", result |-> Outcome(ask, cells')]]

Resolve(c) ==
    /\ promise[c].stage = "done"
    /\ promise' = [promise EXCEPT ![c].stage = "resolved"]
    /\ UNCHANGED cells

Fail(c) ==
    /\ promise[c].stage \in {"pending", "done"}
    /\ promise' = [promise EXCEPT ![c] = [stage |-> "failed"]]
    /\ UNCHANGED cells

Forget(c) ==
    /\ promise[c].stage \in {"resolved", "failed"}
    /\ promise' = [promise EXCEPT ![c] = Idle]
    /\ UNCHANGED cells

\* A configuration changes by itself.
Change ==
    /\ DOMAIN cells' = DOMAIN cells
    /\ \A cell \in DOMAIN cells : cell[1] # "configuration" => cells'[cell] = cells[cell]
    /\ UNCHANGED promise

Next ==
    \/ Change
    \/ \E c \in Callers :
          Call(c) \/ Refuse(c) \/ Do(c) \/ Resolve(c) \/ Fail(c) \/ Forget(c)

Spec == Init /\ [][Next]_vars
=============================================================================
