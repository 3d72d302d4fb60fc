---------------------------- MODULE SidecarClient ----------------------------
(***************************************************************************)
(* The operations of a DaprClient over HTTP or gRPC: callers ask, the      *)
(* sidecar serves or refuses what is asked, its answers and the failures   *)
(* of the connection come back in any order, and the client may be stopped *)
(* and the sidecar shut down at any time.                                  *)
(***************************************************************************)
EXTENDS Sidecar

HTTP == INSTANCE HTTPClient
GRPC == INSTANCE GRPCClient

CONSTANTS
    Callers,
    Protocols,
    Asks(_, _),         \* Asks(p, c): what a caller may ask over a protocol
    Texts,              \* the text in each cell at first
    RefusalStatuses,    \* what HTTP requests are refused with
    MaxUses             \* Bound: calls made of the client

ASSUME ClientAssumption ==
    /\ Protocols \subseteq {"http", "grpc"}
    /\ RefusalStatuses \subseteq 400..599
    /\ MaxUses \in Nat

VARIABLES
    protocol,
    open,       \* stop has not been called
    up,         \* External: the sidecar runs
    cells,      \* External: what the sidecar keeps
    call,       \* where the promise of each caller is
    made        \* how many calls have been made

callVars == <<protocol, open, up, cells, call, made>>

Idle == [stage |-> "idle"]
Resolved(result) == [stage |-> "resolved", result |-> result]
Rejected == [stage |-> "rejected"]
Unsettled == [stage |-> "unsettled"]     \* nothing settles the promise any more

CallsInit ==
    /\ protocol \in Protocols
    /\ open = TRUE
    /\ up = TRUE
    /\ cells = Texts
    /\ call = [c \in Callers |-> Idle]
    /\ made = 0

-----------------------------------------------------------------------------
Request(ask) == IF protocol = "http" THEN HTTP!Request(ask) ELSE GRPC!Request(ask)

\* The request could not be built, or the channel is closed.
CannotBeSent(ask) == protocol = "grpc" /\ (GRPC!Request(ask) = GRPC!Throws \/ ~open)

CatchesErrors(ask) ==
    IF protocol = "http" THEN HTTP!CatchesErrors(ask) ELSE GRPC!CatchesErrors(ask)

Failed(ask) == IF CatchesErrors(ask) THEN Resolved(<<False>>) ELSE Rejected

Ask(c) ==
    /\ call[c] = Idle /\ made < MaxUses
    /\ made' = made + 1
    /\ \E ask \in Asks(protocol, c) :
          call' = [call EXCEPT ![c] =
              IF CannotBeSent(ask) THEN Failed(ask)
              ELSE [stage |-> "sent", ask |-> ask, cut |-> FALSE]]
    /\ UNCHANGED <<protocol, open, up, cells>>

Forget(c) ==
    /\ call[c].stage \in {"resolved", "rejected"}
    /\ call' = [call EXCEPT ![c] = Idle]
    /\ UNCHANGED <<protocol, open, up, cells, made>>

-----------------------------------------------------------------------------
(* External: the sidecar and the connection.                               *)

Meaning(request) ==
    IF protocol = "http" THEN HTTPMeaning(request) ELSE GRPCMeaning(request)

Answer(request, texts) ==
    IF protocol = "http"
    THEN [status |-> IF texts = <<>> THEN 204 ELSE 200, text |-> HTTPAnswer(request, texts)]
    ELSE [status |-> 0, bytes |-> GRPCAnswer(request, texts)]

Answered(sent, answer) ==
    [stage |-> "answered", ask |-> sent.ask, cut |-> sent.cut, answer |-> answer]

Serve(c) ==
    /\ up /\ call[c].stage = "sent"
    /\ LET request == Request(call[c].ask)
           meaning == Meaning(request)
           after == Overlay(meaning.writes, cells)
           texts == [i \in DOMAIN meaning.reads |-> after[meaning.reads[i]]]
       IN /\ meaning # NotFound
          /\ cells' = after
          /\ call' = [call EXCEPT ![c] = Answered(@, Answer(request, texts))]
    /\ up' = (call[c].ask.op # "shutdown")
    /\ UNCHANGED <<protocol, open, made>>

Refusals ==
    IF protocol = "http"
    THEN [status : RefusalStatuses, text : {JsonText(Array(<<>>))}]
    ELSE {[status |-> 2]}

Refuse(c) ==
    /\ up /\ call[c].stage = "sent"
    /\ \E refusal \in Refusals :
          call' = [call EXCEPT ![c] = Answered(@, refusal)]
    /\ UNCHANGED <<protocol, open, up, cells, made>>

\* The request or its answer is lost: fetch rejects, the callback gets an error.
ConnectionFails(c) ==
    /\ call[c].stage \in {"sent", "answered"}
    /\ call' = [call EXCEPT ![c] = Failed(@.ask)]
    /\ UNCHANGED <<protocol, open, up, cells, made>>

SidecarStarts ==
    /\ ~up
    /\ up' = TRUE
    /\ UNCHANGED <<protocol, open, cells, call, made>>

-----------------------------------------------------------------------------
Message(ask, answer) == Read(DaprService[GRPC!Request(ask).rpc].response, answer.bytes)

Settled(ask, answer) ==
    IF protocol = "http"
    THEN IF HTTP!Succeeds(answer.status) THEN Resolved(HTTP!Result(ask, answer.text))
         ELSE Failed(ask)
    ELSE IF answer.status # 0 THEN Failed(ask)
         ELSE LET message == Message(ask, answer)
              IN IF GRPC!CallbackThrows(ask, message) THEN Unsettled
                 ELSE Resolved(GRPC!Result(ask, message))

AnswerArrives(c) ==
    /\ call[c].stage = "answered" /\ ~call[c].cut
    /\ call' = [call EXCEPT ![c] = Settled(@.ask, @.answer)]
    /\ UNCHANGED <<protocol, open, up, cells, made>>

\* The connections of HTTP are destroyed, so that no answer arrives over them, but
\* new ones are made; a gRPC channel takes no new calls and goes on with those
\* under way.
Stop ==
    /\ open
    /\ open' = FALSE
    /\ call' = IF protocol = "grpc" THEN call
               ELSE [c \in Callers |-> IF call[c].stage \in {"sent", "answered"}
                                       THEN [call[c] EXCEPT !.cut = TRUE] ELSE call[c]]
    /\ UNCHANGED <<protocol, up, cells, made>>

CallsNext ==
    \/ \E c \in Callers :
          Ask(c) \/ Forget(c) \/ Serve(c) \/ Refuse(c) \/ ConnectionFails(c) \/ AnswerArrives(c)
    \/ Stop \/ SidecarStarts

\* External: no call stays without an answer for ever, its connection fails at
\* last.  The code sets no timeout of its own.
CallsFairness == \A c \in Callers : WF_callVars(ConnectionFails(c))

-----------------------------------------------------------------------------
(* What the client promises.                                               *)

\* A value that is handed on as bytes counts as what those read as.
Meant(v) == IF IsBuffer(v) THEN ParseOrKeep(v.buffer) ELSE v

MeantAll(values) == [i \in DOMAIN values |-> Meant(values[i])]

\* The call is in effect once the sidecar has answered it; the promise then
\* has its result.
Succeeded(c) == call[c].stage = "answered" /\ call[c].answer.status \in {0} \cup 200..399

EffectResult(c) ==
    IF protocol = "http" THEN HTTP!Result(call[c].ask, call[c].answer.text)
    ELSE GRPC!Result(call[c].ask, Message(call[c].ask, call[c].answer))

PromiseOf(c) ==
    CASE call[c] = Idle -> Idle
      [] call[c].stage = "sent" -> [stage |-> "pending", ask |-> call[c].ask]
      [] call[c].stage = "answered" /\ ~Succeeded(c) -> [stage |-> "pending", ask |-> call[c].ask]
      [] Succeeded(c) -> [stage |-> "done", result |-> MeantAll(EffectResult(c))]
      [] call[c].stage = "resolved" /\ call[c].result # <<False>> ->
             [stage |-> "resolved", result |-> MeantAll(call[c].result)]
      [] OTHER -> [stage |-> "failed"]

Promise ==
    INSTANCE ClientPromise WITH
        Asked <- UNION {Asks(p, c) : p \in Protocols, c \in Callers},
        Stored <- [cell \in DOMAIN Texts |-> ParseOrKeep(Texts[cell])],
        cells <- [cell \in DOMAIN cells |-> ParseOrKeep(cells[cell])],
        promise <- [c \in Callers |-> PromiseOf(c)]

-----------------------------------------------------------------------------
(* What may be asked, and what there is at first.  Both clients print some *)
(* values so that they read as others, and JSON keeps neither a Buffer nor *)
(* an undefined item: what the interfaces promise is for the values that a *)
(* protocol passes on as they are.                                         *)

\* The places whose text is handed on as a string, without being parsed.
UnparsedKinds == {"metadata", "secret", "configuration"}

\* The texts a place may hold.
Fits(cell, text) ==
    /\ IsText(text) /\ IsJson(ParseOrKeep(text))
    /\ cell[1] \in UnparsedKinds => IsPlain(text)

IsEmptyOrPrimitive(v) == IsPrimitive(v) /\ (Falsy(v) => v = String(EmptyText))

\* A Buffer stands for what its bytes read as.
IsBytes(v) == IsBuffer(v) /\ IsText(v.buffer) /\ IsJson(ParseOrKeep(v.buffer))

PassedOverHTTP(op, v) ==
    CASE op = "metadataSet" -> IsPlainString(v)
      [] op = "actorInvoke" -> (IsObject(v) /\ v # Null /\ IsJson(v)) \/ IsEmptyOrPrimitive(v)
      [] op \in {"invoke", "publish"} -> IsJson(OrEmpty(v))
      [] OTHER -> IsJson(v)

PassedOverGRPC(op, v) ==
    CASE op \in {"metadataSet", "transaction", "registerTimer"} -> IsPlainString(v)
      [] op = "save" -> (IsObject(v) /\ IsJson(v)) \/ IsPrimitive(v)
      [] op = "actorTransaction" -> v = Null \/ IsPrimitive(v)
      [] op = "registerReminder" -> IsEmptyOrPrimitive(v)
      [] op = "actorInvoke" -> IsBytes(v) \/ v = String(EmptyText)
      [] op \in {"invoke", "publish"} -> IsJson(OrEmpty(v))
      [] OTHER -> IsJson(v)

Passed(p, op, v) == IF p = "http" THEN PassedOverHTTP(op, v) ELSE PassedOverGRPC(op, v)

\* Each item has a key of its own.
OwnKeys(items) ==
    /\ DOMAIN items \subseteq Nat
    /\ \A i, j \in DOMAIN items : items[i].key = items[j].key => i = j

\* The operations of both clients, and those that keep what is promised in one.
Operations ==
    LET both == {"save", "get", "getBulk", "delete", "transaction", "query", "invoke", "send",
                 "publish", "metadataGet", "metadataSet", "secretGet", "shutdown", "isHealthy",
                 "actorInvoke", "actorTransaction", "actorGet", "registerReminder",
                 "unregisterReminder", "registerTimer", "unregisterTimer", "getActors"}
    IN [http |-> both \cup {"reminderGet", "secretGetBulk", "deactivate"},
        grpc |-> both \cup {"configurationGet"}]

\* What is asked of a protocol is there to be read, and made of values that the
\* protocol passes on as they are; or it cannot be sent.
WellAsked(p, ask) ==
    /\ \A i \in DOMAIN Promise!Gets(ask) : Promise!Gets(ask)[i] \in DOMAIN Texts
    /\ ask.op \in Operations[p]
    /\ CASE ask.op = "save" ->
              OwnKeys(ask.items) /\ \A i \in DOMAIN ask.items : Passed(p, ask.op, ask.items[i].value)
         [] ask.op \in {"transaction", "actorTransaction"} ->
              /\ OwnKeys([i \in DOMAIN ask.operations |-> ask.operations[i].request])
              /\ \A i \in DOMAIN ask.operations :
                    ask.operations[i].operation # "delete" =>
                        Passed(p, ask.op, ask.operations[i].request.value)
         [] ask.op = "invoke" ->
              ask.method \in {"get", "post", "put", "delete"} /\ Passed(p, ask.op, ask.data)
         [] ask.op \in {"send", "publish", "actorInvoke", "registerReminder", "registerTimer"} ->
              Passed(p, ask.op, ask.data)
         [] ask.op = "metadataSet" -> Passed(p, ask.op, ask.value)
         [] OTHER -> TRUE

ASSUME AsksAssumption ==
    \A p \in Protocols, c \in Callers : \A ask \in Asks(p, c) :
        WellAsked(p, ask) \/ (p = "grpc" /\ GRPC!Request(ask) = GRPC!Throws)

ASSUME TextsAssumption ==
    /\ {App, Actor, Binding, Topic, Actors, Metadata, Secret} \subseteq DOMAIN Texts
    /\ \A cell \in DOMAIN Texts : Fits(cell, Texts[cell])
    /\ Texts[Actors] = JsonText(Number(Texts[Actors].json.number))
=============================================================================
