# Formal models of the Dapr JavaScript SDK

TLA+ modules, model-checked with TLC and proved about with TLAPS, of the parts
of the SDK whose behaviour depends on order, overlap, failure or on what a
value becomes on its way. Line numbers are those of `src/src/...` in the
repository; `ASM` stands for `actors/runtime/ActorStateManager.ts`, `SP` for
`StateProvider.ts`, `AM` for `ActorManager.ts` and `AA` for `AbstractActor.ts`
of the same directory; `GSI` for `GRPCServerImpl.ts`.

## The system

The SDK talks to a Dapr *sidecar*. A `DaprClient` sends requests to it over
HTTP or gRPC; a `DaprServer` registers handlers and answers the requests the
sidecar sends. Actors live in the server: the sidecar activates an actor by
sending it a request, and the actor's state lives in the sidecar's store.

JavaScript runs one flow of control at a time, up to its next `await`. What can
go wrong is therefore what happens between two awaits of one flow: another
request, another promise of the same method, an answer that has become untrue,
a failure after half of the work was done. What can also go wrong is the value
itself: between user code on both sides it passes through JSON, bytes,
templates, body parsers and protocol messages, not the same ones over HTTP and
over gRPC.

| component | state | operations | interacts with | what is hard | what makes it correct |
|---|---|---|---|---|---|
| Actor state manager (`ASM`) | `defaultStateChangeTracker`: name → value and change kind | add, get, set, remove, contains, getOrAdd, addOrUpdate, clear, save | state provider, user code, abstract actor | an answer of the sidecar is used after an await; entries are marked saved before they are | the change kinds agree with the store; reads see one's own writes; a save carries every change once |
| State provider (`SP`) | none | containsState, tryLoadState, saveState | actor client, sidecar | values classified by truthiness and length | a stored value is found; the transaction is one the sidecar knows |
| Actor manager (`AM`), abstract actor (`AA`) | `actors` Map, one instance per id | activate, deactivate, callMethod, fireReminder, fireTimer | runtime above, state manager below | overlapping activation, deactivation and calls; throwing hooks; crash | one instance per id; only activated instances serve; nothing is left over from an earlier call; requests end |
| Actor runtime, HTTP actor routes | registry type → manager | register, config, invoke, fireReminder, fireTimer, deactivate | sidecar, actor manager | unknown types, also after a restart; what a thrown error answers | each request reaches the manager of its type and is answered |
| Reminders, timers, codecs | none in the process | encode a registration, decode what fires | actor manager, actor client | values that change on the way through strings and buffers; a registration replaced while it fires | what was registered is what the method receives |
| Actor client and proxy | actor id and type | invoke, state, reminders, timers | sidecar | values and durations as they are sent | arguments and results arrive as they were given |
| Server start and stop (HTTP, gRPC) | listening, sidecar healthy | start, stop | sidecar health endpoint | polling against a bound; a start that throws after it listens | initialized means listening and found healthy; starts and stops end |
| gRPC and HTTP dispatch | handler tables, routes | register, list topics and bindings, dispatch | sidecar, user code | missing or throwing handlers; keys normalised on one side; a parser per kind and protocol | a request reaches its own handler with what was sent, and its answer tells what became of it |
| Configuration subscription | stream, stream id | subscribe, stop | sidecar, user callback | stop before the first item, items while stopping, failed unsubscribe | every change until the stop, none after; a stop ends its own stream |
| HTTP and gRPC clients | the connections, open or stopped | one request, one answer each, for state, invocation, bindings, pubsub, actors, metadata, secrets, health, shutdown | sidecar | status codes; values encoded differently; errors swallowed by some operations; loss, stop | a call takes effect once or not at all, as asked; a promise that resolves has the values there were; it settles |
| Generated protocol code | none | write and read a message | clients, servers | defaults that are not written; fields by number | what is set is what is read |
| Utilities, interfaces | none | – | – | – | – |

`PROJECT.json` lists every component with its source files, and the hazards
with their lines.

## Modules

| module | models |
|---|---|
| `StateTracker` | the change tracker as a value: what each operation makes of the entry it hits, or of the sidecar's answer on a miss; `BatchOf`, `MarkUnmodified`, `DropRemoved` are the three steps of `saveState` (ASM:263-295); `ContainsState`, `TryLoadState`, `Operation` are the state provider. No state of its own. |
| `ActorStateManager` | one instance's state manager with several callers: an operation is split at every await (`Ask`, the sidecar's `StateGet`, `...Resumes`; `SaveState`, `StateTransaction`, `SaveStateResumes`). |
| `ActorStateCache` | the abstract specification of it: a committed map under an overlay of changes, with no change kinds, no caching and no requests. |
| `ActorManager` | the actors of one type: activation, the calls, deactivation, with several requests outstanding, hooks and saves that fail, and crashes. It composes the tracker of `StateTracker`: each instance has one. |
| `JsValues` | JavaScript values and the texts they travel as: `JSON.stringify` with what it does not keep (`Json`), `JSON.parse` with a fallback, `toString`, template literals, truthiness. |
| `ActorRuntime` | a call to an actor from the proxy to the method and back, timers and reminders from their registration to the callback, the registry of types, and the process that ends and is replaced. |
| `DaprMessages` | the generated protocol code: a schema per message class (field numbers and defaults), `Wire` and `Read` for what the setters and `serializeBinary` send and the getters find, and the services. |
| `HTTPClient`, `GRPCClient` | the request each operation of the client sends over that protocol, and what it makes of the answer. No state of their own. |
| `Sidecar` | external: what a request of either protocol reads and writes in the sidecar, and the answer. |
| `SidecarClient` | the calls of a client: `Ask`, `Serve` or `Refuse`, `AnswerArrives` or `ConnectionFails`, with `Stop` and shutdowns of the sidecar, over either protocol (`INSTANCE HTTPClient`, `INSTANCE GRPCClient`). |
| `ClientPromise` | the abstract specification of it: a call that is made takes effect at one moment or not at all, as its arguments say, whatever the protocol. |
| `DaprClient` | composes `SidecarClient` with the configuration subscriptions, which share the client, the sidecar and its configuration. |
| `AppEvents` | what a server makes of the message or body of an invocation, a binding or a topic event, the body by its content type, and of what its handler does, over either protocol. |
| `AppServer` | a `DaprServer` over HTTP or gRPC: registration of handlers, the topics and bindings the sidecar asks for, dispatch, and start and stop with the polling of the sidecar's health. |
| `..._proofs` | the theorems of a module; `ActorStateCache_proofs` has those that relate the state manager to its abstract specification, on top of `ActorStateManager_proofs`. |
| `MC...` | instances for TLC. |

### How the state corresponds

State manager and actor manager:

- `tracker[n]` is the Map entry of `n`; a name without one has kind
  `"UNTRACKED"`. `setChangeKind`, `setValue`, `Map.set` and `Map.delete` are all
  updates of `tracker[n]`.
- A value is in one of three classes, which is all the code tells apart:
  *Sized* (a positive length), *Unsized* (truthy, no length), *Blank* (falsy,
  or of length 0). `containsState` accepts the first, `tryLoadState` the
  first two. `Null`, the value a removed and never loaded name is tracked
  with (ASM:160), is one of the blank values.
- `call[c]` is the program counter of a caller and the locals that survive an
  await: the name, the argument, the sidecar's answer, the batch of a save.
- `store` is the sidecar's store, external. A transaction is applied as a
  whole. It is refused if it holds an operation outside `SidecarOps`.
- `actors` is the Map of `AM`. `instance` is the heap: an instance that neither
  the Map nor a request refers to is collected and its place is used again, so
  that a small set of instances is enough for unbounded behaviours.
- `request[r]` is the program counter of a request. `"hook"` stands for all
  user code: `onActivate`, `onDeactivate`, and a method with its pre and post
  hooks. A request reads the Map again after an activation (`AM:94`), and so
  does `GetActiveActor`.
- `discipline` is what the sidecar does with overlapping requests, chosen at
  the start (see *Discipline* below).
- `activated` and `deactivated` are not in the code. They record that the promises
  of `onActivateInternal` and `onDeactivateInternal` have resolved, hook and save
  included, for the properties to speak of.

Runtime (`ActorRuntime`):

- `managers` is the keys of `actorManagers`; `hosted` is what the sidecar was
  told at `GET /dapr/config`, and survives the process; `table` is the sidecar's
  timers and reminders.
- `call[c]` follows one call: `"registering"` until the sidecar has answered a
  registration, `"sent"` from the proxy or the firing until the route has read
  the body, `"running"` in the method, `"settled"` when the caller is answered.
  `asked` in it is what the caller gave, for the properties only.
- The conversions are functions on `JsValues`: `Serialize`, `Deserialize`,
  `Spread`, `ResultText`, `FormatDuration`, `FromObject`.

Client (`SidecarClient`, `DaprClient`):

- `cells` is everything the sidecar keeps, as texts: keys of the store, what an
  application, an actor, a binding or a topic last heard, reminders, metadata,
  secrets, the configuration.
- `call[c]` is the promise a caller holds, and what is on its way for it;
  `"unsettled"` is a promise whose callback threw. A call that HTTP's `stop` cut
  off (`cut`) gets no answer any more.
- `subscription[s]` is the stream of a subscription with the items on their way,
  whether the handler listens, `streamId`, what the callback was called with
  (`heard`), how many of its calls have not ended (`running`), and where `stop` is.
  `since` is the version of the configuration when the sidecar registered the
  subscription, for the properties only. The handler awaits the callback and
  nothing awaits the handler, so `DataArrives` is enabled whatever `running` is.

Server (`AppServer`):

- `handlers` is the three handler tables of `GRPCServerImpl`, by key, or the routes
  of the HTTP server, by verb and path. A gRPC key is a kind (the verb of an
  invocation, `"binding"` or `"topic"`) and a name in lower case, and a second
  registration replaces the first. A route is a verb and a path: a binding, a topic
  and a post invocation can have the same one, and the first registration stays.
  `registered` is what user code registered, `heard` is what the sidecar knows.
- `start` is the program counter and the locals of `start()`, `stopping` that
  of `stop()`.
- `call[c]` is a request of the sidecar: its kind, name and payload, the
  `argument` its handler is called with, then the `answer`. A request that is
  `"dropped"` is one the code will not answer: no handler (gRPC), or a handler
  that threw outside a `try`. A runtime that ends the process on an unobserved
  rejection would crash there; the model is of one that goes on. Whether the
  HTTP router answers for a route that threw is its own affair; the model has
  it not answer.

### What is abstracted

- Keys, names and the characters of texts. A text is the JSON of some value or
  is not JSON. What matters about a name are its case (`Lower`), what is left of it
  when its key is split at bars (`Cut`), and the path it gives a route (`Path`,
  `Route`): these are constants, any functions on names that the assumptions of
  `AppServer` allow.
- What JSON does not keep is modelled two levels deep: an undefined item of an array
  is read as null, a Buffer as an object of its type and bytes, in a value or in a
  member or item of it. Values nested deeper are taken to be values that JSON keeps.
  An undefined member of an object is left out by JSON, and reads as undefined either
  way. Parameters with a default (`OrEmpty`) take it when they are undefined.
- The content type of a body is JSON, text, bytes or another one. The strict parser
  of JSON refuses what is neither an object nor an array, before any route.
- A URL is its template; a message is a function of field numbers. The bytes of
  the protocol-buffer encoding are not modelled, nor the fields the SDK never
  sets or reads beyond their numbers and defaults.
- In `ActorManager` a state operation of user code is one step and a method has
  no arguments; in `ActorRuntime` there are no activations and no state, and one
  actor per type with one timer and one reminder. The two meet in
  `callActorMethod`: the first says which instance runs it, the second with
  what.
- Durations are in one of the classes the code treats differently: only a
  time, with days, or missing.

## Runs

Each run is small enough to be exhaustive.

| run | question | bounds | distinct states |
|---|---|---|---|
| `state_turn` | in a turn as the SDK expects it, does the tracker stay true to the store, and does the manager behave as a store with an overlay? | 2 callers on a name each, 2 values, all operations but add, reads that fail | 155,132 |
| `state_overlap` | with no discipline, can the placeholder of a removal be stored? | 2 callers on one name, all operations, every failure | 199,325 |
| `state_add_inverted`, `state_save_fails`, `state_stored_not_found` | three statements of comments and messages that the code does not keep | one caller, one name | – |
| `actor_turns` | do calls start on an activated, clean and current instance? | 2 ids, 2 requests, 2 instances, crashes | 41,209 |
| `actor_overlap` | with any overlap, does only an activated instance serve, does one leave only once its own `onDeactivate` has ended, does each request end, and is there one instance of an id where the sidecar gives it turns? | 1 id, 2 requests, 2 instances, disciplines `drain` and `free`, every failure, fairness | 134,910 |
| `actor_failed_call` | does a call that throws leave changes to the next one? | one id, one request | – |
| `actor_calls` | do arguments, results and scheduled data arrive as given, and is every call answered? | one type, 2 calls, argument lists of none, one and four values (a word; undefined, a string that reads as a number, a Buffer and an array), a callback that is no method, 3 kinds of duration, throwing methods, processes that end | 61,766 |
| `client` | does every operation over either protocol keep what its interface promises, does every promise settle, and does a subscription hear every change since it was registered until its own stop, whatever its callbacks wait for? | 2 callers, 2 subscribers, 2 uses, 2 changes of the configuration, every operation with the values it tells apart, refusals with 400 and 500, lost requests and answers, overlapping callbacks, stop, shutdown | 224,034 |
| `server_lifecycle` | does a server count as initialized only when it listens and was found healthy, does a request reach its own handler with what was sent, does its answer tell what became of it, are topic events answered over gRPC but for names with a bar, do starts and stops end? | both protocols; a method with two verbs, a binding, two topics, one with an upper-case letter and one with a bar, routes that are shared; bodies of JSON and text, one refused; 2 requests, 3 probes, failing binds and throwing handlers, fairness | 593,268 |
| `server_topic_spelling` | is the sidecar told of the topics user code subscribed to? | gRPC, one topic with an upper-case letter | – |

Why the bounds are enough. A property of the state manager relates one name to
the store, and its violation needs at most one other caller between two awaits
of the first; a third would repeat the second. A request holds at most one
instance and the Map one per id; with as many instances as requests a new one
is available whenever an activation begins, unless the Map holds an instance no
request uses, in which case no activation of that id begins. Values: two sized
ones, so that a stale value differs from the current one, and one of each class
where the class matters.

Calls of actors share only the registry and the table of the sidecar, of which
a second call can change what the first is about; a third does it no
differently. Two uses of a client give two calls that overlap, a call
against a subscription, or two subscriptions, each with a stop of the client
and shutdowns at any moment; the second caller asks for what collides with the
first one's calls, a write and a read of the same key and an invocation. More
uses would add only sequences, and a call leaves nothing in the client but the
channel that was or was not stopped. Two changes of the configuration are the
least that can be heard out of order, or with their callbacks overlapping.

The server's one counter is the retries of a start, which the code bounds
itself: `MaxRetry` is 60 there and 2 in the run, which has the first probe, one
in the middle and the last, whose answer is discarded. Requests to a
server share nothing but the handler tables and the shutdown that waits for all
of them: two are enough for one to be answered while another is not. Of the two
topics, the one with an upper-case letter is listed under the name the other is cut
to, and over HTTP one of them shares its route with the binding and the post
invocation. The payloads are JSON as text, JSON as JSON, and one that is sent as JSON
and is none, which the parser refuses; `bytes` and other types differ from these
only in what the theorem says of them. A verb more would repeat `get` and
`post`, and a result is an object or nothing.

Discipline. The sidecar gives each actor a lock, so that its requests take
turns (`"turns"`), except that a drained actor may be deactivated without waiting
for its call (`"drain"`). `"free"` assumes nothing about the sidecar. The
discipline is external; each property is checked under the weakest discipline
under which the code keeps it, which for `SingleInstance` is `"drain"` and is
part of the property.

In a *turn* of the state manager (`Overlap = FALSE`), a save or a clear starts
only when no call is outstanding and calls start only when no save is: this is
`AbstractActor`, which saves after the method's promise has settled. User code
that leaves a promise behind breaks the discipline.

`state_turn` leaves `add` out because its existence test is inverted
(`state_add_inverted`): after an add of a stored name even the tracker's own
invariants are false. `state_overlap` has it.

In `AppServer` user code awaits a start before it stops the server, and a stop
before it starts it again, as every example and test does; handlers may be
registered at any time.

What `client` does not ask. A value may change its type on the way, over gRPC more
often than over HTTP (see *Findings*). `AsksAssumption` of `SidecarClient` says which
calls the promise is about: those made of values that their protocol passes on as
they are (`PassedOverHTTP`, `PassedOverGRPC`, operation by operation), which of those
that travel as JSON are the ones JSON keeps (`IsJson`), and over gRPC also those that
throw before anything is sent. So a Buffer is no body of an actor call over HTTP, where
the client sends `{"type":"Buffer",...}`, and nothing undefined is published: it becomes
`{}` by the parameter's default, and that is what the abstract call says too. What is left out are the values that
are silently changed, a batch with the same key twice, and texts the sidecar hands on
unparsed but the reader would parse (`TextsAssumption`). TLC evaluates both assumptions
on the calls of the run. `ImplementsPromise` lets a promise that rejects have taken
effect or not, as a lost answer cannot tell.

Fairness (`actor_overlap`). `Return`: user code returns or throws.
`Continue`: the event loop runs a continuation that is ready. `Sidecar`: a
request is answered or fails (the HTTP client rejects). None is assumed for
arriving requests and for what user code does meanwhile, so a method that uses
its state for ever is excluded only by the fairness of `Return`.

Fairness (`actor_calls`). `Schedule`: the sidecar answers. `Serve`: the server
handles what it receives. `Return`: methods return or throw.

Fairness (`client`). `ConnectionFails`: no call stays without an answer for
ever. This is external: the code sets neither a timeout nor a deadline, and a
sidecar that keeps a connection open and never answers keeps the promise pending.
`ItemsFairness`: the event loop hands on the items of a stream. No callback of a
subscription is assumed to end; `ItemsAreTaken` holds without that.

Fairness (`server_lifecycle`). `Continues`: the bind calls back, the timer of
the polling delay fires, and the sidecar answers a probe or the request fails.
`Resumes`: handlers return or throw. `GiveUp`: the sidecar does not wait for
ever; `StopEnds` over gRPC needs it for requests that are never answered,
because `tryShutdown` waits for them. `TryShutdown` and `Terminate`: the
libraries call back. Nothing obliges user code to start, stop or register.

Deadlock is checked in every run but `client`, where nothing is left to do when
the uses are used up.

## Findings

Stated in `PROJECT.json` with the lines that say otherwise:

1. `tryAddState` tests `if (!stateExists) return false` (ASM:58): `addState`
   refuses names that do not exist and accepts names that do.
2. `saveState` marks the entries unmodified before it sends them (ASM:285). If
   the transaction fails no later save carries the changes.
3. A stored value without a length is not found by `containsState`, and a
   falsy one by no lookup (SP:29, SP:38).
4. A method that throws leaves its changes on the instance (AM:153), although
   `resetStateInternal` is documented to be called then (AA:158).
5. Over gRPC topics are listed from lower-cased keys (GSI:41, GSI:174): a topic
   with an upper-case letter is never subscribed to.

Seen while modelling and not stated as runs. Actors:

- A removal is sent as the operation `remove` (SP:79); the request documented
  above it uses `delete` (SP:56). A sidecar that knows only the documented
  ones refuses the whole transaction.
- Two calls on the same name that overlap, or a set during a save, lose the
  change (ASM:90, ASM:293). Nothing in the repository promises otherwise;
  `ChangeSurvives` therefore has a run only with calls on different names. Two
  saves that overlap may reach the sidecar in either order.
- `ActorReminderData.fromObject` swaps ttl and period (line 84); nothing reads
  them afterwards. Data that is an object or an array does not survive the way
  back (`ActorReminderData.ts` 82, `ActorTimerData.ts` 60).
- A method called without arguments receives `{}`; an argument that is undefined
  arrives as null and a Buffer as an object (`ActorProxyBuilder.ts` 45); one that returns nothing
  resolves with `"undefined"` (`HTTPServer/actor.ts` 125).
- A duration with days is sent in a form the sidecar cannot read, and without
  a period registering throws (`ActorClientHTTP.ts` 61).
- The runtime is a singleton that keeps the client of its first caller
  (`ActorRuntime.ts` 57).

Clients:

- Over gRPC `stop` of a subscription never settles when unsubscribing fails:
  the callback reads the message of a response that is not there
  (`configuration.ts` 139). Nothing listens to the stream's errors or end.
- An invocation over gRPC whose answer is not JSON never settles
  (`GRPCClient/invoker.ts` 82).
- Over gRPC a transaction rejects numbers, objects and `true` and sends a falsy
  value as an empty text (`GRPCClient/state.ts` 155); `save` keeps a string that
  reads as JSON as that JSON (line 40); actor state is a template literal, so
  an object is `"[object Object]"` (`ActorClientGRPC.ts` 72), and the body a
  proxy sends cannot be serialized at all (line 41).
- `query` (`GRPCClient/state.ts` 216) and `send` resolve with undecoded bytes.
  `publish` rejects with `false` over gRPC and resolves with it over HTTP.
  `secrets.getBulk` resolves with an internal of the map (`secret.ts` 62).
- `getActors` over HTTP has an unfinished template in its URL
  (`ActorClientHTTP.ts` 109), so no sidecar serves it. Keys and names are put in
  URLs unescaped.

Servers:

- The answer of the last health probe is discarded (`HTTPServer.ts` 130): the
  start throws although the sidecar has just been found healthy; and after a
  start that threw the server still listens, so that another start fails.
- A stop during a start shuts the server down, and the polling later marks it
  initialized (`HTTPServer.ts` 137).
- Over gRPC a request without a handler, or whose invocation or binding handler
  throws, is never answered, and a stop waits for it. An invocation without data
  ends the same way (GSI:81).
- A falsy result of an invocation is not sent: nothing over gRPC, and
  `{"closed":true}` over HTTP. An invocation's text that is not JSON arrives in
  quotation marks over HTTP and plain over gRPC.
- Bindings are listed in lower case like topics (GSI:192), and a topic with a bar
  in its name as the part before it (GSI:175): events of that other name come without
  a handler, and are not answered.
- A second registration of a name replaces the handler over gRPC (GSI:54); over
  HTTP the first keeps answering. There a binding (`binding.ts` 36), a topic
  (`pubsub.ts` 34) and a post invocation (`invoker.ts` 33) can have the same path,
  two topics the same default one (`pubsub.ts` 28), and the first that was
  registered gets the events of the others.
- Over HTTP an invocation with a body of JSON that is a number or a string is refused
  with 400, and one with a content type no parser is for arrives as `{}`
  (`HTTPServer.ts` 44-56).

## What is proved

For every value of the constants that satisfies the modules' `ASSUME`s:

| theorem | assumes | argument |
|---|---|---|
| `TypeCorrect` | – | `TypeOK` is inductive; the lemmas of `StateTracker_proofs` say that each outcome is an entry and an answer |
| `PlaceholderStaysOut` | `CallersAvoidNull`: no argument and no factory result is null | `PlaceholderInv`: no ADD or UPDATE entry of the tracker, of a batch or of a pending call holds `Null`. `PlaceholderNeverStored` alone is not inductive: the null could already be in a batch |
| `AddsAreFresh` | `SoundTurn`: calls on different names, awaited before the save, no `add`, and stored values that `containsState` recognises | `TurnInv`: besides the property, that the sidecar's answer a call still holds is what the store holds, that names with a lookup outstanding are untracked, and that a save has the manager to itself |
| `ChangesAreOfStored`, `CleanAreStored` | `SoundTurn` and `ReliableSaves`: transactions are applied and acknowledged | `RightInv`, which holds both and what a batch on its way says of the store. Neither is inductive alone: an unmodified entry becomes a change, and a save makes changes unmodified |
| `ChangesSurvive` | the same | `TurnInv` and `RightInv`: a call that goes on after its await finds its name untracked, so that it drops no change |
| `ManagerImplementsCache` | the same, and that the abstract marks of a change are no values | initial states map to initial states; each of the manager's steps is a step of `ActorStateCache` or a stutter (`CacheNext`, one lemma per action). The answer a late call uses is right because its name has been left alone (`TurnInv`) |
| `ManagerTypeCorrect` | – | part of `ServingInv` |
| `ActivatedServe` | – | `ServingInv`: each id's instance and each busy request's instance is an object of that id, and is activated unless that request is still activating it |
| `OneInstanceServes`, `DeactivatedLeave` | – (`drain` is allowed, both properties except `free`) | `AloneInv`: each id has at most one call and one deactivation on their way, an activation only while the Map has no instance of the id, and a deactivation only of the one it has. `SingleInstance` alone is not inductive: whether a registration makes a second instance depends on what the Map holds meanwhile. For `DeactivatedLeave`, that a request which unregisters has seen the hook and the save of its own instance end, and that the Map still has that instance |
| `CacheStaysCurrent`, `NothingIsLeftUnsaved`, `DeactivatedNotCalled` | `PlainTurns`: the requests of an id take turns, hooks, methods and transactions do not fail; crashes may happen | `TurnsInv`: how an instance was left. An instance at rest in the Map is clean; at each stage of a request, what its tracker holds agrees with the store, or will once the batch on its way is applied (`SaveMarks`) |
| `RuntimeTypeCorrect`, `ArgumentsAlwaysArrive` | – | `IInv`: besides the types, that the body of a call on its way is what the client made of what was asked, and that the arguments of a running method are what was asked. `ArgumentsArrive` alone is not inductive: it says nothing of a call before it runs. The lemmas say that each conversion undoes the one before it, up to what JSON makes of an argument |
| `ScheduledAlwaysArrive` | the data registered are numbers, booleans and strings that are not JSON | the same `IInv`: the body that fires is the registration it was fired for, whatever the table holds by then; `PrimitiveShape` says that such a value prints as a text that reads as it |
| `ResultsAlwaysArrive` | methods return objects and arrays that JSON keeps, null or such a value | the same `IInv`, with what a settled call resolved with (`Returned`). The others do change: a string that is JSON arrives as what it stands for, `undefined` as a string |
| `WireKeeps`, `WireAddsNothing` | the field numbers of a class differ (`FieldNumbers`, which TLC evaluates for every class) | a field is on the wire under its number exactly if it differs from its default |
| `PromiseIsKept` | `AsksAssumption`, `TextsAssumption` | initial states map to initial states, and each action maps to one of `ClientPromise` or a stutter (one lemma per action). The work is in the two lemmas `HTTPServes` and `GRPCServes`, which have one below them for each operation: what the sidecar writes for the request a client sends reads as `Sets`, and what the client makes of the answer is `Outcome`. `CallsOK` is the invariant they need: the cells are texts that fit their places, what is on its way to the sidecar was asked for and can be sent, and an answer has a status the clients know. That what travels as JSON reads as it was is `JsonRead`, for values JSON keeps. A cell is mapped to what it reads as, and a call that was answered with success to the result it will have |
| `ClientTypeOK` | the same | part of `HInv`; that the cells stay texts needs `CallsOK`, that is, what every operation writes |
| `ConfigurationAlwaysHeard` | the same; the texts of different versions differ (`SubscriptionAssumption`) | `HInv`: `CallsOK`, `Own`, and that what a subscriber heard, followed by what is on its way, are the versions from the one after `since` on (`Follows`), up to the current one while the sidecar has the subscription registered (`UpTo`). That the version now is in the cell needs that no call writes there |
| `StopAlwaysEndsOwn`, `NothingEverAfterStop` | – | `IInv` (`Own`): a subscription knows, is sent, and asks to end no id but its own or none; one that has stopped has no listener and a stream that has ended. By `WireKeeps` the id of an item and of the request is the one that was put in |
| `ServerTypeCorrect` | – | `TypeOK` is inductive |
| `UnansweredOnlyAfterCut` | – (the assumptions on `Lower` and `Cut`) | `TopicInv`: a topic that was subscribed to has a handler under its key, and what the sidecar heard of is what is left of the key of such a topic. Without it an event could arrive for a name that is neither |
| `AlwaysHandledByItsOwn` | – | `OwnInv`: every key and route has a registration it comes from. By `LookedUp`, which rests on `WireKeeps`, the kind and name read from a message are those that were sent; verbs keep their own because their numbers differ |
| `PayloadsAlwaysArrive`, `AnswersAlwaysTell` | – | inductive together with `TypeOK`, as each request carries its payload and answer by itself; the work is in the lemmas `EventArrives`, `BodyArrives`, `InvocationTells`, `EventTells` and `RouteTells`, which follow a text through the messages by `WireKeeps` and through the parsers, one case for each content type and kind of handler |
| `InitializedServerListens` | – | `ListenInv`: starts and stops do not overlap, and a start that polls has a server that listens |
| `InitializedOnlyOnHealth` | – | `ListenInv`, and that no step but `Poll` sets `isInitialized` |

So every safety property and action property of a passing run is a theorem, and so are
both refinements. Where a theorem assumes something a reader might miss, the run's
constants satisfy it. Only model-checked are `EveryRequestEnds`, `EveryCallEnds`,
`EveryCallSettles`, `ItemsAreTaken`, `StartEnds` and `StopEnds`, because liveness is out of the prover's
reach, and what the runs that expect a violation show.

## Not modelled

- The generated code of the operator, placement, sentry and internal services:
  nothing in the SDK uses it. Of the code that is used, the text form of
  messages (`toObject` for printing) and the type declarations.
- Settings, logging, interfaces, enumerations.
- Over HTTP, configuration: each operation throws that it is not supported, and
  a subscription over HTTP is refused in the model.
- The HTTP router, the gRPC and protocol-buffer libraries, `fetch` and the
  sidecar: external, and modelled as the code uses them. Routes with patterns.
- What JSON makes of values nested more than two levels deep.
- What an error event of a stream without a listener does to the process.
- Retries: the SDK has none but the health polling, so none are modelled.

## Plan

What is left are hazards that no property covers, each listed in `PROJECT.json` with
the reason. Most are places where the code goes wrong as it stands and nothing in the
repository says otherwise, so that a property would either be false or leave the case
out: calls on one name that overlap each other or a save (ASM:90, 122, 293), a
deactivation that clears the tracker under a call that is not finished (AA:132), a
server that serves after its start failed (`HTTPServer.ts` 131), a stop during a start
(`HTTPServer.ts` 137) and an invocation over gRPC whose answer is not JSON
(`GRPCClient/invoker.ts` 82). They are the first to state once the code handles them.
