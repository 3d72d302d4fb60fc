----------------------------- MODULE DaprClient -----------------------------
(***************************************************************************)
(* A DaprClient: its operations and the configurations it subscribes to,   *)
(* which share the client and the sidecar.                                 *)
(*                                                                         *)
(* A subscription is a stream the sidecar sends the configuration on each  *)
(* time it changes.  The id it is unsubscribed with is only known from the *)
(* items.  Nothing listens to the stream's errors or its end.              *)
(***************************************************************************)
EXTENDS SidecarClient

CONSTANTS
    Subscribers,    \* strings: the ids the sidecar gives them too
    MaxVersion      \* Bound: changes of the configuration

ASSUME SubscriptionAssumption ==
    /\ "" \notin Subscribers
    /\ MaxVersion \in Nat
    /\ <<"configuration", "k">> \in DOMAIN Texts
    /\ Texts[<<"configuration", "k">>] = PlainText(ToString(0))
    /\ \A m, n \in 0..MaxVersion : ToString(m) = ToString(n) => m = n

VARIABLE subscription

vars == <<callVars, subscription>>

Configuration == <<"configuration", "k">>

\* stage is where the subscriber is and stream where the sidecar is; items are
\* on their way; streamId is the id of the last that came, heard what the
\* callback was called with and running how many of its calls have not ended.
\* since is kept for the properties: how often the configuration had changed
\* when the sidecar registered the subscription.
NotSubscribed ==
    [stage |-> "none", stream |-> "none", since |-> 0, items |-> <<>>, listening |-> FALSE,
     streamId |-> "", heard |-> <<>>, running |-> 0, request |-> <<>>, ok |-> FALSE]

Init ==
    /\ CallsInit
    /\ subscription = [s \in Subscribers |-> NotSubscribed]

-----------------------------------------------------------------------------
\* Over HTTP subscribe throws, and over a closed channel it rejects.
Subscribe(s) ==
    /\ subscription[s].stage = "none" /\ made < MaxUses
    /\ made' = made + 1
    /\ subscription' = [subscription EXCEPT ![s] =
           IF protocol = "http" \/ ~open THEN [@ EXCEPT !.stage = "refused"]
           ELSE [@ EXCEPT !.stage = "subscribed", !.stream = "asked", !.listening = TRUE]]
    /\ UNCHANGED <<protocol, open, up, cells, call>>

Wrapped(bytes) ==
    GRPC!ConfigurationResult(Read(SubscribeConfigurationResponse, bytes).itemsList)

StreamIdOf(bytes) == Read(SubscribeConfigurationResponse, bytes).id.plain

\* Mutant: the first item only tells the id.
DataArrivesAfterFirst(s) ==
    /\ subscription[s].items # <<>>
    /\ LET sub == subscription[s]
           bytes == Head(sub.items)
       IN subscription' = [subscription EXCEPT ![s] =
              [sub EXCEPT !.items = Tail(@), !.streamId = StreamIdOf(bytes),
                          !.heard = IF sub.streamId = "" THEN @ ELSE @ \o Wrapped(bytes)]]
    /\ UNCHANGED callVars

\* Mutant: the streamId is kept by the client and not by the subscription.
DataArrivesForAll(s) ==
    /\ subscription[s].items # <<>>
    /\ LET bytes == Head(subscription[s].items)
       IN subscription' = [t \in Subscribers |->
              [subscription[t] EXCEPT
                  !.streamId = StreamIdOf(bytes),
                  !.items = IF t = s THEN Tail(@) ELSE @,
                  !.heard = IF t = s THEN @ \o Wrapped(bytes) ELSE @]]
    /\ UNCHANGED callVars

\* Mutant: an item waits for the callback of the one before.
DataArrivesInTurn(s) ==
    /\ subscription[s].items # <<>> /\ subscription[s].running = 0
    /\ LET sub == subscription[s]
           bytes == Head(sub.items)
       IN subscription' = [subscription EXCEPT ![s] =
              IF sub.listening
              THEN [sub EXCEPT !.items = Tail(@), !.streamId = StreamIdOf(bytes),
                               !.heard = @ \o Wrapped(bytes), !.running = 1]
              ELSE [sub EXCEPT !.items = Tail(@)]]
    /\ UNCHANGED callVars

\* The handler of the stream's data up to its await: it calls the callback,
\* whatever calls of it have not ended.
DataArrives(s) ==
    /\ subscription[s].items # <<>>
    /\ LET sub == subscription[s]
           bytes == Head(sub.items)
       IN \/ /\ sub.listening
             /\ subscription' = [subscription EXCEPT ![s] =
                    [sub EXCEPT !.items = Tail(@), !.streamId = StreamIdOf(bytes),
                                !.heard = @ \o Wrapped(bytes), !.running = @ + 1]]
          \/ /\ ~sub.listening
             /\ subscription' = [subscription EXCEPT ![s] = [sub EXCEPT !.items = Tail(@)]]
    /\ UNCHANGED callVars

\* One of the calls of the callback ends, which nothing waits for.
CallbackEnds(s) ==
    /\ subscription[s].running > 0
    /\ subscription' = [subscription EXCEPT ![s].running = @ - 1]
    /\ UNCHANGED callVars

\* stop, which may be called again after it rejected.  Over a closed channel it
\* rejects.
StopSubscription(s) ==
    /\ subscription[s].stage \in {"subscribed", "kept"}
    /\ subscription' = [subscription EXCEPT ![s] =
           IF ~open THEN [@ EXCEPT !.stage = "kept"]
           ELSE [@ EXCEPT !.stage = "stopping",
                          !.request = Wire(UnsubscribeConfigurationRequest,
                              [storeName |-> PlainText("store"), id |-> PlainText(subscription[s].streamId)])]]
    /\ UNCHANGED callVars

\* Mutant: the callback leaves the stream as it is.
StopAnsweredOnly(s) ==
    /\ subscription[s].stage = "unsubscribed"
    /\ subscription' = [subscription EXCEPT ![s].stage = IF subscription[s].ok THEN "stopped"
                                                        ELSE "kept"]
    /\ UNCHANGED callVars

\* The callback of unsubscribe.
StopAnswered(s) ==
    /\ subscription[s].stage = "unsubscribed"
    /\ subscription' = [subscription EXCEPT ![s] =
           IF ~@.ok THEN [@ EXCEPT !.stage = "kept"]
           ELSE [@ EXCEPT !.stage = "stopped", !.listening = FALSE, !.items = <<>>]]
    /\ UNCHANGED callVars

\* On an error it reads the message of an answer that is not there and throws:
\* stop never settles.
StopFails(s) ==
    /\ subscription[s].stage \in {"stopping", "unsubscribed"}
    /\ subscription' = [subscription EXCEPT ![s].stage = "unsettled"]
    /\ UNCHANGED callVars

-----------------------------------------------------------------------------
(* External: the sidecar.                                                  *)

\* How often the configuration has changed.
Version == CHOOSE n \in 0..MaxVersion : cells[Configuration] = PlainText(ToString(n))

Registered == {s \in Subscribers : subscription[s].stream = "registered"}

SidecarRegisters(s) ==
    /\ up /\ subscription[s].stream = "asked"
    /\ subscription' = [subscription EXCEPT ![s].stream = "registered", ![s].since = Version]
    /\ UNCHANGED callVars

ConfigurationUpdate(s, text) ==
    Wire(SubscribeConfigurationResponse,
         [id |-> PlainText(s),
          itemsList |-> <<Wire(ConfigurationItem, [key |-> PlainText("k"), value |-> text])>>])

ConfigurationChanges ==
    /\ up
    /\ Version < MaxVersion
    /\ LET text == PlainText(ToString(Version + 1))
       IN /\ cells' = [cells EXCEPT ![Configuration] = text]
          /\ subscription' = [s \in Subscribers |->
                 IF s \notin Registered THEN subscription[s]
                 ELSE [subscription[s] EXCEPT !.items = Append(@, ConfigurationUpdate(s, text))]]
    /\ UNCHANGED <<protocol, open, up, call, made>>

\* It ends the stream of the id it is sent, if it has one of that id.
SidecarUnsubscribes(s) ==
    /\ up /\ subscription[s].stage = "stopping"
    /\ LET id == Read(UnsubscribeConfigurationRequest, subscription[s].request).id.plain
       IN subscription' = [t \in Subscribers |->
              [subscription[t] EXCEPT
                  !.stream = IF t = id /\ t \in Registered THEN "ended" ELSE @,
                  !.stage = IF t = s THEN "unsubscribed" ELSE @,
                  !.ok = IF t = s THEN id \in Registered ELSE @]]
    /\ UNCHANGED callVars

\* A sidecar that shuts down ends the streams.
StreamsEnd ==
    subscription' = [s \in Subscribers |->
        IF up' \/ subscription[s].stream = "none" THEN subscription[s]
        ELSE [subscription[s] EXCEPT !.stream = "ended"]]

-----------------------------------------------------------------------------
Next ==
    \/ CallsNext /\ StreamsEnd
    \/ ConfigurationChanges
    \/ \E s \in Subscribers :
          \/ Subscribe(s) \/ DataArrives(s) \/ CallbackEnds(s) \/ StopSubscription(s)
          \/ StopAnswered(s) \/ StopFails(s)
          \/ SidecarRegisters(s) \/ SidecarUnsubscribes(s)

\* The stream's items are read; no callback need ever end.
ItemsFairness == \A s \in Subscribers : WF_vars(DataArrives(s))

Spec == Init /\ [][Next]_vars /\ CallsFairness /\ ItemsFairness

-----------------------------------------------------------------------------
(* Properties.                                                             *)

\* The sidecar is only ever given texts, and every promise and subscription is
\* at a stage of its own.
TypeOK ==
    /\ open \in BOOLEAN /\ up \in BOOLEAN
    /\ \A cell \in DOMAIN cells : IsText(cells[cell])
    /\ \A c \in Callers :
          call[c].stage \in {"idle", "sent", "answered", "resolved", "rejected", "unsettled"}
    /\ \A s \in Subscribers :
          subscription[s].stage \in {"none", "refused", "subscribed", "stopping",
                                    "unsubscribed", "kept", "stopped", "unsettled"}

\* Every operation of the client, over either protocol, keeps what its
\* interface promises: whatever is lost or refused and however calls overlap,
\* each takes effect once or not at all and a promise that resolves has the
\* values there were when its call took effect.
ImplementsPromise == Promise!Spec

\* If the sidecar answers or the connection fails, the promise of a call settles.
\* The invocation of a method over gRPC is left out: its callback throws if the
\* application's answer is not JSON.
EveryCallSettles ==
    \A c \in Callers :
        (call[c].stage = "sent" /\ ~(protocol = "grpc" /\ call[c].ask.op = "invoke"))
            ~> call[c].stage \in {"resolved", "rejected"}

\* What a subscription's callback was called with and what is on its way is every
\* change since the sidecar registered it, from the first after that to the last
\* there was, in order.
ConfigurationIsHeard ==
    \A s \in Subscribers :
        LET sub == subscription[s]
            texts == sub.heard \o [i \in DOMAIN sub.items |-> Head(Wrapped(sub.items[i]))]
        IN sub.stage \in {"subscribed", "stopping", "kept"} =>
             /\ \A i \in DOMAIN texts : texts[i] = String(PlainText(ToString(sub.since + i)))
             /\ s \in Registered => sub.since + Len(texts) = Version

\* No callback has to end for the next item to be heard: every item is taken off
\* its stream, however many callbacks are still running.
ItemsAreTaken ==
    \A s \in Subscribers : subscription[s].items # <<>> ~> subscription[s].items = <<>>

\* A stop that resolves has ended the stream of its own subscription, and one
\* that is called ends no other's.
StopEndsOwn ==
    [][\A s \in Subscribers :
          /\ subscription'[s].stage = "stopped" => subscription'[s].stream # "registered"
          /\ subscription[s].stream = "registered" /\ subscription'[s].stream = "ended" =>
                subscription[s].stage = "stopping" \/ ~up']_vars

\* Once a stop has resolved the callback is not called again.
NothingAfterStop ==
    [][\A s \in Subscribers :
          subscription[s].stage = "stopped" =>
              subscription'[s].heard = subscription[s].heard]_vars
=============================================================================
