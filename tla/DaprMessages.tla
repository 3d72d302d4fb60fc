----------------------------- MODULE DaprMessages -----------------------------
(***************************************************************************)
(* The generated protocol code: what each message class writes and reads.  *)
(* A schema gives for every field of a class its number on the wire and    *)
(* what its getter answers when nothing was set.  A message to be sent is  *)
(* the record of what its setters were called with; what is sent is a      *)
(* function of field numbers; a message received is the record of what its *)
(* getters answer.  Strings and bytes are texts.                           *)
(***************************************************************************)
EXTENDS JsValues, Naturals, TLC

Field(n, default) == [number |-> n, default |-> default]

Text(n) == Field(n, EmptyText)        \* string and bytes
Enum(n) == Field(n, 0)
Int32(n) == Field(n, 0)
Bool(n) == Field(n, FALSE)
Repeated(n) == Field(n, <<>>)
MapField(n) == Field(n, <<>>)
Sub(n) == Field(n, Undefined)         \* a message, as what it is sent as

-----------------------------------------------------------------------------
\* serializeBinaryToWriter writes what differs from the default.
Written(schema, message) == {f \in DOMAIN message : message[f] # schema[f].default}

\* serializeBinary
Wire(schema, message) ==
    LET written == Written(schema, message)
    IN [wire |-> [n \in {schema[f].number : f \in written} |->
                     message[CHOOSE f \in written : schema[f].number = n]]]

\* deserializeBinary: a field that is not there reads as its default, a number
\* the class does not know is skipped.
Read(schema, bytes) ==
    [f \in DOMAIN schema |->
        IF schema[f].number \in DOMAIN bytes.wire THEN bytes.wire[schema[f].number]
        ELSE schema[f].default]

\* Each number is one field's.
WellFormed(schema) ==
    \A f, g \in DOMAIN schema : schema[f].number = schema[g].number => f = g

-----------------------------------------------------------------------------
(* Shared by the services (common_pb.js).                                  *)

HTTPExtensionVerb ==
    [none |-> 0, get |-> 1, head |-> 2, post |-> 3, put |-> 4, delete |-> 5, connect |-> 6,
     options |-> 7, trace |-> 8, patch |-> 9]

HTTPExtension == [verb |-> Enum(1), querystring |-> Text(2)]

InvokeRequest ==
    [method |-> Text(1), data |-> Sub(2), contentType |-> Text(3),
     httpExtension |-> Sub(4)]

InvokeResponse == [data |-> Sub(1), contentType |-> Text(2)]

StateItem ==
    [key |-> Text(1), value |-> Text(2), etag |-> Sub(3), metadataMap |-> MapField(4),
     options |-> Sub(5)]

Etag == [value |-> Text(1)]

StateOptions == [concurrency |-> Enum(1), consistency |-> Enum(2)]

ConfigurationItem ==
    [key |-> Text(1), value |-> Text(2), version |-> Text(3),
     metadataMap |-> MapField(4)]

-----------------------------------------------------------------------------
(* Requests and responses of the sidecar (dapr_pb.js).                     *)

InvokeServiceRequest == [id |-> Text(1), message |-> Sub(3)]

GetStateRequest ==
    [storeName |-> Text(1), key |-> Text(2), consistency |-> Enum(3),
     metadataMap |-> MapField(4)]

GetBulkStateRequest ==
    [storeName |-> Text(1), keysList |-> Repeated(2), parallelism |-> Int32(3),
     metadataMap |-> MapField(4)]

GetBulkStateResponse == [itemsList |-> Repeated(1)]

BulkStateItem ==
    [key |-> Text(1), data |-> Text(2), etag |-> Text(3), error |-> Text(4),
     metadataMap |-> MapField(5)]

GetStateResponse == [data |-> Text(1), etag |-> Text(2), metadataMap |-> MapField(3)]

DeleteStateRequest ==
    [storeName |-> Text(1), key |-> Text(2), etag |-> Sub(3), options |-> Sub(4),
     metadataMap |-> MapField(5)]

DeleteBulkStateRequest == [storeName |-> Text(1), statesList |-> Repeated(2)]

SaveStateRequest == [storeName |-> Text(1), statesList |-> Repeated(2)]

QueryStateRequest == [storeName |-> Text(1), query |-> Text(2), metadataMap |-> MapField(3)]

QueryStateItem == [key |-> Text(1), data |-> Text(2), etag |-> Text(3), error |-> Text(4)]

QueryStateResponse ==
    [resultsList |-> Repeated(1), token |-> Text(2), metadataMap |-> MapField(3)]

PublishEventRequest ==
    [pubsubName |-> Text(1), topic |-> Text(2), data |-> Text(3),
     dataContentType |-> Text(4), metadataMap |-> MapField(5)]

InvokeBindingRequest ==
    [name |-> Text(1), data |-> Text(2), metadataMap |-> MapField(3),
     operation |-> Text(4)]

InvokeBindingResponse == [data |-> Text(1), metadataMap |-> MapField(2)]

GetSecretRequest == [storeName |-> Text(1), key |-> Text(2), metadataMap |-> MapField(3)]

GetSecretResponse == [dataMap |-> MapField(1)]

GetBulkSecretRequest == [storeName |-> Text(1), metadataMap |-> MapField(2)]

SecretResponse == [secretsMap |-> MapField(1)]

GetBulkSecretResponse == [dataMap |-> MapField(1)]

TransactionalStateOperation == [operationtype |-> Text(1), request |-> Sub(2)]

ExecuteStateTransactionRequest ==
    [storename |-> Text(1), operationsList |-> Repeated(2), metadataMap |-> MapField(3)]

RegisterActorTimerRequest ==
    [actorType |-> Text(1), actorId |-> Text(2), name |-> Text(3), dueTime |-> Text(4),
     period |-> Text(5), callback |-> Text(6), data |-> Text(7), ttl |-> Text(8)]

UnregisterActorTimerRequest ==
    [actorType |-> Text(1), actorId |-> Text(2), name |-> Text(3)]

RegisterActorReminderRequest ==
    [actorType |-> Text(1), actorId |-> Text(2), name |-> Text(3), dueTime |-> Text(4),
     period |-> Text(5), data |-> Text(6), ttl |-> Text(7)]

UnregisterActorReminderRequest ==
    [actorType |-> Text(1), actorId |-> Text(2), name |-> Text(3)]

RenameActorReminderRequest ==
    [actorType |-> Text(1), actorId |-> Text(2), oldName |-> Text(3),
     newName |-> Text(4)]

GetActorStateRequest == [actorType |-> Text(1), actorId |-> Text(2), key |-> Text(3)]

GetActorStateResponse == [data |-> Text(1)]

ExecuteActorStateTransactionRequest ==
    [actorType |-> Text(1), actorId |-> Text(2), operationsList |-> Repeated(3)]

TransactionalActorStateOperation ==
    [operationtype |-> Text(1), key |-> Text(2), value |-> Sub(3)]

InvokeActorRequest ==
    [actorType |-> Text(1), actorId |-> Text(2), method |-> Text(3), data |-> Text(4)]

InvokeActorResponse == [data |-> Text(1)]

GetMetadataResponse ==
    [id |-> Text(1), activeActorsCountList |-> Repeated(2),
     registeredComponentsList |-> Repeated(3), extendedMetadataMap |-> MapField(4)]

ActiveActorsCount == [type |-> Text(1), count |-> Int32(2)]

RegisteredComponents == [name |-> Text(1), type |-> Text(2), version |-> Text(3)]

SetMetadataRequest == [key |-> Text(1), value |-> Text(2)]

GetConfigurationRequest ==
    [storeName |-> Text(1), keysList |-> Repeated(2), metadataMap |-> MapField(3)]

GetConfigurationResponse == [itemsList |-> Repeated(1)]

SubscribeConfigurationRequest ==
    [storeName |-> Text(1), keysList |-> Repeated(2), metadataMap |-> MapField(3)]

UnsubscribeConfigurationRequest == [storeName |-> Text(1), id |-> Text(2)]

SubscribeConfigurationResponse == [id |-> Text(1), itemsList |-> Repeated(2)]

UnsubscribeConfigurationResponse == [ok |-> Bool(1), message |-> Text(2)]

-----------------------------------------------------------------------------
(* Requests and responses of the application (appcallback_pb.js).          *)

TopicEventRequest ==
    [id |-> Text(1), source |-> Text(2), type |-> Text(3), specVersion |-> Text(4),
     dataContentType |-> Text(5), data |-> Text(7), topic |-> Text(6),
     pubsubName |-> Text(8), path |-> Text(9)]

TopicEventResponse == [status |-> Enum(1)]

BindingEventRequest == [name |-> Text(1), data |-> Text(2), metadataMap |-> MapField(3)]

BindingEventResponse ==
    [storeName |-> Text(1), statesList |-> Repeated(2), toList |-> Repeated(3),
     data |-> Text(4), concurrency |-> Enum(5)]

ListTopicSubscriptionsResponse == [subscriptionsList |-> Repeated(1)]

TopicSubscription ==
    [pubsubName |-> Text(1), topic |-> Text(2), metadataMap |-> MapField(3),
     routes |-> Sub(5)]

TopicRoutes == [rulesList |-> Repeated(1), default |-> Text(2)]

TopicRule == [match |-> Text(1), path |-> Text(2)]

ListInputBindingsResponse == [bindingsList |-> Repeated(1)]

-----------------------------------------------------------------------------
(* External: the messages of google.protobuf the services use.             *)

AnyMessage == [typeUrl |-> Text(1), value |-> Text(2)]

Empty == [f \in {} |-> Text(0)]

-----------------------------------------------------------------------------
(* The services: what a method sends and what it answers.                  *)

Rpc(request, response) == [request |-> request, response |-> response]

StateRpcs ==
    [getState |-> Rpc(GetStateRequest, GetStateResponse),
     getBulkState |-> Rpc(GetBulkStateRequest, GetBulkStateResponse),
     saveState |-> Rpc(SaveStateRequest, Empty),
     queryStateAlpha1 |-> Rpc(QueryStateRequest, QueryStateResponse),
     deleteState |-> Rpc(DeleteStateRequest, Empty),
     deleteBulkState |-> Rpc(DeleteBulkStateRequest, Empty),
     executeStateTransaction |-> Rpc(ExecuteStateTransactionRequest, Empty)]

BlockRpcs ==
    [publishEvent |-> Rpc(PublishEventRequest, Empty),
     invokeBinding |-> Rpc(InvokeBindingRequest, InvokeBindingResponse),
     getSecret |-> Rpc(GetSecretRequest, GetSecretResponse),
     getBulkSecret |-> Rpc(GetBulkSecretRequest, GetBulkSecretResponse)]

ActorRpcs ==
    [registerActorTimer |-> Rpc(RegisterActorTimerRequest, Empty),
     unregisterActorTimer |-> Rpc(UnregisterActorTimerRequest, Empty),
     registerActorReminder |-> Rpc(RegisterActorReminderRequest, Empty),
     unregisterActorReminder |-> Rpc(UnregisterActorReminderRequest, Empty),
     renameActorReminder |-> Rpc(RenameActorReminderRequest, Empty),
     getActorState |-> Rpc(GetActorStateRequest, GetActorStateResponse),
     executeActorStateTransaction |-> Rpc(ExecuteActorStateTransactionRequest, Empty),
     invokeActor |-> Rpc(InvokeActorRequest, InvokeActorResponse)]

ConfigurationRpcs ==
    [getConfigurationAlpha1 |-> Rpc(GetConfigurationRequest, GetConfigurationResponse),
     subscribeConfigurationAlpha1 |-> Rpc(SubscribeConfigurationRequest, SubscribeConfigurationResponse),
     unsubscribeConfigurationAlpha1 |-> Rpc(UnsubscribeConfigurationRequest, UnsubscribeConfigurationResponse)]

SidecarRpcs ==
    [getMetadata |-> Rpc(Empty, GetMetadataResponse),
     setMetadata |-> Rpc(SetMetadataRequest, Empty),
     shutdown |-> Rpc(Empty, Empty)]

InvokeRpcs ==
    [invokeService |-> Rpc(InvokeServiceRequest, InvokeResponse)]

AppCallback ==
    [onInvoke |-> Rpc(InvokeRequest, InvokeResponse),
     listTopicSubscriptions |-> Rpc(Empty, ListTopicSubscriptionsResponse),
     onTopicEvent |-> Rpc(TopicEventRequest, TopicEventResponse),
     listInputBindings |-> Rpc(Empty, ListInputBindingsResponse),
     onBindingEvent |-> Rpc(BindingEventRequest, BindingEventResponse)]

DaprService ==
    Overlay(InvokeRpcs, Overlay(StateRpcs, Overlay(BlockRpcs,
        Overlay(ActorRpcs, Overlay(ConfigurationRpcs, SidecarRpcs)))))

AllSchemas ==
    {InvokeServiceRequest, GetStateRequest, GetBulkStateRequest,
     GetBulkStateResponse, BulkStateItem, GetStateResponse, DeleteStateRequest,
     DeleteBulkStateRequest, SaveStateRequest, QueryStateRequest, QueryStateItem,
     QueryStateResponse, PublishEventRequest, InvokeBindingRequest,
     InvokeBindingResponse, GetSecretRequest, GetSecretResponse,
     GetBulkSecretRequest, SecretResponse, GetBulkSecretResponse,
     TransactionalStateOperation, ExecuteStateTransactionRequest,
     RegisterActorTimerRequest, UnregisterActorTimerRequest,
     RegisterActorReminderRequest, UnregisterActorReminderRequest,
     RenameActorReminderRequest, GetActorStateRequest, GetActorStateResponse,
     ExecuteActorStateTransactionRequest, TransactionalActorStateOperation,
     InvokeActorRequest, InvokeActorResponse, GetMetadataResponse, ActiveActorsCount,
     RegisteredComponents, SetMetadataRequest, GetConfigurationRequest,
     GetConfigurationResponse, SubscribeConfigurationRequest,
     UnsubscribeConfigurationRequest, SubscribeConfigurationResponse,
     UnsubscribeConfigurationResponse, HTTPExtension, InvokeRequest, InvokeResponse,
     StateItem, Etag, StateOptions, ConfigurationItem, TopicEventRequest,
     TopicEventResponse, BindingEventRequest, BindingEventResponse,
     ListTopicSubscriptionsResponse, TopicSubscription, TopicRoutes, TopicRule,
     ListInputBindingsResponse, AnyMessage, Empty}

ASSUME FieldNumbers == \A schema \in AllSchemas : WellFormed(schema)
=============================================================================
