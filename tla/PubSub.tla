-------------------------------- MODULE PubSub --------------------------------
(***************************************************************************)
(* Lesson 3, 3-publish-subscribe-pattern (TypeScript): a publisher emits   *)
(* envelopes on the NATS subject app.events; an audit, an analytics and a  *)
(* notification service subscribe to it, each for itself.                  *)
(*                                                                         *)
(* NATS core stores nothing.  emit resolves once the client has the        *)
(* message in its own buffer, so "Event Published" is answered before the  *)
(* server has it, and with nobody subscribed.  A message that reaches the  *)
(* server goes to whoever is subscribed then; what is on its way to a      *)
(* process that stops, or through a server that stops, is gone.            *)
(***************************************************************************)
EXTENDS Integers, Sequences

CONSTANTS
  Posts,            \* the requests POST /publish, each sent once
  BodyType,         \* the type in the body of each, or NoType
  NoType,           \* any type that is no string, or none
  MaxDisruptions,   \* bound of the model: stops of the server or the publisher
  MaxLeaves         \* bound of the model: how often a subscriber stops

ASSUME PubSubAssumption ==
  DOMAIN BodyType = Posts /\ MaxDisruptions \in Nat /\ MaxLeaves \in Nat

VARIABLES
  published,    \* history: the envelopes emitted, in order
  outbox,       \* publisher: the ones that its NATS client has not sent
  response,     \* publisher: the answer to each request
  publishing,   \* whether the publisher is running
  natsUp,       \* whether the server is
  inbox,        \* what is on its way to each subscriber
  subscribed,   \* whether the server knows the subscriber
  since,        \* history: how much was published when it last subscribed
  received,     \* history: the messages each has handled
  disruptions, leaves

publisherVars == <<published, outbox, response, publishing>>
subscriberVars == <<inbox, subscribed, since, received>>
pubSubVars == <<publisherVars, natsUp, subscriberVars, disruptions, leaves>>

Subscribers == {"audit", "analytics", "notification"}

\* PublishRequestBody's type is optional and anything; the envelope's is a string.
TypeNames == ({BodyType[r] : r \in Posts} \ {NoType}) \cup {"unknown"}
AppEventEnvelope == [post : Posts, type : TypeNames]
PublishResponse == {"none", "Event Published", "error"}

PubSubInit ==
  /\ published = <<>> /\ outbox = <<>>
  /\ response = [r \in Posts |-> "none"]
  /\ publishing = FALSE /\ natsUp = TRUE
  /\ inbox = [s \in Subscribers |-> <<>>]
  /\ subscribed = [s \in Subscribers |-> FALSE]
  /\ since = [s \in Subscribers |-> 0]
  /\ received = [s \in Subscribers |-> <<>>]
  /\ disruptions = 0 /\ leaves = 0

-----------------------------------------------------------------------------
(* The publisher.                                                          *)

\* onModuleInit awaits the connection.
PublisherBootstrap ==
  /\ ~ publishing /\ natsUp
  /\ publishing' = TRUE
  /\ UNCHANGED <<published, outbox, response, natsUp, subscriberVars, disruptions, leaves>>

EnvelopeOf(r) ==
  [post |-> r, type |-> IF BodyType[r] = NoType THEN "unknown" ELSE BodyType[r]]

\* POST /publish.  Without a server the client buffers, or has given up
\* reconnecting and throws.
Publish(r) ==
  /\ publishing
  /\ response[r] = "none"
  /\ \/ /\ published' = Append(published, EnvelopeOf(r))
        /\ outbox' = Append(outbox, Len(published) + 1)
        /\ response' = [response EXCEPT ![r] = "Event Published"]
     \/ /\ ~ natsUp
        /\ response' = [response EXCEPT ![r] = "error"]
        /\ UNCHANGED <<published, outbox>>
  /\ UNCHANGED <<publishing, natsUp, subscriberVars, disruptions, leaves>>

PublisherController(r) == Publish(r)

Disrupted == disruptions < MaxDisruptions /\ disruptions' = disruptions + 1

PublisherStops ==
  /\ publishing /\ Disrupted
  /\ publishing' = FALSE /\ outbox' = <<>>
  /\ UNCHANGED <<published, response, natsUp, subscriberVars, leaves>>

-----------------------------------------------------------------------------
(* The NATS server.                                                        *)

Sent == natsUp /\ outbox # <<>> /\ outbox' = Tail(outbox)

\* Faulty: the subscribers share the messages, as members of one queue group.
DeliverToOne ==
  /\ Sent
  /\ \E s \in Subscribers :
       /\ subscribed[s]
       /\ inbox' = [inbox EXCEPT ![s] = Append(@, Head(outbox))]
  /\ UNCHANGED <<published, response, publishing, natsUp, subscribed, since, received,
                 disruptions, leaves>>

\* The oldest message goes to everyone who is subscribed.
Deliver ==
  /\ Sent
  /\ inbox' = [s \in Subscribers |->
                 IF subscribed[s] THEN Append(inbox[s], Head(outbox)) ELSE inbox[s]]
  /\ UNCHANGED <<published, response, publishing, natsUp, subscribed, since, received,
                 disruptions, leaves>>

NatsStops ==
  /\ natsUp /\ Disrupted
  /\ natsUp' = FALSE
  /\ inbox' = [s \in Subscribers |-> <<>>]
  /\ subscribed' = [s \in Subscribers |-> FALSE]
  /\ outbox' \in {outbox, <<>>}
  /\ UNCHANGED <<published, response, publishing, since, received, leaves>>

NatsStarts ==
  /\ ~ natsUp
  /\ natsUp' = TRUE
  /\ UNCHANGED <<publisherVars, subscriberVars, disruptions, leaves>>

-----------------------------------------------------------------------------
(* The subscribers.                                                        *)

\* A subscriber starts, or its client has found the server again.
Subscribe(s) ==
  /\ natsUp /\ ~ subscribed[s]
  /\ subscribed' = [subscribed EXCEPT ![s] = TRUE]
  /\ since' = [since EXCEPT ![s] = Len(published) - Len(outbox)]
  /\ UNCHANGED <<publisherVars, natsUp, inbox, received, disruptions, leaves>>

AuditBootstrap == Subscribe("audit")
AnalyticsBootstrap == Subscribe("analytics")
PushBootstrap == Subscribe("notification")

\* The processEvent of each logs the type of the event: history here.
SaveToAuditLog(event) == Append(received["audit"], event)
UpdateMetrics(event) == Append(received["analytics"], event)
SendPush(event) == Append(received["notification"], event)

NextMessage(s) == Head(inbox[s])

\* Faulty: the message may be handled again.
HandleAndKeep(s, done) ==
  /\ inbox[s] # <<>>
  /\ received' = [received EXCEPT ![s] = done]
  /\ inbox' \in {inbox, [inbox EXCEPT ![s] = Tail(@)]}
  /\ UNCHANGED <<publisherVars, natsUp, subscribed, since, disruptions, leaves>>

\* handle passes the envelope on.
Handle(s, done) ==
  /\ inbox[s] # <<>>
  /\ received' = [received EXCEPT ![s] = done]
  /\ inbox' = [inbox EXCEPT ![s] = Tail(@)]
  /\ UNCHANGED <<publisherVars, natsUp, subscribed, since, disruptions, leaves>>

AuditController == Handle("audit", SaveToAuditLog(NextMessage("audit")))
AnalyticsController == Handle("analytics", UpdateMetrics(NextMessage("analytics")))
PushController == Handle("notification", SendPush(NextMessage("notification")))

SubscriberStops(s) ==
  /\ subscribed[s]
  /\ leaves < MaxLeaves /\ leaves' = leaves + 1
  /\ subscribed' = [subscribed EXCEPT ![s] = FALSE]
  /\ inbox' = [inbox EXCEPT ![s] = <<>>]
  /\ UNCHANGED <<publisherVars, natsUp, since, received, disruptions>>

AllPublished ==
  /\ \A r \in Posts : response[r] # "none"
  /\ outbox = <<>> /\ \A s \in Subscribers : inbox[s] = <<>>
  /\ UNCHANGED pubSubVars

PubSubNext ==
  \/ \E r \in Posts : PublisherController(r)
  \/ PublisherBootstrap \/ PublisherStops
  \/ Deliver \/ NatsStops \/ NatsStarts
  \/ AuditBootstrap \/ AnalyticsBootstrap \/ PushBootstrap
  \/ AuditController \/ AnalyticsController \/ PushController
  \/ \E s \in Subscribers : SubscriberStops(s)
  \/ AllPublished

PubSubSpec == PubSubInit /\ [][PubSubNext]_pubSubVars
=============================================================================
