----------------------------- MODULE PubSubProps ------------------------------
(***************************************************************************)
(* What lesson 3 promises, over the state of PubSub.                       *)
(***************************************************************************)
EXTENDS PubSub

\* Type invariant of the publisher, the server and the subscribers.
PubSubTypeOK ==
  /\ published \in Seq(AppEventEnvelope)
  /\ outbox \in Seq(1 .. Len(published))
  /\ response \in [Posts -> PublishResponse]
  /\ publishing \in BOOLEAN /\ natsUp \in BOOLEAN
  /\ inbox \in [Subscribers -> Seq(1 .. Len(published))]
  /\ subscribed \in [Subscribers -> BOOLEAN]
  /\ since \in [Subscribers -> 0 .. Len(published)]
  /\ received \in [Subscribers -> Seq(1 .. Len(published))]
  /\ disruptions \in 0 .. MaxDisruptions /\ leaves \in 0 .. MaxLeaves

\* The subject implements at-most-once delivery in order to each subscriber,
\* whoever stops in the middle of it (publish, and handle of the subscribers).
Subject == INSTANCE FanOut WITH Envelope <- AppEventEnvelope
ImplementsFanOut == Subject!Spec

Members(seq) == {seq[i] : i \in DOMAIN seq}

\* While neither the server nor the publisher stops, every message published
\* since a subscriber has subscribed is handled by it, or on its way to it: it
\* shares none with the others, and their stops take none from it ("broadcasts
\* event to all subscribers", publisher-service/src/app.service.ts:49).
SubscribersMissNothing ==
  disruptions = 0 =>
    \A s \in Subscribers : subscribed[s] =>
      since[s] + 1 .. Len(published)
        \subseteq Members(received[s]) \cup Members(inbox[s]) \cup Members(outbox)
=============================================================================
