--------------------------- MODULE EventDrivenProps ---------------------------
(***************************************************************************)
(* What lesson 2 promises, over the state of EventDriven.                  *)
(***************************************************************************)
EXTENDS EventDriven

\* Type invariant of the order service, the topic and the consumer groups.
EventsTypeOK ==
  /\ ordered \subseteq placed /\ placed \subseteq PlacedOrder
  /\ underWay \subseteq placed
  /\ orderEvents \in Seq(placed)
  /\ groups \in [Groups -> Group]
  /\ losses \in 0 .. MaxLosses

HandledBy(g) == {groups[g].handled[i] : i \in DOMAIN groups[g].handled}

\* A group has handled every event that was appended since it first started, up
\* to where it is, unless it stopped before it had committed an offset at all:
\* then it started again at the end of the topic, and only what is older than that
\* start may be missing.  Once it has committed, no stop makes it skip an event,
\* and as long as nothing is lost it has handled the events once each and in their
\* order, whatever happens to the other group, and although two orders may have
\* the same random id (createOrder, handleOrderCreated, bootstrap of both
\* consumers: no fromBeginning).
GroupsSkipNothing ==
  \A g \in Groups :
    LET self == groups[g]
    IN  /\ \A i \in self.first + 1 .. self.position :
             orderEvents[i] \in HandledBy(g) \/ (self.forgot /\ i <= self.since)
        /\ losses = 0 =>
             self.handled = SubSeq(orderEvents, self.first + 1, self.position)

\* Every order that was answered is handled by both groups in the end.  The three
\* exceptions: its event was lost on the way to the topic; or it was there before
\* the group first started; or the group stopped before it had committed anything
\* and the event was there when it last started again.  A group that has
\* committed loses no event of the topic, however often the producer repeats
\* itself and the consumers stop (createOrder and the two handleOrderCreated).
EveryOrderIsHandled ==
  \A p \in Purchases : \A id \in RandomIds : \A g \in Groups :
    LET order == [id |-> id, purchase |-> p]
    IN  order \in placed ~>
          \/ order \in HandledBy(g)
          \/ /\ losses # 0 /\ order \notin underWay
             /\ \A i \in DOMAIN orderEvents : orderEvents[i] # order
          \/ \E i \in 1 .. groups[g].first : orderEvents[i] = order
          \/ groups[g].forgot /\ \E i \in 1 .. groups[g].since : orderEvents[i] = order
=============================================================================
