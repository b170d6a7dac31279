----------------------------- MODULE EventDriven ------------------------------
(***************************************************************************)
(* Lesson 2, 2-asynchronous-event-driven (TypeScript): the order service   *)
(* keeps an order in memory, emits an event to Kafka without awaiting it   *)
(* and answers; an inventory and a notification service, each a consumer   *)
(* group of its own, handle the events.                                    *)
(*                                                                         *)
(* The topic is a sequence that only grows (one partition).  Several       *)
(* emits are under way at once, so events may be appended in another order *)
(* than their orders; the producer sends again when no acknowledgement     *)
(* came, and at last gives up, which nobody observes.  A group subscribes  *)
(* without fromBeginning: until it has committed an offset it starts at    *)
(* the end of the topic.                                                   *)
(***************************************************************************)
EXTENDS Integers, Sequences

CONSTANTS
  Purchases,      \* the requests to create an order, each sent once
  RandomIds,      \* the ids that Math.random may give, 0 .. 99999
  MaxLosses       \* bound of the model: lost acknowledgements and stops

ASSUME EventDrivenAssumption == RandomIds # {} /\ MaxLosses \in Nat

VARIABLES
  ordered,    \* order service: the orders in memory
  placed,     \* history: every order that was answered
  underWay,   \* its Kafka client: the events not acknowledged
  orderEvents,\* the topic
  groups,     \* the two consumer groups
  losses      \* how many acknowledgements and processes were lost

eventVars == <<ordered, placed, underWay, orderEvents, groups, losses>>

Groups == {"inventory", "notification"}
Never == -1

\* Two orders may get one id; the rest of an order tells it from the other.
PlacedOrder == [id : RandomIds, purchase : Purchases]

\* joined: whether the consumer runs; position: the messages it has handled or
\* is behind of; handled: history of what it did, in order; first, since: history
\* of where it started first and last when nothing was committed; forgot: history,
\* whether it ever stopped before it had committed anything.
Group == [joined : BOOLEAN, position : Nat, committed : Nat \cup {Never},
          first : Nat, since : Nat, forgot : BOOLEAN, handled : Seq(PlacedOrder)]
NewGroup == [joined |-> FALSE, position |-> 0, committed |-> Never,
             first |-> 0, since |-> 0, forgot |-> FALSE, handled |-> <<>>]

EventsInit ==
  /\ ordered = {} /\ placed = {} /\ underWay = {}
  /\ orderEvents = <<>>
  /\ groups = [g \in Groups |-> NewGroup]
  /\ losses = 0

-----------------------------------------------------------------------------
(* The order service.                                                      *)

\* Faulty: an id that is in use is answered without an event.
PlaceOnceById(p) ==
  /\ \A o \in placed : o.purchase # p
  /\ \E id \in RandomIds :
       LET order == [id |-> id, purchase |-> p]
       IN  /\ underWay' = IF \E o \in ordered : o.id = id THEN underWay
                          ELSE underWay \cup {order}
           /\ ordered' = ordered \cup {order} /\ placed' = placed \cup {order}
  /\ UNCHANGED <<orderEvents, groups, losses>>

\* The order is kept, its event is emitted, the client is answered.
PlaceOrder(p) ==
  /\ \A o \in placed : o.purchase # p
  /\ \E id \in RandomIds :
       LET order == [id |-> id, purchase |-> p]
       IN  /\ ordered' = ordered \cup {order}
           /\ underWay' = underWay \cup {order}
           /\ placed' = placed \cup {order}
  /\ UNCHANGED <<orderEvents, groups, losses>>

OrderAppController(p) == PlaceOrder(p)

\* The broker appends the event; unless its acknowledgement is lost, that ends
\* the emit.
KafkaAppend ==
  /\ \E e \in underWay :
       /\ orderEvents' = Append(orderEvents, e)
       /\ \/ underWay' = underWay \ {e} /\ UNCHANGED losses
          \/ losses < MaxLosses /\ losses' = losses + 1 /\ UNCHANGED underWay
  /\ UNCHANGED <<ordered, placed, groups>>

\* The retries are over, or the order service stops and forgets its orders.
GiveUp ==
  /\ losses < MaxLosses /\ losses' = losses + 1
  /\ \E e \in underWay : underWay' = underWay \ {e}
  /\ UNCHANGED <<ordered, placed, orderEvents, groups>>
OrderAppBootstrap ==
  /\ losses < MaxLosses /\ losses' = losses + 1
  /\ ordered' = {} /\ underWay' = {}
  /\ UNCHANGED <<placed, orderEvents, groups>>

-----------------------------------------------------------------------------
(* The consumers.                                                          *)

\* Faulty: the committed offset is not asked for, every start is at the end.
JoinAtTheEnd(g) ==
  LET self == groups[g]  end == Len(orderEvents)
  IN  /\ ~ self.joined
      /\ groups' = [groups EXCEPT ![g].joined = TRUE, ![g].position = end, ![g].since = end,
           ![g].first = IF self.committed = Never /\ ~ self.forgot THEN end ELSE @]
      /\ UNCHANGED <<ordered, placed, underWay, orderEvents, losses>>

\* Without a committed offset a group starts at the end of the topic, also when it
\* ran before: what it had not handled by then it does not come back to.
JoinGroup(g) ==
  LET self == groups[g]  end == Len(orderEvents)
  IN  /\ ~ self.joined
      /\ groups' = [groups EXCEPT ![g] =
                      IF self.committed # Never
                      THEN [self EXCEPT !.joined = TRUE, !.position = self.committed]
                      ELSE [self EXCEPT !.joined = TRUE, !.position = end, !.since = end,
                                        !.first = IF self.forgot THEN @ ELSE end]]
      /\ UNCHANGED <<ordered, placed, underWay, orderEvents, losses>>

InventoryAppBootstrap == JoinGroup("inventory")
NotificationAppBootstrap == JoinGroup("notification")

NextEvent(g) == orderEvents[groups[g].position + 1]

\* Both services only log the order: their work is history here.
UpdateStock(event) == Append(groups["inventory"].handled, event)
SendNotification(event) == Append(groups["notification"].handled, event)

\* The handler takes the next message, and its offset is committed sooner or
\* later: a batch may end with it.
HandleOrderCreated(g, done) ==
  LET self == groups[g]
  IN  /\ self.joined /\ self.position < Len(orderEvents)
      /\ \E committed \in {self.committed, self.position + 1} :
           groups' = [groups EXCEPT ![g].position = @ + 1,
                        ![g].committed = committed, ![g].handled = done]
      /\ UNCHANGED <<ordered, placed, underWay, orderEvents, losses>>

InventoryAppController == HandleOrderCreated("inventory", UpdateStock(NextEvent("inventory")))
NotificationAppController ==
  HandleOrderCreated("notification", SendNotification(NextEvent("notification")))

GroupStops(g) ==
  /\ groups[g].joined
  /\ losses < MaxLosses /\ losses' = losses + 1
  /\ groups' = [groups EXCEPT ![g].joined = FALSE,
                              ![g].forgot = @ \/ groups[g].committed = Never]
  /\ UNCHANGED <<ordered, placed, underWay, orderEvents>>

\* Every order has been placed, and all is handled.
EventsQuiet ==
  /\ \A p \in Purchases : \E o \in placed : o.purchase = p
  /\ underWay = {}
  /\ \A g \in Groups : groups[g].joined /\ groups[g].position = Len(orderEvents)

EventsNext ==
  \/ \E p \in Purchases : OrderAppController(p)
  \/ KafkaAppend \/ GiveUp \/ OrderAppBootstrap
  \/ InventoryAppBootstrap \/ NotificationAppBootstrap
  \/ InventoryAppController \/ NotificationAppController
  \/ \E g \in Groups : GroupStops(g)
  \/ EventsQuiet /\ UNCHANGED eventVars

\* The producer goes on sending; a consumer polls for ever and is restarted.
EventsFairness ==
  /\ WF_eventVars(KafkaAppend)
  /\ WF_eventVars(InventoryAppBootstrap) /\ WF_eventVars(NotificationAppBootstrap)
  /\ WF_eventVars(InventoryAppController) /\ WF_eventVars(NotificationAppController)

EventsSpec == EventsInit /\ [][EventsNext]_eventVars /\ EventsFairness
=============================================================================
