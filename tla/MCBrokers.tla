------------------------------ MODULE MCBrokers ------------------------------
(***************************************************************************)
(* TLC instances of lessons 2, 3 and 4, whose services meet at a broker    *)
(* only and know nothing of each other's: a behaviour is one of the lesson *)
(* that it starts.                                                         *)
(***************************************************************************)
EXTENDS EventDrivenProps, PubSubProps, DatabasePerServiceProps

VARIABLE lesson

CONSTANTS r1, r2, pears, apples, moreApples

\* A type that is a string, and one that is not there.
SomeTypes == [r \in Posts |-> IF r = r1 THEN "created" ELSE NoType]

\* Two documents have the same name.
SharedName == [d \in Docs |-> IF d = pears THEN "pear" ELSE "apple"]

\* Enough for one large order or two small ones.
Stock2 == [d \in Docs |-> 2]

\* The boundaries of quantity > 0, and more than the stock.
Boundary == {-1, 0, 1, 2, 3}

AnyInit ==
  /\ lesson \in {"event-driven", "publish-subscribe", "database-per-service"}
  /\ EventsInit /\ PubSubInit /\ Init

AnyNext ==
  /\ UNCHANGED lesson
  /\ \/ lesson = "event-driven" /\ EventsNext /\ UNCHANGED <<pubSubVars, vars>>
     \/ lesson = "publish-subscribe" /\ PubSubNext /\ UNCHANGED <<eventVars, vars>>
     \/ lesson = "database-per-service" /\ Next /\ UNCHANGED <<eventVars, pubSubVars>>

\* EventsFairness and Fairness, each in its own lesson: the
\* services of another lesson never start.
AnyFairness ==
  /\ WF_eventVars(lesson = "event-driven" /\ KafkaAppend)
  /\ WF_eventVars(lesson = "event-driven" /\ InventoryAppBootstrap)
  /\ WF_eventVars(lesson = "event-driven" /\ NotificationAppBootstrap)
  /\ WF_eventVars(lesson = "event-driven" /\ InventoryAppController)
  /\ WF_eventVars(lesson = "event-driven" /\ NotificationAppController)
  /\ WF_vars(lesson = "database-per-service" /\ EmitOrder)
  /\ WF_vars(lesson = "database-per-service" /\ InventoryBootstrap)
  /\ WF_vars(lesson = "database-per-service" /\ OrderEventsController)

AnySpec ==
  AnyInit /\ [][AnyNext]_<<lesson, eventVars, pubSubVars, vars>> /\ AnyFairness
=============================================================================
