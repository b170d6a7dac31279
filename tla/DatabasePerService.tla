------------------------- MODULE DatabasePerService --------------------------
(***************************************************************************)
(* Lesson 4, 4-database-per-service (TypeScript): the order service writes *)
(* its Postgres table and emits an event; the inventory service reads the  *)
(* events from a Kafka topic and takes the goods from its Mongo collection.*)
(*                                                                         *)
(* The topic is a sequence that only grows (one partition); the producer   *)
(* is not idempotent and may append an event twice.  The consumer handles  *)
(* one message at a time.  Its group commits an offset at the end of a     *)
(* batch, so at the end of some messages only; it subscribes without       *)
(* fromBeginning, so that as long as it has committed nothing it starts at *)
(* the end of the topic.                                                   *)
(***************************************************************************)
EXTENDS Integers, Sequences

CONSTANTS
  Orders,        \* the ids the orders table may generate
  Names,         \* product names that requests use
  Quantities,    \* quantities that requests ask for; nothing is validated
  Null,          \* an optional field that the request does not have
  Docs,          \* the documents of the products collection
  NameOf,        \* the name of each; two may have the same
  InitialStock,  \* the stock each is created with
  Listed,        \* the documents created before the model starts
  NoDoc,         \* the stock of a document that is not created yet
  MaxFailures    \* bound of the model: failed requests and handlers, crashes,
                 \* acknowledgements of the broker that are lost

ASSUME DatabaseAssumption ==
  /\ Orders # {} /\ Docs # {}
  /\ Quantities \subseteq Int /\ Null \notin Names
  /\ NameOf \in [Docs -> Names]
  /\ InitialStock \in [Docs -> Int] /\ NoDoc \notin Int
  /\ Listed \subseteq Docs
  /\ MaxFailures \in Nat

VARIABLES
  orders,     \* order service: the orders table
  emitting,   \* order service: orders saved, event not yet emitted
  topic,      \* order-events
  stock,      \* inventory service: the products collection
  handler,    \* inventory service: what its consumer is doing
  position,   \* how many messages it has handled or skipped
  committed,  \* the offset it has committed, or NoOffset
  failures    \* how many failures there have been

orderVars == <<orders, emitting>>
consumerVars == <<handler, position, committed>>
vars == <<orderVars, topic, stock, consumerVars, failures>>

NoOffset == -1
OrderEvent == [order : Orders, productName : Names \cup {Null},
               quantity : Quantities \cup {Null}]
\* The document found, and its stock after the subtraction, in memory.
Handler == [pc : {"off", "idle", "find", "save", "saved"}, doc : Docs, left : Int]
Handling(pc) == [pc |-> pc, doc |-> CHOOSE d \in Docs : TRUE, left |-> 0]

Init ==
  /\ orders = {}
  /\ emitting = {}
  /\ topic = <<>>
  /\ stock = [d \in Docs |-> IF d \in Listed THEN InitialStock[d] ELSE NoDoc]
  /\ handler = Handling("idle")
  /\ position = 0
  /\ committed = NoOffset
  /\ failures = 0

-----------------------------------------------------------------------------
(* OrdersService.create                                                    *)

\* The row has neither the product nor the quantity: the event alone does.
CreateOrder ==
  /\ \E event \in OrderEvent :
       /\ event.order \notin orders
       /\ orders' = orders \cup {event.order}
       /\ emitting' = emitting \cup {event}
  /\ UNCHANGED <<topic, stock, consumerVars, failures>>

EmitOrder ==
  /\ \E event \in emitting :
       /\ topic' = Append(topic, event)
       /\ emitting' = emitting \ {event}
  /\ UNCHANGED <<orders, stock, consumerVars, failures>>

-----------------------------------------------------------------------------
(* InventoryService and OrderEventsController                              *)

\* POST /inventory; a name may be created twice.
CreateProduct(d) ==
  /\ stock[d] = NoDoc
  /\ stock' = [stock EXCEPT ![d] = InitialStock[d]]
  /\ UNCHANGED <<orderVars, topic, consumerVars, failures>>

\* The service starts again: bootstrap connects the consumer.
InventoryBootstrap ==
  /\ handler.pc = "off"
  /\ handler' = Handling("idle")
  /\ position' = IF committed = NoOffset THEN Len(topic) ELSE committed
  /\ UNCHANGED <<orderVars, topic, stock, committed, failures>>

Event == topic[position + 1]

\* The end of a handler, which may be the end of a batch.
Return ==
  /\ handler' = Handling("idle")
  /\ position' = position + 1
  /\ committed' \in {committed, position + 1}

\* Faulty: takes goods for a quantity below zero.
WantedAny(event) == event.productName # Null /\ event.quantity # Null

\* A quantity of zero or below is skipped, as one that is missing.
Wanted(event) ==
  /\ event.productName # Null
  /\ event.quantity # Null /\ event.quantity > 0

OnOrder ==
  /\ handler.pc = "idle"
  /\ position < Len(topic)
  /\ IF Wanted(Event) THEN handler' = Handling("find") /\ UNCHANGED <<position, committed>>
     ELSE Return
  /\ UNCHANGED <<orderVars, topic, stock, failures>>

Named(name) == {d \in Docs : NameOf[d] = name /\ stock[d] # NoDoc}
Find(d) == [pc |-> "save", doc |-> d, left |-> stock[d] - Event.quantity]

\* Faulty: an unknown product throws.
FindOrThrow ==
  /\ handler.pc = "find"
  /\ \/ /\ Named(Event.productName) = {}
        /\ handler' = Handling("idle")
        /\ UNCHANGED <<position, committed>>
     \/ \E d \in Named(Event.productName) :
          IF stock[d] < Event.quantity THEN Return
          ELSE handler' = Find(d) /\ UNCHANGED <<position, committed>>
  /\ UNCHANGED <<orderVars, topic, stock, failures>>

\* Faulty: does not look at the name.
FindAnyName ==
  /\ handler.pc = "find"
  /\ \/ (\A d \in Docs : stock[d] = NoDoc) /\ Return
     \/ \E d \in {e \in Docs : stock[e] # NoDoc} :
          IF stock[d] < Event.quantity THEN Return
          ELSE handler' = Find(d) /\ UNCHANGED <<position, committed>>
  /\ UNCHANGED <<orderVars, topic, stock, failures>>

\* Faulty: does not look at the stock.
FindAnyStock ==
  /\ handler.pc = "find"
  /\ \/ Named(Event.productName) = {} /\ Return
     \/ \E d \in Named(Event.productName) :
          handler' = Find(d) /\ UNCHANGED <<position, committed>>
  /\ UNCHANGED <<orderVars, topic, stock, failures>>

\* findOne answers any document of that name; without one, or with too little
\* stock, the order is skipped.
FindProduct ==
  /\ handler.pc = "find"
  /\ \/ Named(Event.productName) = {} /\ Return
     \/ \E d \in Named(Event.productName) :
          IF stock[d] < Event.quantity THEN Return
          ELSE handler' = Find(d) /\ UNCHANGED <<position, committed>>
  /\ UNCHANGED <<orderVars, topic, stock, failures>>

\* The document is saved with the stock computed in memory.
SaveProduct ==
  /\ handler.pc = "save"
  /\ stock' = [stock EXCEPT ![handler.doc] = handler.left]
  /\ handler' = [handler EXCEPT !.pc = "saved"]
  /\ UNCHANGED <<orderVars, topic, position, committed, failures>>

FinishOrder ==
  /\ handler.pc = "saved"
  /\ Return
  /\ UNCHANGED <<orderVars, topic, stock, failures>>

-----------------------------------------------------------------------------
(* Failures                                                                *)

AnyFailure == failures < MaxFailures /\ failures' = failures + 1

\* The broker has appended an event, and its acknowledgement is lost: the producer
\* sends it again, and the emit goes on.
KafkaRetries ==
  /\ AnyFailure
  /\ \E event \in emitting : topic' = Append(topic, event)
  /\ UNCHANGED <<orderVars, stock, consumerVars>>

\* POST /orders fails after the row is saved.
RequestFails ==
  /\ AnyFailure
  /\ \E event \in emitting : emitting' = emitting \ {event}
  /\ UNCHANGED <<orders, topic, stock, consumerVars>>

\* The order service stops and starts again: nothing looks for rows whose event
\* has not been emitted.
OrderBootstrap ==
  /\ AnyFailure
  /\ emitting' = {}
  /\ UNCHANGED <<orders, topic, stock, consumerVars>>

\* A query fails or its answer is lost: the message is handled again.
HandlerFails ==
  /\ AnyFailure
  /\ handler.pc \in {"find", "save", "saved"}
  /\ handler' = Handling("idle")
  /\ UNCHANGED <<orderVars, topic, stock, position, committed>>

\* The inventory service stops; InventoryBootstrap starts it again.
Crash ==
  /\ AnyFailure
  /\ handler.pc # "off"
  /\ handler' = Handling("off")
  /\ UNCHANGED <<orderVars, topic, stock, position, committed>>

\* Every order has been placed and its event handled.
Quiet ==
  /\ orders = Orders /\ emitting = {}
  /\ handler.pc = "idle" /\ position = Len(topic)
AllQuiet == Quiet /\ UNCHANGED vars

\* What the modules register: controllers, and the services they inject.
OrdersController == CreateOrder
OrdersService == CreateOrder \/ EmitOrder
OrdersModule == OrdersController \/ OrdersService

InventoryController == \E d \in Docs : CreateProduct(d)
DecrementStockByProductName == FindProduct \/ SaveProduct
OrderEventsController == OnOrder \/ DecrementStockByProductName \/ FinishOrder
InventoryModule == InventoryController \/ OrderEventsController

Next ==
  \/ OrdersModule \/ OrderBootstrap
  \/ InventoryModule \/ InventoryBootstrap
  \/ KafkaRetries \/ RequestFails \/ HandlerFails \/ Crash
  \/ AllQuiet

Spec == Init /\ [][Next]_vars

\* The consumer polls for ever and is restarted when it stops.
Fairness ==
  WF_vars(EmitOrder) /\ WF_vars(InventoryBootstrap) /\ WF_vars(OrderEventsController)

FairSpec == Spec /\ Fairness
=============================================================================
