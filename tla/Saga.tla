-------------------------------- MODULE Saga ---------------------------------
(***************************************************************************)
(* Lesson 5, 5-saga-orchestration-and-choreography: the order, payment and *)
(* inventory services of the TypeScript reference.  There is no            *)
(* coordinator: each service reads every event of one Kafka topic in its   *)
(* own consumer group, and writes its own database and then the topic.     *)
(*                                                                         *)
(* The topic is a sequence that only grows (one partition, no key).  A     *)
(* consumer handles one message at a time; position is the number of       *)
(* messages it has handled, committed the offset that the broker is sure   *)
(* to have: it may lag behind, which is only visible when the consumer     *)
(* restarts, so the commit is chosen at the restart.  The topic is         *)
(* numbered from an offset that every group has committed; what a group    *)
(* without one does is modelled in DatabasePerService.                     *)
(*                                                                         *)
(* Every await is a point where the other services, and the HTTP requests  *)
(* of the same service, may run.  A message carries the id of its order;   *)
(* the product and the quantity in it are those of the order's row, which  *)
(* never change, and are looked up there.                                  *)
(*                                                                         *)
(* An emit is awaited.  The producer is KafkaJS's with its defaults: it is *)
(* not idempotent, and a request whose acknowledgement is lost is sent     *)
(* again although the broker has appended the event.                       *)
(***************************************************************************)
EXTENDS Integers, Sequences, FiniteSets

CONSTANTS
  Orders,        \* the ids the orders table may generate
  Products,      \* the rows of the products table
  Quantities,    \* quantity of an order; the controller validates nothing
  Checks,        \* POST /check requests to the inventory service
  InitialStock,  \* SeedService
  MaxFailures,   \* bound of the model: failed handlers and crashes
  MaxResends     \* bound of the model: lost acknowledgements of an event

ASSUME SagaAssumption ==
  /\ Orders # {} /\ Products # {} /\ Quantities # {}
  /\ Quantities \subseteq Int
  /\ InitialStock \in [Products -> Int]
  /\ MaxFailures \in Nat /\ MaxResends \in Nat
  /\ "inventory" \notin Checks

VARIABLES
  orders,      \* order service: the orders table
  announcing,  \* order service: orders saved, ORDER_CREATED not yet emitted
  payments,    \* payment service: the status of the payment of each order
  paying,      \* payment service: what its handler is doing
  stock,       \* inventory service: the products table
  fulfilled,   \* inventory service: the fulfillments table
  call,        \* inventory service: the running calls of tryFulfill
  topic,       \* saga.demo.events
  position,    \* messages handled by each consumer group
  committed,   \* offset each group is sure to restart from
  failures,    \* how many failures there have been
  resent       \* history: the events that a producer has sent again

vars == <<orders, announcing, payments, paying, stock, fulfilled, call,
          topic, position, committed, failures, resent>>

Services == {"order", "payment", "inventory"}
Callers == {"inventory"} \cup Checks   \* the consumer and the requests

OrderRow == [status : {"none", "PENDING", "COMPLETED", "CANCELLED"},
             product : Products, quantity : Quantities]
SagaEvent == [event : {"ORDER_CREATED", "PAYMENT_CAPTURED", "INVENTORY_OK",
                       "INVENTORY_OUT_OF_STOCK", "PAYMENT_REFUNDED"},
              order : Orders]
Event(name, o) == [event |-> name, order |-> o]

PaymentStatus == {"none", "CAPTURED", "REFUNDED"}

\* The places between the awaits of tryFulfill, and of the payment handler.
Call == [pc : {"idle", "findFulfillment", "findProduct", "saveProduct",
               "saveFulfillment", "emitOk", "emitOutOfStock", "done"},
         order : Orders, product : Products, quantity : Quantities,
         left : Int]     \* product.stock in memory, after the subtraction
Payment == [pc : {"idle", "saveCaptured", "emitCaptured", "saveRefunded",
                  "emitRefunded"},
            order : Orders]

NoOrder == [status |-> "none", product |-> CHOOSE p \in Products : TRUE,
            quantity |-> CHOOSE q \in Quantities : TRUE]
NoPayment == [pc |-> "idle", order |-> CHOOSE o \in Orders : TRUE]
NoCall == [pc |-> "idle", order |-> CHOOSE o \in Orders : TRUE,
           product |-> NoOrder.product, quantity |-> NoOrder.quantity, left |-> 0]

Init ==
  /\ orders = [o \in Orders |-> NoOrder]
  /\ announcing = {}
  /\ payments = [o \in Orders |-> "none"]
  /\ paying = NoPayment
  /\ stock = InitialStock
  /\ fulfilled = {}
  /\ call = [c \in Callers |-> NoCall]
  /\ topic = <<>>
  /\ position = [s \in Services |-> 0]
  /\ committed = [s \in Services |-> 0]
  /\ failures = 0
  /\ resent = <<>>

orderVars == <<orders, announcing>>
paymentVars == <<payments, paying>>
inventoryVars == <<stock, fulfilled, call>>

Emit(name, o) == topic' = Append(topic, Event(name, o))

\* The message that the consumer of s handles now, and the end of its handler.
HasMessage(s) == position[s] < Len(topic)
Message(s) == topic[position[s] + 1]
\* Faulty: acknowledges one message too many.
AdvanceTooFar(s) == position' = [position EXCEPT ![s] = @ + 2]
Advance(s) == position' = [position EXCEPT ![s] = @ + 1]

-----------------------------------------------------------------------------
(* OrdersService                                                           *)

\* create: the row is saved, then the event is emitted.
CreateOrder(o) ==
  /\ orders[o].status = "none"
  /\ \E p \in Products, q \in Quantities :
       orders' = [orders EXCEPT ![o] = [status |-> "PENDING", product |-> p, quantity |-> q]]
  /\ announcing' = announcing \cup {o}
  /\ UNCHANGED <<paymentVars, inventoryVars, topic, position, committed, failures, resent>>

AnnounceOrder(o) ==
  /\ o \in announcing
  /\ Emit("ORDER_CREATED", o)
  /\ announcing' = announcing \ {o}
  /\ UNCHANGED <<orders, paymentVars, inventoryVars, position, committed, failures, resent>>

\* Faulty: waits for the refund to cancel.
StatusAfterRefund(m, status) ==
  CASE m.event = "INVENTORY_OK" -> "COMPLETED"
    [] m.event = "PAYMENT_REFUNDED" -> "CANCELLED"
    [] OTHER -> status

\* Faulty: a payment event puts the order back to work.
StatusAfterPayment(m, status) ==
  CASE m.event = "INVENTORY_OK" -> "COMPLETED"
    [] m.event = "PAYMENT_CAPTURED" -> "PENDING"
    [] m.event \in {"INVENTORY_OUT_OF_STOCK", "PAYMENT_REFUNDED"} -> "CANCELLED"
    [] OTHER -> status

\* handleSagaEvent: the update is not conditional on the present status.
StatusAfter(m, status) ==
  CASE m.event = "INVENTORY_OK" -> "COMPLETED"
    [] m.event \in {"INVENTORY_OUT_OF_STOCK", "PAYMENT_REFUNDED"} -> "CANCELLED"
    [] OTHER -> status

\* An UPDATE of a row that does not exist changes nothing.
OrderHandler ==
  /\ HasMessage("order")
  /\ LET m == Message("order")
     IN  orders' = IF orders[m.order].status = "none" THEN orders
                   ELSE [orders EXCEPT ![m.order].status = StatusAfter(m, @)]
  /\ Advance("order")
  /\ UNCHANGED <<announcing, paymentVars, inventoryVars, topic, committed, failures, resent>>

-----------------------------------------------------------------------------
(* PaymentService.handleSagaEvent                                          *)

\* Faulty: refunds a payment that has been refunded.
PaymentStepAgain(m) ==
  CASE m.event = "ORDER_CREATED" /\ payments[m.order] = "none" -> "saveCaptured"
    [] m.event = "INVENTORY_OUT_OF_STOCK" /\ payments[m.order] # "none" -> "saveRefunded"
    [] OTHER -> "idle"

\* Faulty: nothing compensates.
PaymentStepCapture(m) ==
  IF m.event = "ORDER_CREATED" /\ payments[m.order] = "none" THEN "saveCaptured" ELSE "idle"

\* The findOne: what the message asks for, unless it has been done before.
PaymentStep(m) ==
  CASE m.event = "ORDER_CREATED" /\ payments[m.order] = "none" -> "saveCaptured"
    [] m.event = "INVENTORY_OUT_OF_STOCK" /\ payments[m.order] = "CAPTURED" -> "saveRefunded"
    [] OTHER -> "idle"

PaymentHandler ==
  /\ paying.pc = "idle"
  /\ HasMessage("payment")
  /\ LET m == Message("payment")
         step == PaymentStep(m)
     IN  IF step = "idle" THEN Advance("payment") /\ UNCHANGED paying
         ELSE paying' = [pc |-> step, order |-> m.order] /\ UNCHANGED position
  /\ UNCHANGED <<orderVars, payments, inventoryVars, topic, committed, failures, resent>>

SavePayment ==
  /\ \/ /\ paying.pc = "saveCaptured"
        /\ payments' = [payments EXCEPT ![paying.order] = "CAPTURED"]
        /\ paying' = [paying EXCEPT !.pc = "emitCaptured"]
     \/ /\ paying.pc = "saveRefunded"
        /\ payments' = [payments EXCEPT ![paying.order] = "REFUNDED"]
        /\ paying' = [paying EXCEPT !.pc = "emitRefunded"]
  /\ UNCHANGED <<orderVars, inventoryVars, topic, position, committed, failures, resent>>

EmitPayment ==
  /\ \/ paying.pc = "emitCaptured" /\ Emit("PAYMENT_CAPTURED", paying.order)
     \/ paying.pc = "emitRefunded" /\ Emit("PAYMENT_REFUNDED", paying.order)
  /\ paying' = NoPayment
  /\ Advance("payment")
  /\ UNCHANGED <<orderVars, payments, inventoryVars, committed, failures, resent>>

-----------------------------------------------------------------------------
(* StockService: tryFulfill, run by the consumer and by POST /check.       *)

InventoryHandler ==
  /\ call["inventory"].pc = "idle"
  /\ HasMessage("inventory")
  /\ LET m == Message("inventory")
     IN  IF m.event = "PAYMENT_CAPTURED"
         THEN /\ call' = [call EXCEPT !["inventory"] =
                           [pc |-> "findFulfillment", order |-> m.order,
                            product |-> orders[m.order].product,
                            quantity |-> orders[m.order].quantity, left |-> 0]]
              /\ UNCHANGED position
         ELSE Advance("inventory") /\ UNCHANGED call
  /\ UNCHANGED <<orderVars, paymentVars, stock, fulfilled, topic, committed, failures, resent>>

\* The body of the request is not checked against the order.
Check(c) ==
  /\ call[c].pc = "idle"
  /\ \E o \in Orders, p \in Products, q \in Quantities :
       call' = [call EXCEPT ![c] = [pc |-> "findFulfillment", order |-> o,
                                    product |-> p, quantity |-> q, left |-> 0]]
  /\ UNCHANGED <<orderVars, paymentVars, stock, fulfilled, topic, position,
                 committed, failures, resent>>

\* tryFulfill returns: the message is handled, or the request answered.
Return(c) ==
  IF c = "inventory"
  THEN call' = [call EXCEPT ![c] = NoCall] /\ Advance(c)
  ELSE call' = [call EXCEPT ![c].pc = "done"] /\ UNCHANGED position

\* Faulty: no idempotency check.
FulfillAlways(c) ==
  /\ call[c].pc = "findFulfillment"
  /\ call' = [call EXCEPT ![c].pc = "findProduct"]
  /\ UNCHANGED <<orderVars, paymentVars, stock, fulfilled, topic, position,
                 committed, failures, resent>>

FindFulfillment(c) ==
  /\ call[c].pc = "findFulfillment"
  /\ IF call[c].order \in fulfilled THEN Return(c)
     ELSE call' = [call EXCEPT ![c].pc = "findProduct"] /\ UNCHANGED position
  /\ UNCHANGED <<orderVars, paymentVars, stock, fulfilled, topic, committed, failures, resent>>

\* Faulty: any stock is enough.
FindAnyStock(c) ==
  LET self == call[c]
  IN  /\ self.pc = "findProduct"
      /\ call' = [call EXCEPT ![c] =
                    IF stock[self.product] <= 0
                    THEN [self EXCEPT !.pc = "emitOutOfStock"]
                    ELSE [self EXCEPT !.pc = "saveProduct",
                                      !.left = stock[self.product] - self.quantity]]
      /\ UNCHANGED <<orderVars, paymentVars, stock, fulfilled, topic, position,
                     committed, failures, resent>>

\* Faulty: takes one whatever the quantity.
FindProductTakeOne(c) ==
  LET self == call[c]
  IN  /\ self.pc = "findProduct"
      /\ call' = [call EXCEPT ![c] =
                    IF stock[self.product] < self.quantity
                    THEN [self EXCEPT !.pc = "emitOutOfStock"]
                    ELSE [self EXCEPT !.pc = "saveProduct",
                                      !.left = stock[self.product] - 1]]
      /\ UNCHANGED <<orderVars, paymentVars, stock, fulfilled, topic, position,
                     committed, failures, resent>>

\* A product that is not in the table is out of stock, as one with no stock is.
FindProduct(c) ==
  LET self == call[c]
  IN  /\ self.pc = "findProduct"
      /\ call' = [call EXCEPT ![c] =
                    IF stock[self.product] < self.quantity
                    THEN [self EXCEPT !.pc = "emitOutOfStock"]
                    ELSE [self EXCEPT !.pc = "saveProduct",
                                      !.left = stock[self.product] - self.quantity]]
      /\ UNCHANGED <<orderVars, paymentVars, stock, fulfilled, topic, position,
                     committed, failures, resent>>

\* Faulty: forgets the marker.
SaveProductOnly(c) ==
  /\ call[c].pc = "saveProduct"
  /\ stock' = [stock EXCEPT ![call[c].product] = call[c].left]
  /\ call' = [call EXCEPT ![c].pc = "emitOk"]
  /\ UNCHANGED <<orderVars, paymentVars, fulfilled, topic, position, committed, failures, resent>>

\* The entity is saved with the stock computed in memory.
SaveProduct(c) ==
  /\ call[c].pc = "saveProduct"
  /\ stock' = [stock EXCEPT ![call[c].product] = call[c].left]
  /\ call' = [call EXCEPT ![c].pc = "saveFulfillment"]
  /\ UNCHANGED <<orderVars, paymentVars, fulfilled, topic, position, committed, failures, resent>>

\* save with a primary key inserts or updates: it never conflicts.
SaveFulfillment(c) ==
  /\ call[c].pc = "saveFulfillment"
  /\ fulfilled' = fulfilled \cup {call[c].order}
  /\ call' = [call EXCEPT ![c].pc = "emitOk"]
  /\ UNCHANGED <<orderVars, paymentVars, stock, topic, position, committed, failures, resent>>

EmitVerdict(c) ==
  /\ \/ call[c].pc = "emitOk" /\ Emit("INVENTORY_OK", call[c].order)
     \/ call[c].pc = "emitOutOfStock" /\ Emit("INVENTORY_OUT_OF_STOCK", call[c].order)
  /\ Return(c)
  /\ UNCHANGED <<orderVars, paymentVars, stock, fulfilled, committed, failures, resent>>

TryFulfill(c) ==
  FindFulfillment(c) \/ FindProduct(c) \/ SaveProduct(c) \/ SaveFulfillment(c)
  \/ EmitVerdict(c)

-----------------------------------------------------------------------------
(* Failures.  A failed query or emit throws out of the handler; a crash    *)
(* takes all handlers of a service.  Kafka delivers at least once: the     *)
(* consumer goes on from the offset it is sure of or from a later one that *)
(* it has reached, never beyond the message it was handling.               *)

AnyFailure == failures < MaxFailures /\ failures' = failures + 1

\* The events that are being emitted.
Sending ==
  {e \in SagaEvent :
     \/ e.event = "ORDER_CREATED" /\ e.order \in announcing
     \/ /\ e.order = paying.order
        /\ \/ e.event = "PAYMENT_CAPTURED" /\ paying.pc = "emitCaptured"
           \/ e.event = "PAYMENT_REFUNDED" /\ paying.pc = "emitRefunded"
     \/ \E c \in Callers :
          /\ e.order = call[c].order
          /\ \/ e.event = "INVENTORY_OK" /\ call[c].pc = "emitOk"
             \/ e.event = "INVENTORY_OUT_OF_STOCK" /\ call[c].pc = "emitOutOfStock"}

\* The broker has appended an event, and its acknowledgement is lost: the producer
\* sends it again, and the emit goes on.
KafkaRetries ==
  /\ Len(resent) < MaxResends
  /\ \E e \in Sending : topic' = Append(topic, e) /\ resent' = Append(resent, e)
  /\ UNCHANGED <<orderVars, paymentVars, inventoryVars, position, committed, failures>>

HandlerFails(s) ==
  /\ AnyFailure
  /\ \/ /\ s = "payment" /\ paying.pc # "idle"
        /\ paying' = NoPayment
        /\ UNCHANGED call
     \/ /\ s = "inventory" /\ call[s].pc # "idle"
        /\ call' = [call EXCEPT ![s] = NoCall]
        /\ UNCHANGED paying
  /\ UNCHANGED <<orderVars, payments, stock, fulfilled, topic, position, committed, resent>>

RequestFails ==
  /\ AnyFailure
  /\ \/ /\ \E o \in announcing : announcing' = announcing \ {o}
        /\ UNCHANGED call
     \/ /\ \E c \in Checks : /\ call[c].pc \notin {"idle", "done"}
                             /\ call' = [call EXCEPT ![c].pc = "done"]
        /\ UNCHANGED announcing
  /\ UNCHANGED <<orders, paymentVars, stock, fulfilled, topic, position, committed, resent>>

\* A service stops, and its bootstrap connects the consumer again.
Restart(s) ==
  /\ AnyFailure
  /\ \E n \in committed[s] .. position[s] :
       /\ position' = [position EXCEPT ![s] = n]
       /\ committed' = [committed EXCEPT ![s] = n]
  /\ UNCHANGED <<orders, payments, stock, fulfilled, topic, resent>>

OrderBootstrap ==
  /\ Restart("order")
  /\ announcing' = {}
  /\ UNCHANGED <<paying, call>>

PaymentBootstrap ==
  /\ Restart("payment")
  /\ paying' = NoPayment
  /\ UNCHANGED <<announcing, call>>

\* SeedService finds the products there.
InventoryBootstrap ==
  /\ Restart("inventory")
  /\ call' = [c \in Callers |-> IF c = "inventory" \/ call[c].pc = "idle" THEN NoCall
                                ELSE [call[c] EXCEPT !.pc = "done"]]
  /\ UNCHANGED <<announcing, paying>>

\* Every order has been placed, every event handled and every request served.
AllQuiet ==
  /\ \A o \in Orders : orders[o].status # "none"
  /\ announcing = {}
  /\ \A s \in Services : position[s] = Len(topic)
  /\ paying.pc = "idle"
  /\ \A c \in Callers : call[c].pc = IF c = "inventory" THEN "idle" ELSE "done"
  /\ UNCHANGED vars

\* What the modules register: controllers, whose handlers begin with the step here,
\* and the services, which go on with them after every await.
OrdersController == \E o \in Orders : CreateOrder(o)
OrderEventsController == OrderHandler
OrdersService == \E o \in Orders : AnnounceOrder(o)
OrdersModule == OrdersController \/ OrderEventsController \/ OrdersService

PaymentEventsController == PaymentHandler
PaymentService == SavePayment \/ EmitPayment
LedgerModule == PaymentEventsController \/ PaymentService

StockController == \E c \in Checks : Check(c)
StockEventsController == InventoryHandler
StockService == \E c \in Callers : TryFulfill(c)
StockModule == StockController \/ StockEventsController \/ StockService

Next ==
  \/ OrdersModule \/ OrderBootstrap
  \/ LedgerModule \/ PaymentBootstrap
  \/ StockModule \/ InventoryBootstrap
  \/ (\E s \in Services : HandlerFails(s)) \/ RequestFails \/ KafkaRetries
  \/ AllQuiet

Spec == Init /\ [][Next]_vars

\* The consumers poll for ever and are restarted after a crash; the event loop
\* runs every handler whose query has returned.  Clients need not send anything.
Fairness ==
  /\ WF_vars(OrdersService)
  /\ WF_vars(OrderEventsController)
  /\ WF_vars(LedgerModule)
  /\ WF_vars(StockEventsController)
  /\ \A c \in Callers : WF_vars(TryFulfill(c))

FairSpec == Spec /\ Fairness
=============================================================================
