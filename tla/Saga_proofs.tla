----------------------------- MODULE Saga_proofs -----------------------------
(***************************************************************************)
(* Theorems about the saga of lesson 5, for any number of orders, products *)
(* and failures.                                                           *)
(***************************************************************************)
EXTENDS SagaProps, Induction

(* The topic.                                                              *)

USE DEF PaymentStatus

\* A step of the payment service.
Payer == PaymentHandler \/ SavePayment \/ EmitPayment

\* A service stops and starts again.
Crash(s) ==
  \/ s = "order" /\ OrderBootstrap
  \/ s = "payment" /\ PaymentBootstrap
  \/ s = "inventory" /\ InventoryBootstrap

\* The modules' actions one by one.
LEMMA NextCases ==
  ASSUME Next
  PROVE  \/ \E o \in Orders : CreateOrder(o) \/ AnnounceOrder(o)
         \/ OrderHandler
         \/ Payer
         \/ InventoryHandler
         \/ \E c \in Checks : Check(c)
         \/ \E c \in Callers : TryFulfill(c)
         \/ \E s \in Services : HandlerFails(s) \/ Crash(s)
         \/ RequestFails
         \/ KafkaRetries
         \/ AllQuiet
BY DEF Next, OrdersModule, OrdersController, OrdersService, OrderEventsController,
       LedgerModule, Payer, PaymentService, PaymentEventsController, StockModule, StockController,
       StockEventsController, StockService, Crash, Services

\* What an append adds to the topic.
LEMMA AppendAdds ==
  ASSUME topic \in Seq(SagaEvent), NEW name, NEW o, Event(name, o) \in SagaEvent,
         Emit(name, o)
  PROVE  /\ topic' \in Seq(SagaEvent)
         /\ Len(topic') = Len(topic) + 1
         /\ \A n, p : Emitted(n, p)' <=> Emitted(n, p) \/ (n = name /\ p = o)
         /\ \A n, p : Once(n, p) /\ ~ (n = name /\ p = o) => Once(n, p)'
         /\ ~ Emitted(name, o) => Once(name, o)'
<1> DEFINE new == Len(topic) + 1
<1>1. /\ topic' \in Seq(SagaEvent)
      /\ Len(topic') = new
      /\ DOMAIN topic = 1 .. Len(topic) /\ DOMAIN topic' = 1 .. new
      /\ \A i \in DOMAIN topic : topic'[i] = topic[i] /\ i # new
      /\ topic'[new] = Event(name, o)
      /\ Len(topic) \in Nat
  BY DEF Emit
<1>2. \A i : i \in DOMAIN topic' <=> i \in DOMAIN topic \/ i = new
  BY <1>1
<1>3. \A n, p : Event(n, p) = Event(name, o) <=> n = name /\ p = o
  BY DEF Event
<1>4. \A n, p : Emitted(n, p)' <=> Emitted(n, p) \/ (n = name /\ p = o)
  BY <1>1, <1>2, <1>3 DEF Emitted
<1>5. \A n, p : Once(n, p) /\ ~ (n = name /\ p = o) => Once(n, p)'
  BY <1>1, <1>2, <1>3 DEF Once
<1>6. ~ Emitted(name, o) => Once(name, o)'
  BY <1>1, <1>2, <1>3 DEF Once, Emitted
<1> QED BY <1>1, <1>4, <1>5, <1>6

\* An emit that is acknowledged.  The event may be there already, when the producer
\* has sent it again.
LEMMA EmitAdds ==
  ASSUME topic \in Seq(SagaEvent), NEW name, NEW o, Event(name, o) \in SagaEvent,
         Emit(name, o), UNCHANGED resent
  PROVE  /\ topic' \in Seq(SagaEvent)
         /\ Len(topic') = Len(topic) + 1
         /\ \A n, p : Emitted(n, p)' <=> Emitted(n, p) \/ (n = name /\ p = o)
         /\ \A n, p : SentAgain(n, p)' <=> SentAgain(n, p)
         /\ \A n, p : EmittedOnce(n, p) /\ ~ (n = name /\ p = o) => EmittedOnce(n, p)'
         /\ (Emitted(name, o) => SentAgain(name, o)) => EmittedOnce(name, o)'
<1>1. \A n, p : SentAgain(n, p)' <=> SentAgain(n, p)
  BY DEF SentAgain
<1> QED BY <1>1, AppendAdds DEF EmittedOnce

\* A step that emits nothing changes nothing that was emitted.
LEMMA SilentKeeps ==
  ASSUME UNCHANGED <<topic, resent>>
  PROVE  /\ \A n, p : Emitted(n, p)' <=> Emitted(n, p)
         /\ \A n, p : SentAgain(n, p)' <=> SentAgain(n, p)
         /\ \A n, p : EmittedOnce(n, p)' <=> EmittedOnce(n, p)
BY DEF Emitted, SentAgain, EmittedOnce, Once

\* The emit that an event on its way to the topic belongs to.
Emits(name, o) ==
  \/ name = "ORDER_CREATED" /\ o \in announcing
  \/ name = "PAYMENT_CAPTURED" /\ paying.pc = "emitCaptured" /\ o = paying.order
  \/ name = "PAYMENT_REFUNDED" /\ paying.pc = "emitRefunded" /\ o = paying.order
  \/ \E c \in Callers :
       /\ o = call[c].order
       /\ \/ name = "INVENTORY_OK" /\ call[c].pc = "emitOk"
          \/ name = "INVENTORY_OUT_OF_STOCK" /\ call[c].pc = "emitOutOfStock"

\* What a producer that sends an event again adds.
LEMMA RetryAdds ==
  ASSUME TypeOK, KafkaRetries
  PROVE  /\ UNCHANGED <<orders, announcing, payments, paying, stock, fulfilled, call,
                        position, committed, failures>>
         /\ topic' \in Seq(SagaEvent)
         /\ Len(topic') = Len(topic) + 1
         /\ resent' \in Seq(SagaEvent) /\ Len(resent') <= MaxResends
         /\ \A n, p : SentAgain(n, p) => SentAgain(n, p)'
         /\ \A n, p : EmittedOnce(n, p) => EmittedOnce(n, p)'
         /\ \E name, o :
              /\ o \in Orders /\ Emits(name, o) /\ SentAgain(name, o)'
              /\ \A n, p : Emitted(n, p)' <=> Emitted(n, p) \/ (n = name /\ p = o)
<1>1. UNCHANGED <<orders, announcing, payments, paying, stock, fulfilled, call,
                  position, committed, failures>>
  BY DEF KafkaRetries, orderVars, paymentVars, inventoryVars
<1>2. PICK e \in Sending : topic' = Append(topic, e) /\ resent' = Append(resent, e)
  BY DEF KafkaRetries
<1> DEFINE name == e.event
           o == e.order
<1>3. e \in SagaEvent /\ e = Event(name, o) /\ o \in Orders
  BY <1>2 DEF Sending, SagaEvent, Event
<1>4. Emits(name, o)
  BY <1>2 DEF Sending, Emits
<1>5. Emit(name, o) /\ Event(name, o) \in SagaEvent
  BY <1>2, <1>3 DEF Emit
<1> HIDE DEF name, o
<1>6. /\ resent \in Seq(SagaEvent) /\ Len(resent) \in Nat /\ Len(resent) < MaxResends
      /\ MaxResends \in Nat
  BY SagaAssumption DEF TypeOK, KafkaRetries
<1>7. /\ resent' \in Seq(SagaEvent) /\ Len(resent') = Len(resent) + 1
      /\ DOMAIN resent = 1 .. Len(resent) /\ DOMAIN resent' = 1 .. Len(resent) + 1
      /\ \A i \in DOMAIN resent : resent'[i] = resent[i]
      /\ resent'[Len(resent) + 1] = e
  BY <1>2, <1>3, <1>6
<1>8. SentAgain(name, o)' /\ \A n, p : SentAgain(n, p) => SentAgain(n, p)'
  <2>1. Len(resent) + 1 \in DOMAIN resent' /\ DOMAIN resent \subseteq DOMAIN resent'
    BY <1>6, <1>7
  <2> QED BY <1>3, <1>7, <2>1 DEF SentAgain
<1>9. /\ topic' \in Seq(SagaEvent) /\ Len(topic') = Len(topic) + 1
      /\ \A n, p : Emitted(n, p)' <=> Emitted(n, p) \/ (n = name /\ p = o)
      /\ \A n, p : Once(n, p) /\ ~ (n = name /\ p = o) => Once(n, p)'
  BY <1>5, AppendAdds DEF TypeOK
<1>10. \A n, p : EmittedOnce(n, p) => EmittedOnce(n, p)'
  BY <1>8, <1>9 DEF EmittedOnce
<1>11. Len(resent') <= MaxResends
  BY <1>6, <1>7
<1> QED BY <1>1, <1>3, <1>4, <1>7, <1>8, <1>9, <1>10, <1>11

\* The message that a consumer handles is one of the topic.
LEMMA MessageIsEmitted ==
  ASSUME TypeOK, NEW s \in Services, HasMessage(s)
  PROVE  /\ Message(s) \in SagaEvent
         /\ Emitted(Message(s).event, Message(s).order)
<1>1. position[s] + 1 \in DOMAIN topic
  BY DEF TypeOK, HasMessage
<1>2. topic[position[s] + 1] \in SagaEvent
  BY <1>1 DEF TypeOK
<1>3. Message(s) = Event(Message(s).event, Message(s).order)
  BY <1>2 DEF Message, SagaEvent, Event
<1> QED BY <1>1, <1>2, <1>3 DEF Emitted, Message

-----------------------------------------------------------------------------
(* Types.                                                                  *)

\* A handler is at work on a message that its group has not passed.
Handling ==
  /\ paying.pc # "idle" => HasMessage("payment")
  /\ call["inventory"].pc # "idle" => HasMessage("inventory")

TypeInv == TypeOK /\ Handling

\* The rows that stand for nothing have a type too.
LEMMA NothingType ==
  NoOrder \in OrderRow /\ NoPayment \in Payment /\ NoCall \in Call
<1>1. /\ (CHOOSE o \in Orders : TRUE) \in Orders
      /\ (CHOOSE p \in Products : TRUE) \in Products
      /\ (CHOOSE q \in Quantities : TRUE) \in Quantities
  BY SagaAssumption
<1> QED BY <1>1 DEF NoOrder, NoPayment, NoCall, OrderRow, Payment, Call

LEMMA TypeInit == Init => TypeInv
<1> SUFFICES ASSUME Init PROVE TypeInv
  OBVIOUS
<1>1. NoPayment.pc = "idle" /\ NoCall.pc = "idle"
  BY DEF NoPayment, NoCall
<1>2. topic \in Seq(SagaEvent) /\ Len(topic) = 0
  BY DEF Init
<1>3. TypeOK
  BY <1>2, NothingType, SagaAssumption DEF Init, TypeOK
<1>4. Handling
  BY <1>1 DEF Init, Handling, Callers
<1> QED BY <1>3, <1>4 DEF TypeInv

\* The steps of the order service.
LEMMA TypeOrderService ==
  ASSUME TypeInv,
         \/ \E o \in Orders : CreateOrder(o) \/ AnnounceOrder(o)
         \/ OrderHandler
  PROVE  TypeInv'
<1>1. ASSUME NEW o \in Orders, CreateOrder(o)
      PROVE  TypeInv'
  BY <1>1 DEF CreateOrder, TypeInv, TypeOK, Handling, OrderRow, HasMessage,
              paymentVars, inventoryVars
<1>2. ASSUME NEW o \in Orders, AnnounceOrder(o)
      PROVE  TypeInv'
  <2>1. Event("ORDER_CREATED", o) \in SagaEvent
    BY DEF Event, SagaEvent
  <2>2. topic' \in Seq(SagaEvent) /\ Len(topic') = Len(topic) + 1 /\ Len(topic) \in Nat
    BY <1>2, <2>1, EmitAdds DEF AnnounceOrder, TypeInv, TypeOK
  <2> QED BY <1>2, <2>2 DEF AnnounceOrder, TypeInv, TypeOK, Handling, HasMessage,
                            Services, paymentVars, inventoryVars
<1>3. ASSUME OrderHandler
      PROVE  TypeInv'
  <2> DEFINE m == Message("order")
  <2>1. m \in SagaEvent
    BY <1>3, MessageIsEmitted DEF OrderHandler, TypeInv, Services
  <2>2. \A status \in {"none", "PENDING", "COMPLETED", "CANCELLED"} :
          StatusAfter(m, status) \in {"none", "PENDING", "COMPLETED", "CANCELLED"}
    BY DEF StatusAfter
  <2>3. orders' \in [Orders -> OrderRow]
    <3>1. m.order \in Orders /\ orders \in [Orders -> OrderRow]
      BY <2>1 DEF SagaEvent, TypeInv, TypeOK
    <3>2. \/ orders' = orders
          \/ orders' = [orders EXCEPT ![m.order].status = StatusAfter(m, @)]
      BY <1>3 DEF OrderHandler
    <3>3. StatusAfter(m, orders[m.order].status) \in {"none", "PENDING", "COMPLETED", "CANCELLED"}
      BY <2>2, <3>1 DEF OrderRow
    <3> HIDE DEF m
    <3> QED BY <3>1, <3>2, <3>3 DEF OrderRow
  <2> QED BY <1>3, <2>3 DEF OrderHandler, Advance, TypeInv, TypeOK, Handling,
                            HasMessage, Services, paymentVars, inventoryVars
<1> QED BY <1>1, <1>2, <1>3

\* The steps of the payment service.
LEMMA TypePaymentService ==
  ASSUME TypeInv, Payer
  PROVE  TypeInv'
<1>1. CASE PaymentHandler
  <2> DEFINE m == Message("payment")
             step == PaymentStep(m)
  <2>1. m \in SagaEvent
    BY <1>1, MessageIsEmitted DEF PaymentHandler, TypeInv, Services
  <2>2. step \in {"idle", "saveCaptured", "saveRefunded"}
    BY DEF PaymentStep
  <2>3. CASE step = "idle"
    BY <1>1, <2>3 DEF PaymentHandler, Advance, TypeInv, TypeOK, Handling,
                      HasMessage, Services, orderVars, inventoryVars
  <2>4. CASE step # "idle"
    <3>1. paying' = [pc |-> step, order |-> m.order] /\ UNCHANGED position
      BY <1>1, <2>4 DEF PaymentHandler
    <3>2. paying' \in Payment
      BY <2>1, <2>2, <3>1 DEF Payment, SagaEvent
    <3> QED BY <1>1, <3>1, <3>2 DEF PaymentHandler, TypeInv, TypeOK, Handling,
                                    HasMessage, orderVars, inventoryVars
  <2> QED BY <2>3, <2>4
<1>2. CASE SavePayment
  <2>1. paying' \in Payment /\ payments' \in [Orders -> {"none", "CAPTURED", "REFUNDED"}]
    BY <1>2 DEF SavePayment, TypeInv, TypeOK, Payment
  <2> QED BY <1>2, <2>1 DEF SavePayment, TypeInv, TypeOK, Handling, HasMessage,
                            orderVars, inventoryVars
<1>3. CASE EmitPayment
  <2>1. /\ Event("PAYMENT_CAPTURED", paying.order) \in SagaEvent
        /\ Event("PAYMENT_REFUNDED", paying.order) \in SagaEvent
    BY DEF Event, SagaEvent, TypeInv, TypeOK, Payment
  <2>2. topic' \in Seq(SagaEvent) /\ Len(topic') = Len(topic) + 1 /\ Len(topic) \in Nat
    BY <1>3, <2>1, EmitAdds DEF EmitPayment, TypeInv, TypeOK
  <2>3. paying' \in Payment /\ paying'.pc = "idle"
    BY <1>3, NothingType DEF EmitPayment, NoPayment
  <2>4. HasMessage("payment")
    BY <1>3 DEF EmitPayment, TypeInv, Handling
  <2> QED BY <1>3, <2>2, <2>3, <2>4 DEF EmitPayment, Advance, TypeInv, TypeOK, Handling,
                                        HasMessage, Services, orderVars, inventoryVars
<1> QED BY <1>1, <1>2, <1>3 DEF Payer

\* The calls of tryFulfill.  A call ends with Return.
LEMMA TypeReturn ==
  ASSUME TypeInv, NEW c \in Callers, call[c].pc # "idle", Return(c)
  PROVE  /\ call' \in [Callers -> Call]
         /\ position' \in [Services -> 0 .. Len(topic)]
         /\ \A s \in Services : position[s] <= position'[s]
         /\ call'["inventory"].pc # "idle" => position'["inventory"] = position["inventory"]
                                              /\ call["inventory"].pc # "idle"
         /\ position'["payment"] = position["payment"]
<1>1. CASE c = "inventory"
  <2>1. HasMessage("inventory")
    BY <1>1 DEF TypeInv, Handling
  <2>2. NoCall.pc = "idle"
    BY DEF NoCall
  <2>3. call' = [call EXCEPT !["inventory"] = NoCall]
        /\ position' = [position EXCEPT !["inventory"] = @ + 1]
    BY <1>1 DEF Return, Advance
  <2>4. call \in [Callers -> Call] /\ "inventory" \in Callers /\ NoCall \in Call
    BY NothingType DEF TypeInv, TypeOK, Callers
  <2>5. position \in [Services -> 0 .. Len(topic)] /\ Len(topic) \in Nat
        /\ "inventory" \in Services /\ position["inventory"] < Len(topic)
    BY <2>1 DEF TypeInv, TypeOK, Services, HasMessage
  <2>6. call' \in [Callers -> Call] /\ call'["inventory"].pc = "idle"
    BY <2>2, <2>3, <2>4
  <2>7. /\ position' \in [Services -> 0 .. Len(topic)]
        /\ \A s \in Services : position[s] <= position'[s]
        /\ position'["payment"] = position["payment"]
    BY <2>3, <2>5 DEF Services
  <2> QED BY <2>6, <2>7
<1>2. CASE c # "inventory"
  <2>1. [call[c] EXCEPT !.pc = "done"] \in Call
    BY DEF TypeInv, TypeOK, Call
  <2>2. call' = [call EXCEPT ![c].pc = "done"] /\ position' = position
    BY <1>2 DEF Return
  <2>3. call \in [Callers -> Call] /\ position \in [Services -> 0 .. Len(topic)]
        /\ Len(topic) \in Nat
    BY DEF TypeInv, TypeOK
  <2>4. call' \in [Callers -> Call] /\ call'["inventory"] = call["inventory"]
    BY <1>2, <2>1, <2>2, <2>3
  <2>5. \A s \in Services : position[s] <= position'[s]
    BY <2>2, <2>3
  <2> QED BY <2>2, <2>3, <2>4, <2>5
<1> QED BY <1>1, <1>2

LEMMA TypeTryFulfill ==
  ASSUME TypeInv, NEW c \in Callers, TryFulfill(c)
  PROVE  TypeInv'
<1>a. call[c] \in Call /\ "inventory" \in Callers
  BY DEF TypeInv, TypeOK, Callers
<1>1. CASE FindFulfillment(c)
  <2>1. CASE Return(c)
    BY <1>1, <2>1, TypeReturn DEF FindFulfillment, TypeInv, TypeOK, Handling, HasMessage,
                                  Services, orderVars, paymentVars
  <2>2. CASE call' = [call EXCEPT ![c].pc = "findProduct"] /\ UNCHANGED position
    BY <1>1, <1>a, <2>2 DEF FindFulfillment, TypeInv, TypeOK, Handling, HasMessage,
                            Call, orderVars, paymentVars
  <2> QED BY <1>1, <2>1, <2>2 DEF FindFulfillment
<1>2. CASE FindProduct(c)
  <2>1. stock[call[c].product] - call[c].quantity \in Int
    <3>1. call[c].product \in Products /\ call[c].quantity \in Int
      BY <1>a, SagaAssumption DEF Call
    <3>2. stock[call[c].product] \in Int
      BY <3>1 DEF TypeInv, TypeOK
    <3> QED BY <3>1, <3>2
  <2> QED BY <1>2, <1>a, <2>1 DEF FindProduct, TypeInv, TypeOK, Handling, HasMessage,
                                  Call, orderVars, paymentVars
<1>3. CASE SaveProduct(c)
  BY <1>3, <1>a DEF SaveProduct, TypeInv, TypeOK, Handling, HasMessage, Call,
                    orderVars, paymentVars
<1>4. CASE SaveFulfillment(c)
  BY <1>4, <1>a DEF SaveFulfillment, TypeInv, TypeOK, Handling, HasMessage, Call,
                    orderVars, paymentVars
<1>5. CASE EmitVerdict(c)
  <2>1. /\ Event("INVENTORY_OK", call[c].order) \in SagaEvent
        /\ Event("INVENTORY_OUT_OF_STOCK", call[c].order) \in SagaEvent
    BY <1>a DEF Event, SagaEvent, Call
  <2>2. topic' \in Seq(SagaEvent) /\ Len(topic') = Len(topic) + 1 /\ Len(topic) \in Nat
    BY <1>5, <2>1, EmitAdds DEF EmitVerdict, TypeInv, TypeOK
  <2>3. call[c].pc # "idle" /\ Return(c)
    BY <1>5 DEF EmitVerdict
  <2> QED BY <1>5, <2>2, <2>3, TypeReturn DEF EmitVerdict, TypeInv, TypeOK, Handling,
                                HasMessage, Services, orderVars, paymentVars
<1> QED BY <1>1, <1>2, <1>3, <1>4, <1>5 DEF TryFulfill

LEMMA TypeStartCall ==
  ASSUME TypeInv, InventoryHandler \/ \E c \in Checks : Check(c)
  PROVE  TypeInv'
<1>1. CASE InventoryHandler
  <2> DEFINE m == Message("inventory")
             new == [pc |-> "findFulfillment", order |-> m.order,
                     product |-> orders[m.order].product,
                     quantity |-> orders[m.order].quantity, left |-> 0]
  <2>1. m \in SagaEvent
    BY <1>1, MessageIsEmitted DEF InventoryHandler, TypeInv, Services
  <2>2. new \in Call
    BY <2>1 DEF Call, SagaEvent, TypeInv, TypeOK, OrderRow
  <2>3. CASE m.event = "PAYMENT_CAPTURED"
    <3>1. call' = [call EXCEPT !["inventory"] = new] /\ UNCHANGED position
      BY <1>1, <2>3 DEF InventoryHandler
    <3> HIDE DEF new
    <3> QED BY <1>1, <2>2, <3>1 DEF InventoryHandler, TypeInv, TypeOK, Handling,
                                    HasMessage, Callers, orderVars, paymentVars
  <2>4. CASE m.event # "PAYMENT_CAPTURED"
    BY <1>1, <2>4 DEF InventoryHandler, Advance, TypeInv, TypeOK, Handling, HasMessage,
                      Services, orderVars, paymentVars
  <2> QED BY <2>3, <2>4
<1>2. ASSUME NEW c \in Checks, Check(c)
      PROVE  TypeInv'
  <2>1. PICK o \in Orders, p \in Products, q \in Quantities :
          call' = [call EXCEPT ![c] = [pc |-> "findFulfillment", order |-> o,
                                       product |-> p, quantity |-> q, left |-> 0]]
    BY <1>2 DEF Check
  <2>2. [pc |-> "findFulfillment", order |-> o, product |-> p, quantity |-> q, left |-> 0]
          \in Call
    BY DEF Call
  <2>3. call' \in [Callers -> Call] /\ call'["inventory"] = call["inventory"]
    BY <2>1, <2>2, SagaAssumption DEF TypeInv, TypeOK, Callers
  <2> QED BY <1>2, <2>3 DEF Check, TypeInv, TypeOK, Handling, HasMessage,
                            orderVars, paymentVars
<1> QED BY <1>1, <1>2

\* The failures.
LEMMA TypeFailures ==
  ASSUME TypeInv,
         (\E s \in Services : HandlerFails(s) \/ Crash(s)) \/ RequestFails
  PROVE  TypeInv'
<1>a. failures' \in 0 .. MaxFailures
  BY SagaAssumption DEF HandlerFails, Crash, OrderBootstrap, PaymentBootstrap, InventoryBootstrap,
                       Restart, RequestFails, AnyFailure, TypeInv, TypeOK
<1>b. NoPayment.pc = "idle" /\ NoCall.pc = "idle"
  BY DEF NoPayment, NoCall
<1>1. ASSUME NEW s \in Services, HandlerFails(s)
      PROVE  TypeInv'
  BY <1>1, <1>a, <1>b, NothingType DEF HandlerFails, TypeInv, TypeOK, Handling, HasMessage,
                                       Callers, orderVars
<1>2. ASSUME NEW s \in Services, Crash(s)
      PROVE  TypeInv'
  <2>1. PICK n \in committed[s] .. position[s] :
          /\ position' = [position EXCEPT ![s] = n]
          /\ committed' = [committed EXCEPT ![s] = n]
    BY <1>2 DEF Crash, OrderBootstrap, PaymentBootstrap, InventoryBootstrap, Restart
  <2>2. /\ position' \in [Services -> 0 .. Len(topic)]
        /\ committed' \in [Services -> Nat]
        /\ \A t \in Services : committed'[t] <= position'[t]
        /\ \A t \in Services : t # s => position'[t] = position[t]
    BY <2>1 DEF TypeInv, TypeOK
  <2>3. call' \in [Callers -> Call]
    <3>1. CASE s = "inventory"
      <4>1. call' = [c \in Callers |->
                       IF c = "inventory" \/ call[c].pc = "idle" THEN NoCall
                       ELSE [call[c] EXCEPT !.pc = "done"]]
        BY <1>2, <3>1 DEF Crash, InventoryBootstrap
      <4>2. \A c \in Callers : [call[c] EXCEPT !.pc = "done"] \in Call
        BY DEF TypeInv, TypeOK, Call
      <4> QED BY <4>1, <4>2, NothingType
    <3>2. CASE s # "inventory"
      BY <1>2, <3>2 DEF Crash, OrderBootstrap, PaymentBootstrap, TypeInv, TypeOK
    <3> QED BY <3>1, <3>2
  <2>4. /\ paying' \in Payment
        /\ announcing' \subseteq Orders
        /\ paying'.pc # "idle" => s # "payment" /\ paying.pc # "idle"
        /\ call'["inventory"].pc # "idle" => s # "inventory" /\ call["inventory"].pc # "idle"
    BY <1>2, <1>b, NothingType DEF Crash, OrderBootstrap, PaymentBootstrap,
                                   InventoryBootstrap, TypeInv, TypeOK, Callers
  <2>5. UNCHANGED <<orders, payments, stock, fulfilled, topic, resent>>
    BY <1>2 DEF Crash, OrderBootstrap, PaymentBootstrap, InventoryBootstrap, Restart
  <2> QED BY <1>a, <2>2, <2>3, <2>4, <2>5 DEF TypeInv, TypeOK, Handling,
                                              HasMessage, Services
<1>3. ASSUME RequestFails
      PROVE  TypeInv'
  <2>1. CASE \E o \in announcing : announcing' = announcing \ {o} /\ UNCHANGED call
    BY <1>3, <1>a, <2>1 DEF RequestFails, TypeInv, TypeOK, Handling, HasMessage, paymentVars
  <2>2. CASE \E c \in Checks : call' = [call EXCEPT ![c].pc = "done"] /\ UNCHANGED announcing
    <3>1. call' \in [Callers -> Call] /\ call'["inventory"] = call["inventory"]
      <4>1. PICK c \in Checks : call' = [call EXCEPT ![c].pc = "done"]
        BY <2>2
      <4>2. call \in [Callers -> Call] /\ c \in Callers /\ c # "inventory"
        BY SagaAssumption DEF TypeInv, TypeOK, Callers
      <4>3. [call[c] EXCEPT !.pc = "done"] \in Call
        BY <4>2 DEF Call
      <4> QED BY <4>1, <4>2, <4>3
    <3> QED BY <1>3, <1>a, <2>2, <3>1 DEF RequestFails, TypeInv, TypeOK, Handling,
                                          HasMessage, paymentVars
  <2> QED BY <1>3, <2>1, <2>2 DEF RequestFails
<1> QED BY <1>1, <1>2, <1>3

\* A producer sends an event again.
LEMMA TypeRetry ==
  ASSUME TypeInv, KafkaRetries
  PROVE  TypeInv'
<1>1. /\ UNCHANGED <<orders, announcing, payments, paying, stock, fulfilled, call,
                     position, committed, failures>>
      /\ topic' \in Seq(SagaEvent) /\ Len(topic') = Len(topic) + 1
      /\ resent' \in Seq(SagaEvent) /\ Len(resent') <= MaxResends
  BY RetryAdds DEF TypeInv
<1>2. /\ Len(topic) \in Nat /\ position \in [Services -> 0 .. Len(topic)]
      /\ "payment" \in Services /\ "inventory" \in Services
  BY DEF TypeInv, TypeOK, Services
<1>3. position' \in [Services -> 0 .. Len(topic')]
  BY <1>1, <1>2
<1>4. TypeOK'
  BY <1>1, <1>3 DEF TypeInv, TypeOK
<1>5. Handling'
  <2>1. \A s \in Services : position[s] < Len(topic) => position'[s] < Len(topic')
    BY <1>1, <1>2
  <2> QED BY <1>1, <1>2, <2>1 DEF TypeInv, Handling, HasMessage
<1> QED BY <1>4, <1>5 DEF TypeInv

LEMMA TypeStep == TypeInv /\ [Next]_vars => TypeInv'
<1>1. ASSUME TypeInv, UNCHANGED vars PROVE TypeInv'
  BY <1>1 DEF vars, TypeInv, TypeOK, Handling, HasMessage
<1>2. ASSUME TypeInv, Next PROVE TypeInv'
  BY <1>1, <1>2, TypeOrderService, TypePaymentService, TypeTryFulfill, TypeStartCall,
     TypeFailures, TypeRetry, NextCases DEF AllQuiet
<1> QED BY <1>1, <1>2

\* The tables, the handlers, the topic and the offsets have their types.
THEOREM TypeCorrect == Spec => []TypeOK
<1>1. TypeInv => TypeOK
  BY DEF TypeInv
<1> QED BY <1>1, TypeInit, TypeStep, PTL DEF Spec

-----------------------------------------------------------------------------
(* Money.                                                                  *)

\* What has been emitted about a payment, given its status.
PaymentsEmitted ==
  \A o \in Orders :
    /\ payments[o] = "none" => ~ Emitted("PAYMENT_CAPTURED", o)
    /\ payments[o] # "REFUNDED" => ~ Emitted("PAYMENT_REFUNDED", o)

\* The payment handler is about to save what its findOne has allowed, or to
\* emit what it has just saved: the event is new, or its producer has sent it again.
PayingForTheFirstTime ==
  LET o == paying.order
  IN  /\ paying.pc = "saveCaptured" => payments[o] = "none"
      /\ paying.pc = "emitCaptured" => payments[o] = "CAPTURED"
           /\ (Emitted("PAYMENT_CAPTURED", o) => SentAgain("PAYMENT_CAPTURED", o))
      /\ paying.pc = "saveRefunded" => payments[o] = "CAPTURED"
      /\ paying.pc = "emitRefunded" => payments[o] = "REFUNDED"
           /\ (Emitted("PAYMENT_REFUNDED", o) => SentAgain("PAYMENT_REFUNDED", o))

MoneyInv == PaymentsEmitted /\ PayingForTheFirstTime /\ MoneyMovesOnce

LEMMA MoneyInit == Init => MoneyInv
<1> SUFFICES ASSUME Init PROVE MoneyInv
  OBVIOUS
<1>1. NoPayment.pc = "idle"
  BY DEF NoPayment
<1>2. DOMAIN topic = {}
  BY DEF Init
<1> QED BY <1>1, <1>2 DEF Init, MoneyInv, PaymentsEmitted, PayingForTheFirstTime,
                          MoneyMovesOnce, Emitted, EmittedOnce, Once

\* A step that leaves the payment service alone and emits nothing about money.
LEMMA MoneyElsewhere ==
  ASSUME MoneyInv, UNCHANGED payments,
         paying' = paying \/ paying'.pc = "idle",
         \A n \in {"PAYMENT_CAPTURED", "PAYMENT_REFUNDED"}, o \in Orders :
           /\ Emitted(n, o)' <=> Emitted(n, o)
           /\ SentAgain(n, o)' <=> SentAgain(n, o)
           /\ EmittedOnce(n, o) => EmittedOnce(n, o)',
         paying.pc # "idle" => paying.order \in Orders
  PROVE  MoneyInv'
<1>1. PaymentsEmitted' /\ MoneyMovesOnce'
  BY DEF MoneyInv, PaymentsEmitted, MoneyMovesOnce
<1>2. PayingForTheFirstTime'
  BY DEF MoneyInv, PayingForTheFirstTime
<1> QED BY <1>1, <1>2 DEF MoneyInv

LEMMA MoneyPayer ==
  ASSUME TypeInv, MoneyInv, Payer
  PROVE  MoneyInv'
<1>a. paying \in Payment /\ payments \in [Orders -> {"none", "CAPTURED", "REFUNDED"}]
  BY DEF TypeInv, TypeOK
<1>1. CASE PaymentHandler
  <2> DEFINE m == Message("payment")
             step == PaymentStep(m)
  <2>1. m \in SagaEvent
    BY <1>1, MessageIsEmitted DEF PaymentHandler, TypeInv, Services
  <2>2. UNCHANGED <<topic, resent, payments>>
    BY <1>1 DEF PaymentHandler
  <2>3. PaymentsEmitted' /\ MoneyMovesOnce'
    BY <2>2, SilentKeeps DEF MoneyInv, PaymentsEmitted, MoneyMovesOnce
  <2>4. CASE step = "idle"
    <3>1. UNCHANGED paying
      BY <1>1, <2>4 DEF PaymentHandler
    <3> QED BY <2>2, <2>3, <3>1, SilentKeeps DEF MoneyInv, PayingForTheFirstTime
  <2>5. CASE step # "idle"
    <3>1. paying' = [pc |-> step, order |-> m.order]
      BY <1>1, <2>5 DEF PaymentHandler
    <3>2. \/ step = "saveCaptured" /\ payments[m.order] = "none"
          \/ step = "saveRefunded" /\ payments[m.order] = "CAPTURED"
      BY <2>5 DEF PaymentStep
    <3> HIDE DEF step, m
    <3> QED BY <2>2, <2>3, <3>1, <3>2 DEF MoneyInv, PayingForTheFirstTime
  <2> QED BY <2>4, <2>5
<1>2. CASE SavePayment
  <2>1. /\ UNCHANGED <<topic, resent>>
        /\ paying.order \in Orders
    BY <1>2, <1>a DEF SavePayment, Payment
  <2>2. MoneyMovesOnce'
    BY <2>1, SilentKeeps DEF MoneyInv, MoneyMovesOnce
  <2>3. PaymentsEmitted'
    BY <1>2, <1>a, <2>1, SilentKeeps DEF SavePayment, MoneyInv, PaymentsEmitted,
                                         PayingForTheFirstTime
  <2>4. PayingForTheFirstTime'
    BY <1>2, <1>a, <2>1, SilentKeeps DEF SavePayment, MoneyInv, PaymentsEmitted,
                                         PayingForTheFirstTime, Payment
  <2> QED BY <2>2, <2>3, <2>4 DEF MoneyInv
<1>3. CASE EmitPayment
  <2>1. paying.order \in Orders /\ paying'.pc = "idle" /\ UNCHANGED payments
    BY <1>3, <1>a DEF EmitPayment, Payment, NoPayment
  <2>2. PICK name \in {"PAYMENT_CAPTURED", "PAYMENT_REFUNDED"}, o \in Orders :
          /\ o = paying.order
          /\ Emit(name, o) /\ UNCHANGED resent
          /\ Emitted(name, o) => SentAgain(name, o)
          /\ payments[o] # "none"
          /\ name = "PAYMENT_REFUNDED" => payments[o] = "REFUNDED"
    BY <1>3, <2>1 DEF EmitPayment, MoneyInv, PayingForTheFirstTime
  <2>3. Event(name, o) \in SagaEvent
    BY DEF Event, SagaEvent
  <2>4. /\ \A n, p : Emitted(n, p)' <=> Emitted(n, p) \/ (n = name /\ p = o)
        /\ \A n, p : SentAgain(n, p)' <=> SentAgain(n, p)
        /\ \A n, p : EmittedOnce(n, p) /\ ~ (n = name /\ p = o) => EmittedOnce(n, p)'
        /\ EmittedOnce(name, o)'
    BY <2>2, <2>3, EmitAdds DEF TypeInv, TypeOK
  <2>5. PaymentsEmitted' /\ MoneyMovesOnce'
    BY <2>1, <2>2, <2>4 DEF MoneyInv, PaymentsEmitted, MoneyMovesOnce
  <2>6. PayingForTheFirstTime'
    BY <2>1 DEF PayingForTheFirstTime
  <2> QED BY <2>5, <2>6 DEF MoneyInv
<1> QED BY <1>1, <1>2, <1>3 DEF Payer

\* The event that a producer sends again is one that its service is emitting.
LEMMA MoneyRetry ==
  ASSUME TypeInv, MoneyInv, KafkaRetries
  PROVE  MoneyInv'
<1>1. UNCHANGED <<payments, paying>>
  BY RetryAdds DEF TypeInv
<1>2. PICK name, o :
        /\ o \in Orders /\ Emits(name, o) /\ SentAgain(name, o)'
        /\ \A n, p : Emitted(n, p)' <=> Emitted(n, p) \/ (n = name /\ p = o)
  BY RetryAdds DEF TypeInv
<1>3. /\ \A n, p : SentAgain(n, p) => SentAgain(n, p)'
      /\ \A n, p : EmittedOnce(n, p) => EmittedOnce(n, p)'
  BY RetryAdds DEF TypeInv
<1>4. /\ name = "PAYMENT_CAPTURED" => payments[o] = "CAPTURED"
      /\ name = "PAYMENT_REFUNDED" => payments[o] = "REFUNDED"
  BY <1>2 DEF Emits, MoneyInv, PayingForTheFirstTime
<1>5. PaymentsEmitted' /\ MoneyMovesOnce'
  BY <1>1, <1>2, <1>3, <1>4 DEF MoneyInv, PaymentsEmitted, MoneyMovesOnce
<1>6. PayingForTheFirstTime'
  BY <1>1, <1>2, <1>3 DEF MoneyInv, PayingForTheFirstTime
<1> QED BY <1>5, <1>6 DEF MoneyInv

LEMMA MoneyStep == TypeInv /\ MoneyInv /\ [Next]_vars => MoneyInv'
<1> SUFFICES ASSUME TypeInv, MoneyInv, [Next]_vars PROVE MoneyInv'
  OBVIOUS
<1>a. paying.order \in Orders
  BY DEF TypeInv, TypeOK, Payment
<1>b. NoPayment.pc = "idle"
  BY DEF NoPayment
<1>1. CASE Payer
  BY <1>1, MoneyPayer
<1>2. ASSUME UNCHANGED <<topic, resent>>, UNCHANGED payments, paying' = paying \/ paying'.pc = "idle"
      PROVE  MoneyInv'
  BY <1>2, <1>a, SilentKeeps, MoneyElsewhere
<1>3. ASSUME NEW name \in {"ORDER_CREATED", "INVENTORY_OK", "INVENTORY_OUT_OF_STOCK"},
             NEW o \in Orders, Emit(name, o), UNCHANGED <<payments, paying, resent>>
      PROVE  MoneyInv'
  <2>1. Event(name, o) \in SagaEvent
    BY DEF Event, SagaEvent
  <2>2. /\ \A n, p : Emitted(n, p)' <=> Emitted(n, p) \/ (n = name /\ p = o)
        /\ \A n, p : SentAgain(n, p)' <=> SentAgain(n, p)
        /\ \A n, p : EmittedOnce(n, p) /\ ~ (n = name /\ p = o) => EmittedOnce(n, p)'
    BY <1>3, <2>1, EmitAdds DEF TypeInv, TypeOK
  <2>3. \A n \in {"PAYMENT_CAPTURED", "PAYMENT_REFUNDED"}, p \in Orders :
          /\ Emitted(n, p)' <=> Emitted(n, p)
          /\ SentAgain(n, p)' <=> SentAgain(n, p)
          /\ EmittedOnce(n, p) => EmittedOnce(n, p)'
    BY <2>2
  <2> QED BY <1>3, <1>a, <2>3, MoneyElsewhere
<1>4. ASSUME NEW o \in Orders, CreateOrder(o) \/ AnnounceOrder(o)
      PROVE  MoneyInv'
  BY <1>4, <1>2, <1>3 DEF CreateOrder, AnnounceOrder, paymentVars
<1>5. CASE OrderHandler \/ InventoryHandler
  BY <1>5, <1>2 DEF OrderHandler, InventoryHandler, paymentVars
<1>6. ASSUME NEW c \in Checks, Check(c)
      PROVE  MoneyInv'
  BY <1>6, <1>2 DEF Check, paymentVars
<1>7. ASSUME NEW c \in Callers, TryFulfill(c)
      PROVE  MoneyInv'
  <2>1. CASE EmitVerdict(c)
    <3>1. call[c].order \in Orders
      BY DEF TypeInv, TypeOK, Call
    <3> QED BY <2>1, <3>1, <1>3 DEF EmitVerdict, paymentVars
  <2>2. CASE FindFulfillment(c) \/ FindProduct(c) \/ SaveProduct(c) \/ SaveFulfillment(c)
    BY <2>2, <1>2 DEF FindFulfillment, FindProduct, SaveProduct, SaveFulfillment, paymentVars
  <2> QED BY <1>7, <2>1, <2>2 DEF TryFulfill
<1>8. ASSUME NEW s \in Services, HandlerFails(s) \/ Crash(s)
      PROVE  MoneyInv'
  BY <1>8, <1>b, <1>2 DEF HandlerFails, Crash, OrderBootstrap, PaymentBootstrap,
                          InventoryBootstrap, Restart
<1>9. CASE RequestFails \/ AllQuiet \/ UNCHANGED vars
  BY <1>9, <1>2 DEF RequestFails, AllQuiet, vars, paymentVars
<1> QED BY <1>1, <1>4, <1>5, <1>6, <1>7, <1>8, <1>9, MoneyRetry, NextCases

\* However often an event is delivered and whatever the POST /check requests
\* publish, an order is charged once and refunded once.
THEOREM MoneyOnce == Spec => []MoneyMovesOnce
<1>1. MoneyInv => MoneyMovesOnce
  BY DEF MoneyInv
<1> QED BY <1>1, TypeInit, TypeStep, MoneyInit, MoneyStep, PTL DEF Spec

-----------------------------------------------------------------------------
(* Agreement, when only the consumer fulfils orders and no quantity is      *)
(* negative (POST /check is not used).                                     *)

ConsumerOnly == Checks = {} /\ Quantities \subseteq Nat

\* An order's status is what a published verdict has made it, and nothing is
\* published of an order before its row exists.
OrdersInv ==
  \A o \in Orders :
    /\ orders[o].status = "COMPLETED" => Emitted("INVENTORY_OK", o)
    /\ orders[o].status = "CANCELLED" => Emitted("INVENTORY_OUT_OF_STOCK", o)
    /\ orders[o].status = "none" => o \notin announcing /\ \A n : ~ Emitted(n, o)

\* Only an order that is out of stock is refunded.
RefundsInv ==
  /\ \A o \in Orders : payments[o] = "REFUNDED" => Emitted("INVENTORY_OUT_OF_STOCK", o)
  /\ paying.pc = "saveRefunded" => Emitted("INVENTORY_OUT_OF_STOCK", paying.order)
  /\ paying.pc # "idle" => orders[paying.order].status # "none"

\* The published verdicts agree with the tables, and will when the consumer
\* handles the order again: the stock of an order that is out of stock is not
\* replenished.
VerdictsInv ==
  \A o \in Orders :
    /\ Emitted("INVENTORY_OK", o) => o \in fulfilled
    /\ o \in fulfilled => Emitted("PAYMENT_CAPTURED", o)
                          /\ ~ Emitted("INVENTORY_OUT_OF_STOCK", o)
    /\ Emitted("INVENTORY_OUT_OF_STOCK", o) => stock[orders[o].product] < orders[o].quantity
    /\ EmittedOnce("INVENTORY_OK", o)

\* What the consumer's call has learnt is still true.
CallInv ==
  LET c == call["inventory"]
      o == c.order
  IN  c.pc # "idle" =>
        /\ c.product = orders[o].product /\ c.quantity = orders[o].quantity
        /\ Emitted("PAYMENT_CAPTURED", o)
        /\ c.pc \in {"findProduct", "saveProduct", "saveFulfillment", "emitOutOfStock"}
             => o \notin fulfilled
        /\ c.pc = "saveProduct" => c.left = stock[c.product] - c.quantity /\ c.left >= 0
        /\ c.pc \in {"saveProduct", "saveFulfillment"}
             => ~ Emitted("INVENTORY_OUT_OF_STOCK", o)
        /\ c.pc = "emitOk" =>
             o \in fulfilled /\ (Emitted("INVENTORY_OK", o) => SentAgain("INVENTORY_OK", o))
        /\ c.pc = "emitOutOfStock" => stock[c.product] < c.quantity

SagaInv == OrdersInv /\ RefundsInv /\ VerdictsInv /\ CallInv
IInv == TypeInv /\ MoneyInv /\ SagaInv

LEMMA SagaInit == Init => SagaInv
<1> SUFFICES ASSUME Init PROVE SagaInv
  OBVIOUS
<1>1. NoPayment.pc = "idle" /\ NoCall.pc = "idle" /\ NoOrder.status = "none"
  BY DEF NoPayment, NoCall, NoOrder
<1>2. \A n, o : ~ Emitted(n, o) /\ EmittedOnce(n, o)
  BY DEF Init, Emitted, EmittedOnce, Once
<1>3. OrdersInv /\ RefundsInv /\ VerdictsInv
  BY <1>1, <1>2 DEF Init, OrdersInv, RefundsInv, VerdictsInv
<1>4. CallInv
  BY <1>1 DEF Init, CallInv, Callers
<1> QED BY <1>3, <1>4 DEF SagaInv

\* The order service.
LEMMA SagaCreateOrder ==
  ASSUME IInv, NEW o \in Orders, CreateOrder(o)
  PROVE  SagaInv'
<1>1. /\ \A n, p : (Emitted(n, p)' <=> Emitted(n, p)) /\ (SentAgain(n, p)' <=> SentAgain(n, p))
      /\ \A n, p : EmittedOnce(n, p)' <=> EmittedOnce(n, p)
  BY SilentKeeps DEF CreateOrder
<1>2. /\ \A n : ~ Emitted(n, o)
      /\ orders[o].status = "none" /\ orders'[o].status = "PENDING"
      /\ \A p \in Orders \ {o} : orders'[p] = orders[p]
      /\ announcing' = announcing \cup {o}
      /\ UNCHANGED <<payments, paying, stock, fulfilled, call>>
  BY DEF CreateOrder, IInv, SagaInv, OrdersInv, TypeInv, TypeOK, paymentVars, inventoryVars
<1>3. OrdersInv'
  BY <1>1, <1>2 DEF IInv, SagaInv, OrdersInv
<1>4. RefundsInv'
  BY <1>1, <1>2 DEF IInv, SagaInv, RefundsInv, TypeInv, TypeOK, Payment
<1>5. VerdictsInv'
  BY <1>1, <1>2 DEF IInv, SagaInv, VerdictsInv
<1>6. CallInv'
  BY <1>1, <1>2 DEF IInv, SagaInv, CallInv, TypeInv, TypeOK, Call, Callers
<1> QED BY <1>3, <1>4, <1>5, <1>6 DEF SagaInv

\* What the message in the order handler may do to its order.
LEMMA VerdictIsFinal ==
  ASSUME IInv, HasMessage("order")
  PROVE  LET m == Message("order")
             old == orders[m.order].status
             new == StatusAfter(m, old)
         IN  /\ old # "none"
             /\ new # "none"
             /\ old \in {"COMPLETED", "CANCELLED"} => new = old
             /\ new = "COMPLETED" => Emitted("INVENTORY_OK", m.order)
             /\ new = "CANCELLED" => Emitted("INVENTORY_OUT_OF_STOCK", m.order)
<1> DEFINE m == Message("order")
           o == m.order
           old == orders[o].status
<1>1. m \in SagaEvent /\ Emitted(m.event, o)
  BY MessageIsEmitted DEF IInv, TypeInv, Services
<1>2. o \in Orders
  BY <1>1 DEF SagaEvent
<1>3. old \in {"PENDING", "COMPLETED", "CANCELLED"}
  BY <1>1, <1>2 DEF IInv, SagaInv, OrdersInv, TypeInv, TypeOK, OrderRow
<1>4. m.event = "PAYMENT_REFUNDED" => Emitted("INVENTORY_OUT_OF_STOCK", o)
  BY <1>1, <1>2 DEF IInv, MoneyInv, PaymentsEmitted, SagaInv, RefundsInv
<1>5. ~ (Emitted("INVENTORY_OK", o) /\ Emitted("INVENTORY_OUT_OF_STOCK", o))
  BY <1>2 DEF IInv, SagaInv, VerdictsInv
<1>6. /\ old = "COMPLETED" => Emitted("INVENTORY_OK", o)
      /\ old = "CANCELLED" => Emitted("INVENTORY_OUT_OF_STOCK", o)
  BY <1>2 DEF IInv, SagaInv, OrdersInv
<1>7. /\ StatusAfter(m, old) # "none"
      /\ old \in {"COMPLETED", "CANCELLED"} => StatusAfter(m, old) = old
      /\ StatusAfter(m, old) = "COMPLETED" => Emitted("INVENTORY_OK", o)
      /\ StatusAfter(m, old) = "CANCELLED" => Emitted("INVENTORY_OUT_OF_STOCK", o)
  <2> HIDE DEF m, old
  <2> QED BY <1>1, <1>3, <1>4, <1>5, <1>6 DEF StatusAfter
<1> QED BY <1>3, <1>7

LEMMA SagaOrderHandler ==
  ASSUME IInv, OrderHandler
  PROVE  SagaInv'
<1> DEFINE m == Message("order")
<1>1. /\ \A n, p : (Emitted(n, p)' <=> Emitted(n, p)) /\ (SentAgain(n, p)' <=> SentAgain(n, p))
      /\ \A n, p : EmittedOnce(n, p)' <=> EmittedOnce(n, p)
  BY SilentKeeps DEF OrderHandler
<1>2. m.order \in Orders
  BY MessageIsEmitted DEF OrderHandler, IInv, TypeInv, Services, SagaEvent
<1>3. orders' = [orders EXCEPT ![m.order].status = StatusAfter(m, @)]
  BY VerdictIsFinal DEF OrderHandler
<1>4. /\ \A o \in Orders \ {m.order} : orders'[o] = orders[o]
      /\ orders'[m.order].status = StatusAfter(m, orders[m.order].status)
      /\ \A o \in Orders : /\ orders'[o].product = orders[o].product
                           /\ orders'[o].quantity = orders[o].quantity
  BY <1>2, <1>3 DEF IInv, TypeInv, TypeOK, OrderRow
<1>5. UNCHANGED <<announcing, payments, paying, stock, fulfilled, call>>
  BY DEF OrderHandler, paymentVars, inventoryVars
<1>6. /\ StatusAfter(m, orders[m.order].status) # "none"
      /\ StatusAfter(m, orders[m.order].status) = "COMPLETED"
           => Emitted("INVENTORY_OK", m.order)
      /\ StatusAfter(m, orders[m.order].status) = "CANCELLED"
           => Emitted("INVENTORY_OUT_OF_STOCK", m.order)
  BY VerdictIsFinal DEF OrderHandler
<1> HIDE DEF m
<1>7. OrdersInv'
  BY <1>1, <1>4, <1>5, <1>6 DEF IInv, SagaInv, OrdersInv
<1>8. RefundsInv'
  BY <1>1, <1>4, <1>5, <1>6 DEF IInv, SagaInv, RefundsInv, TypeInv, TypeOK, Payment
<1>9. VerdictsInv'
  BY <1>1, <1>4, <1>5 DEF IInv, SagaInv, VerdictsInv
<1>10. CallInv'
  BY <1>1, <1>4, <1>5 DEF IInv, SagaInv, CallInv, TypeInv, TypeOK, Call, Callers
<1> QED BY <1>7, <1>8, <1>9, <1>10 DEF SagaInv

\* A step that changes no order, no stock and no fulfillment, starts no handler
\* and publishes at most an event that is not a verdict.
LEMMA SagaElsewhere ==
  ASSUME IInv, UNCHANGED <<orders, stock, fulfilled>>,
         announcing' \subseteq announcing,
         call'["inventory"] = call["inventory"] \/ call'["inventory"].pc = "idle",
         \A n, p : Emitted(n, p) => Emitted(n, p)',
         \A n, p : SentAgain(n, p) => SentAgain(n, p)',
         \A n : \A p \in Orders :
           Emitted(n, p)' => Emitted(n, p) \/ orders[p].status # "none",
         \A n \in {"INVENTORY_OK", "INVENTORY_OUT_OF_STOCK"}, p \in Orders :
           (Emitted(n, p)' => Emitted(n, p)) /\ (EmittedOnce(n, p) => EmittedOnce(n, p)'),
         RefundsInv'
  PROVE  SagaInv'
<1>1. OrdersInv'
  BY DEF IInv, SagaInv, OrdersInv
<1>2. VerdictsInv'
  BY DEF IInv, SagaInv, VerdictsInv
<1>3. call["inventory"].order \in Orders
  BY DEF IInv, TypeInv, TypeOK, Call, Callers
<1>4. CallInv'
  BY <1>3 DEF IInv, SagaInv, CallInv
<1> QED BY <1>1, <1>2, <1>4 DEF SagaInv

\* The same, when the step publishes nothing at all.
LEMMA SagaSilent ==
  ASSUME IInv, UNCHANGED <<orders, stock, fulfilled, topic, resent>>,
         announcing' \subseteq announcing,
         call'["inventory"] = call["inventory"] \/ call'["inventory"].pc = "idle",
         RefundsInv'
  PROVE  SagaInv'
<1>1. /\ \A n, p : (Emitted(n, p)' <=> Emitted(n, p)) /\ (SentAgain(n, p)' <=> SentAgain(n, p))
      /\ \A n, p : EmittedOnce(n, p)' <=> EmittedOnce(n, p)
  BY SilentKeeps
<1> QED BY <1>1, SagaElsewhere

LEMMA SagaAnnounceOrder ==
  ASSUME IInv, NEW o \in Orders, AnnounceOrder(o)
  PROVE  SagaInv'
<1>1. Event("ORDER_CREATED", o) \in SagaEvent
  BY DEF Event, SagaEvent
<1>2. /\ \A n, p : Emitted(n, p)' <=> Emitted(n, p) \/ (n = "ORDER_CREATED" /\ p = o)
      /\ \A n, p : SentAgain(n, p)' <=> SentAgain(n, p)
      /\ \A n, p : EmittedOnce(n, p) /\ ~ (n = "ORDER_CREATED" /\ p = o) => EmittedOnce(n, p)'
  BY <1>1, EmitAdds DEF AnnounceOrder, IInv, TypeInv, TypeOK
<1>3. orders[o].status # "none"
  BY DEF AnnounceOrder, IInv, SagaInv, OrdersInv
<1>4. UNCHANGED <<orders, stock, fulfilled, call, payments, paying>> /\ announcing' \subseteq announcing
  BY DEF AnnounceOrder, paymentVars, inventoryVars
<1>5. RefundsInv'
  BY <1>2, <1>4 DEF IInv, SagaInv, RefundsInv, TypeInv, TypeOK, Payment
<1> QED BY <1>2, <1>3, <1>4, <1>5, SagaElsewhere

\* The payment service.
LEMMA SagaPayer ==
  ASSUME IInv, Payer
  PROVE  SagaInv'
<1>a. /\ paying.order \in Orders
      /\ paying \in Payment /\ payments \in [Orders -> {"none", "CAPTURED", "REFUNDED"}]
      /\ UNCHANGED <<orders, announcing, stock, fulfilled, call>>
  BY DEF IInv, TypeInv, TypeOK, Payment, Payer, PaymentHandler, SavePayment, EmitPayment,
         orderVars, inventoryVars
<1>1. CASE PaymentHandler
  <2> DEFINE m == Message("payment")
             step == PaymentStep(m)
  <2>1. m \in SagaEvent /\ Emitted(m.event, m.order)
    BY <1>1, MessageIsEmitted DEF PaymentHandler, IInv, TypeInv, Services
  <2>2. orders[m.order].status # "none"
    BY <2>1 DEF SagaEvent, IInv, SagaInv, OrdersInv
  <2>3. UNCHANGED <<topic, resent, payments>>
    BY <1>1 DEF PaymentHandler
  <2>4. \A n, p : Emitted(n, p)' <=> Emitted(n, p)
    BY <2>3, SilentKeeps
  <2>5. CASE step = "idle"
    <3>1. UNCHANGED paying
      BY <1>1, <2>5 DEF PaymentHandler
    <3>2. RefundsInv'
      BY <1>a, <2>3, <2>4, <3>1 DEF IInv, SagaInv, RefundsInv
    <3> QED BY <1>a, <2>3, <3>2, SagaSilent
  <2>6. CASE step # "idle"
    <3>1. paying' = [pc |-> step, order |-> m.order]
      BY <1>1, <2>6 DEF PaymentHandler
    <3>2. step = "saveRefunded" => Emitted("INVENTORY_OUT_OF_STOCK", m.order)
      BY <2>1 DEF PaymentStep
    <3>3. RefundsInv'
      <4> HIDE DEF step, m
      <4> QED BY <1>a, <2>2, <2>3, <2>4, <3>1, <3>2 DEF IInv, SagaInv, RefundsInv
    <3> QED BY <1>a, <2>3, <3>3, SagaSilent
  <2> QED BY <2>5, <2>6
<1>2. CASE SavePayment
  <2>1. UNCHANGED <<topic, resent>>
    BY <1>2 DEF SavePayment
  <2>2. \A n, p : Emitted(n, p)' <=> Emitted(n, p)
    BY <2>1, SilentKeeps
  <2>3. RefundsInv'
    BY <1>2, <1>a, <2>2 DEF SavePayment, IInv, SagaInv, RefundsInv, Payment
  <2> QED BY <1>a, <2>1, <2>3, SagaSilent
<1>3. CASE EmitPayment
  <2>1. PICK name \in {"PAYMENT_CAPTURED", "PAYMENT_REFUNDED"}, o \in Orders :
          o = paying.order /\ Emit(name, o) /\ UNCHANGED resent /\ paying.pc # "idle"
    BY <1>3, <1>a DEF EmitPayment
  <2>2. Event(name, o) \in SagaEvent
    BY DEF Event, SagaEvent
  <2>3. /\ \A n, p : Emitted(n, p)' <=> Emitted(n, p) \/ (n = name /\ p = o)
        /\ \A n, p : SentAgain(n, p)' <=> SentAgain(n, p)
        /\ \A n, p : EmittedOnce(n, p) /\ ~ (n = name /\ p = o) => EmittedOnce(n, p)'
    BY <2>1, <2>2, EmitAdds DEF IInv, TypeInv, TypeOK
  <2>4. orders[o].status # "none"
    BY <2>1 DEF IInv, SagaInv, RefundsInv
  <2>5. paying'.pc = "idle" /\ UNCHANGED payments
    BY <1>3 DEF EmitPayment, NoPayment
  <2>6. RefundsInv'
    BY <2>3, <2>5 DEF IInv, SagaInv, RefundsInv
  <2> QED BY <1>a, <2>3, <2>4, <2>6, SagaElsewhere
<1> QED BY <1>1, <1>2, <1>3 DEF Payer

LEMMA SagaFailures ==
  ASSUME IInv, ConsumerOnly,
         (\E s \in Services : HandlerFails(s) \/ Crash(s)) \/ RequestFails
  PROVE  SagaInv'
<1>1. NoPayment.pc = "idle" /\ NoCall.pc = "idle"
  BY DEF NoPayment, NoCall
<1>2. /\ UNCHANGED <<orders, payments, stock, fulfilled, topic, resent>>
      /\ announcing' \subseteq announcing
      /\ paying' = paying \/ paying'.pc = "idle"
  BY <1>1 DEF HandlerFails, Crash, OrderBootstrap, PaymentBootstrap, InventoryBootstrap,
              Restart, RequestFails, orderVars, paymentVars
<1>3. call'["inventory"] = call["inventory"] \/ call'["inventory"].pc = "idle"
  BY <1>1 DEF HandlerFails, Crash, OrderBootstrap, PaymentBootstrap, InventoryBootstrap,
              RequestFails, ConsumerOnly, Callers, IInv, TypeInv, TypeOK
<1>4. \A n, p : Emitted(n, p)' <=> Emitted(n, p)
  BY <1>2, SilentKeeps
<1>5. RefundsInv'
  BY <1>2, <1>4 DEF IInv, SagaInv, RefundsInv, TypeInv, TypeOK, Payment
<1> QED BY <1>2, <1>3, <1>5, SagaSilent

\* The inventory service.
LEMMA SagaInventoryHandler ==
  ASSUME IInv, InventoryHandler
  PROVE  SagaInv'
<1> DEFINE m == Message("inventory")
<1>1. m \in SagaEvent /\ Emitted(m.event, m.order) /\ m.order \in Orders
  BY MessageIsEmitted DEF InventoryHandler, IInv, TypeInv, Services, SagaEvent
<1>2. UNCHANGED <<orders, announcing, payments, paying, stock, fulfilled, topic, resent>>
  BY DEF InventoryHandler, orderVars, paymentVars
<1>3. /\ \A n, p : (Emitted(n, p)' <=> Emitted(n, p)) /\ (SentAgain(n, p)' <=> SentAgain(n, p))
      /\ \A n, p : EmittedOnce(n, p)' <=> EmittedOnce(n, p)
  BY <1>2, SilentKeeps
<1>4. OrdersInv' /\ RefundsInv' /\ VerdictsInv'
  BY <1>2, <1>3 DEF IInv, SagaInv, OrdersInv, RefundsInv, VerdictsInv
<1>5. CASE m.event = "PAYMENT_CAPTURED"
  <2>1. call'["inventory"] = [pc |-> "findFulfillment", order |-> m.order,
                              product |-> orders[m.order].product,
                              quantity |-> orders[m.order].quantity, left |-> 0]
    BY <1>5 DEF InventoryHandler, IInv, TypeInv, TypeOK, Callers
  <2>2. CallInv'
    <3> HIDE DEF m
    <3> QED BY <1>1, <1>2, <1>3, <1>5, <2>1 DEF CallInv
  <2> QED BY <1>4, <2>2 DEF SagaInv
<1>6. CASE m.event # "PAYMENT_CAPTURED"
  <2>1. UNCHANGED call
    BY <1>6 DEF InventoryHandler
  <2>2. CallInv'
    BY <1>2, <1>3, <2>1 DEF IInv, SagaInv, CallInv, TypeInv, TypeOK, Call, Callers
  <2> QED BY <1>4, <2>2 DEF SagaInv
<1> QED BY <1>5, <1>6

LEMMA SagaTryFulfill ==
  ASSUME IInv, ConsumerOnly, TryFulfill("inventory")
  PROVE  SagaInv'
<1> DEFINE c == call["inventory"]
           o == c.order
<1>a. /\ c \in Call /\ o \in Orders /\ c.product \in Products
      /\ c.quantity \in Nat /\ c.left \in Int
      /\ stock \in [Products -> Int]
      /\ \A p \in Orders : orders[p].product \in Products /\ orders[p].quantity \in Nat
      /\ call \in [Callers -> Call] /\ "inventory" \in Callers
  BY DEF IInv, TypeInv, TypeOK, Call, Callers, OrderRow, ConsumerOnly
<1>b. NoCall.pc = "idle"
  BY DEF NoCall
<1>c. c.pc # "idle" /\ UNCHANGED <<orders, announcing, payments, paying>>
  BY DEF TryFulfill, FindFulfillment, FindProduct, SaveProduct, SaveFulfillment,
         EmitVerdict, orderVars, paymentVars
<1>d. /\ c.product = orders[o].product /\ c.quantity = orders[o].quantity
      /\ Emitted("PAYMENT_CAPTURED", o)
  BY <1>c DEF IInv, SagaInv, CallInv
<1>1. CASE FindFulfillment("inventory")
  <2>1. UNCHANGED <<stock, fulfilled, topic, resent>>
    BY <1>1 DEF FindFulfillment
  <2>2. /\ \A n, p : (Emitted(n, p)' <=> Emitted(n, p)) /\ (SentAgain(n, p)' <=> SentAgain(n, p))
        /\ \A n, p : EmittedOnce(n, p)' <=> EmittedOnce(n, p)
    BY <2>1, SilentKeeps
  <2>3. RefundsInv'
    BY <1>c, <2>2 DEF IInv, SagaInv, RefundsInv
  <2>4. OrdersInv' /\ VerdictsInv'
    BY <1>c, <2>1, <2>2 DEF IInv, SagaInv, OrdersInv, VerdictsInv
  <2>5. CallInv'
    <3>1. CASE o \in fulfilled
      <4>1. call'["inventory"].pc = "idle"
        BY <1>1, <1>a, <1>b, <3>1 DEF FindFulfillment, Return
      <4> QED BY <4>1 DEF CallInv
    <3>2. CASE o \notin fulfilled
      <4>1. call'["inventory"] = [c EXCEPT !.pc = "findProduct"]
        BY <1>1, <1>a, <3>2 DEF FindFulfillment
      <4>2. /\ call'["inventory"].pc = "findProduct" /\ call'["inventory"].order = o
            /\ call'["inventory"].product = c.product
            /\ call'["inventory"].quantity = c.quantity
        BY <1>a, <4>1 DEF Call
      <4> HIDE DEF c
      <4> QED BY <1>c, <1>d, <2>1, <2>2, <3>2, <4>2 DEF CallInv
    <3> QED BY <3>1, <3>2
  <2> QED BY <2>3, <2>4, <2>5 DEF SagaInv
<1>2. CASE FindProduct("inventory")
  <2>1. UNCHANGED <<stock, fulfilled, topic, resent>> /\ c.pc = "findProduct"
    BY <1>2 DEF FindProduct
  <2>2. /\ \A n, p : (Emitted(n, p)' <=> Emitted(n, p)) /\ (SentAgain(n, p)' <=> SentAgain(n, p))
        /\ \A n, p : EmittedOnce(n, p)' <=> EmittedOnce(n, p)
    BY <2>1, SilentKeeps
  <2>3. RefundsInv'
    BY <1>c, <2>2 DEF IInv, SagaInv, RefundsInv
  <2>4. OrdersInv' /\ VerdictsInv'
    BY <1>c, <2>1, <2>2 DEF IInv, SagaInv, OrdersInv, VerdictsInv
  <2>5. /\ call'["inventory"].order = o
        /\ call'["inventory"].product = c.product
        /\ call'["inventory"].quantity = c.quantity
        /\ IF stock[c.product] < c.quantity
           THEN call'["inventory"].pc = "emitOutOfStock"
           ELSE /\ call'["inventory"].pc = "saveProduct"
                /\ call'["inventory"].left = stock[c.product] - c.quantity
    BY <1>2, <1>a DEF FindProduct, Call
  <2>6. o \notin fulfilled
    BY <2>1 DEF IInv, SagaInv, CallInv
  <2>7. Emitted("INVENTORY_OUT_OF_STOCK", o) => stock[c.product] < c.quantity
    BY <1>a, <1>d DEF IInv, SagaInv, VerdictsInv
  <2>8. stock[c.product] \in Int
    BY <1>a
  <2>9. CallInv'
    <3> HIDE DEF c
    <3> QED BY <1>a, <1>c, <1>d, <2>1, <2>2, <2>5, <2>6, <2>7, <2>8 DEF CallInv
  <2> QED BY <2>3, <2>4, <2>9 DEF SagaInv
<1>3. CASE SaveProduct("inventory")
  <2>1. /\ c.pc = "saveProduct" /\ UNCHANGED <<fulfilled, topic, resent>>
        /\ stock' = [stock EXCEPT ![c.product] = c.left]
        /\ call' = [call EXCEPT !["inventory"].pc = "saveFulfillment"]
    BY <1>3 DEF SaveProduct
  <2>2. /\ \A n, p : (Emitted(n, p)' <=> Emitted(n, p)) /\ (SentAgain(n, p)' <=> SentAgain(n, p))
        /\ \A n, p : EmittedOnce(n, p)' <=> EmittedOnce(n, p)
    BY <2>1, SilentKeeps
  <2>3. RefundsInv' /\ OrdersInv'
    BY <1>c, <2>2 DEF IInv, SagaInv, RefundsInv, OrdersInv
  <2>4. /\ c.left = stock[c.product] - c.quantity
        /\ o \notin fulfilled /\ ~ Emitted("INVENTORY_OUT_OF_STOCK", o)
    BY <2>1 DEF IInv, SagaInv, CallInv
  <2>5. \A p \in Products : stock'[p] \in Int /\ stock'[p] <= stock[p]
    BY <1>a, <2>1, <2>4
  <2>6. ASSUME NEW p \in Orders, Emitted("INVENTORY_OUT_OF_STOCK", p)
        PROVE  stock'[orders[p].product] < orders[p].quantity
    <3>1. stock[orders[p].product] < orders[p].quantity
      BY <2>6 DEF IInv, SagaInv, VerdictsInv
    <3>2. /\ stock[orders[p].product] \in Int /\ orders[p].quantity \in Nat
          /\ stock'[orders[p].product] \in Int
          /\ stock'[orders[p].product] <= stock[orders[p].product]
      BY <1>a, <2>5
    <3> QED BY <3>1, <3>2
  <2>7. VerdictsInv'
    BY <1>c, <2>1, <2>2, <2>6 DEF IInv, SagaInv, VerdictsInv
  <2>8. /\ call'["inventory"].pc = "saveFulfillment" /\ call'["inventory"].order = o
        /\ call'["inventory"].product = c.product
        /\ call'["inventory"].quantity = c.quantity
    BY <1>a, <2>1 DEF Call
  <2>9. CallInv'
    <3> HIDE DEF c
    <3> QED BY <1>c, <1>d, <2>1, <2>2, <2>4, <2>8 DEF CallInv
  <2> QED BY <2>3, <2>7, <2>9 DEF SagaInv
<1>4. CASE SaveFulfillment("inventory")
  <2>1. /\ c.pc = "saveFulfillment" /\ UNCHANGED <<stock, topic, resent>>
        /\ fulfilled' = fulfilled \cup {o}
        /\ call' = [call EXCEPT !["inventory"].pc = "emitOk"]
    BY <1>4 DEF SaveFulfillment
  <2>2. /\ \A n, p : (Emitted(n, p)' <=> Emitted(n, p)) /\ (SentAgain(n, p)' <=> SentAgain(n, p))
        /\ \A n, p : EmittedOnce(n, p)' <=> EmittedOnce(n, p)
    BY <2>1, SilentKeeps
  <2>3. RefundsInv' /\ OrdersInv'
    BY <1>c, <2>2 DEF IInv, SagaInv, RefundsInv, OrdersInv
  <2>4. o \notin fulfilled /\ ~ Emitted("INVENTORY_OUT_OF_STOCK", o)
    BY <2>1 DEF IInv, SagaInv, CallInv
  <2>5. ~ Emitted("INVENTORY_OK", o)
    BY <1>a, <2>4 DEF IInv, SagaInv, VerdictsInv
  <2>6. VerdictsInv'
    BY <1>c, <1>d, <2>1, <2>2, <2>4 DEF IInv, SagaInv, VerdictsInv
  <2>7. /\ call'["inventory"].pc = "emitOk" /\ call'["inventory"].order = o
        /\ call'["inventory"].product = c.product
        /\ call'["inventory"].quantity = c.quantity
    BY <1>a, <2>1 DEF Call
  <2>8. CallInv'
    <3> HIDE DEF c
    <3> QED BY <1>c, <1>d, <2>1, <2>2, <2>5, <2>7 DEF CallInv
  <2> QED BY <2>3, <2>6, <2>8 DEF SagaInv
<1>5. CASE EmitVerdict("inventory")
  <2>1. UNCHANGED <<stock, fulfilled>> /\ call'["inventory"].pc = "idle"
    BY <1>5, <1>a, <1>b DEF EmitVerdict, Return
  <2>2. PICK name \in {"INVENTORY_OK", "INVENTORY_OUT_OF_STOCK"}, q \in Orders :
          /\ q = o /\ Emit(name, q) /\ UNCHANGED resent
          /\ name = "INVENTORY_OK" => c.pc = "emitOk"
          /\ name = "INVENTORY_OUT_OF_STOCK" => c.pc = "emitOutOfStock"
    BY <1>5, <1>a DEF EmitVerdict
  <2>3. Event(name, q) \in SagaEvent
    BY DEF Event, SagaEvent
  <2>4. /\ \A n, p : Emitted(n, p)' <=> Emitted(n, p) \/ (n = name /\ p = q)
        /\ \A n, p : EmittedOnce(n, p) /\ ~ (n = name /\ p = q) => EmittedOnce(n, p)'
        /\ (Emitted(name, q) => SentAgain(name, q)) => EmittedOnce(name, q)'
    BY <2>2, <2>3, EmitAdds DEF IInv, TypeInv, TypeOK
  <2>5. /\ name = "INVENTORY_OK"
             => q \in fulfilled /\ (Emitted(name, q) => SentAgain(name, q))
        /\ name = "INVENTORY_OUT_OF_STOCK"
             => q \notin fulfilled /\ stock[orders[q].product] < orders[q].quantity
    BY <1>d, <2>2 DEF IInv, SagaInv, CallInv
  <2>6. orders[q].status # "none"
    BY <1>d, <2>2 DEF IInv, SagaInv, OrdersInv
  <2>7. OrdersInv'
    BY <1>c, <2>4, <2>6 DEF IInv, SagaInv, OrdersInv
  <2>8. RefundsInv'
    BY <1>c, <2>4 DEF IInv, SagaInv, RefundsInv
  <2>9. VerdictsInv'
    BY <1>c, <2>1, <2>4, <2>5 DEF IInv, SagaInv, VerdictsInv
  <2>10. CallInv'
    BY <2>1 DEF CallInv
  <2> QED BY <2>7, <2>8, <2>9, <2>10 DEF SagaInv
<1> QED BY <1>1, <1>2, <1>3, <1>4, <1>5 DEF TryFulfill

\* A producer sends an event again: the table it reports has been saved before.
LEMMA SagaRetry ==
  ASSUME IInv, ConsumerOnly, KafkaRetries
  PROVE  SagaInv'
<1> DEFINE c == call["inventory"]
<1>1. UNCHANGED <<orders, announcing, payments, paying, stock, fulfilled, call>>
  BY RetryAdds DEF IInv, TypeInv
<1>2. PICK name, o :
        /\ o \in Orders /\ Emits(name, o) /\ SentAgain(name, o)'
        /\ \A n, p : Emitted(n, p)' <=> Emitted(n, p) \/ (n = name /\ p = o)
  BY RetryAdds DEF IInv, TypeInv
<1>3. /\ \A n, p : SentAgain(n, p) => SentAgain(n, p)'
      /\ \A n, p : EmittedOnce(n, p) => EmittedOnce(n, p)'
  BY RetryAdds DEF IInv, TypeInv
<1>4. /\ name \in {"INVENTORY_OK", "INVENTORY_OUT_OF_STOCK"} => o = c.order
      /\ name = "INVENTORY_OK" => c.pc = "emitOk"
      /\ name = "INVENTORY_OUT_OF_STOCK" => c.pc = "emitOutOfStock"
  BY <1>2 DEF Emits, ConsumerOnly, Callers
<1>5. /\ name = "INVENTORY_OK" => o \in fulfilled
      /\ name = "INVENTORY_OUT_OF_STOCK" =>
           o \notin fulfilled /\ stock[orders[o].product] < orders[o].quantity
  BY <1>4 DEF IInv, SagaInv, CallInv
<1>6. orders[o].status # "none"
  <2>1. name = "ORDER_CREATED" => o \in announcing
    BY <1>2 DEF Emits
  <2>2. name \in {"PAYMENT_CAPTURED", "PAYMENT_REFUNDED"} => o = paying.order /\ paying.pc # "idle"
    BY <1>2 DEF Emits
  <2>3. name \in {"INVENTORY_OK", "INVENTORY_OUT_OF_STOCK"} => Emitted("PAYMENT_CAPTURED", o)
    BY <1>4 DEF IInv, SagaInv, CallInv
  <2>4. name \in {"ORDER_CREATED", "PAYMENT_CAPTURED", "PAYMENT_REFUNDED", "INVENTORY_OK",
                 "INVENTORY_OUT_OF_STOCK"}
    BY <1>2 DEF Emits
  <2> QED BY <1>2, <2>1, <2>2, <2>3, <2>4 DEF IInv, SagaInv, OrdersInv, RefundsInv
<1>7. OrdersInv'
  BY <1>1, <1>2, <1>6 DEF IInv, SagaInv, OrdersInv
<1>8. RefundsInv'
  BY <1>1, <1>2 DEF IInv, SagaInv, RefundsInv
<1>9. VerdictsInv'
  BY <1>1, <1>2, <1>3, <1>5 DEF IInv, SagaInv, VerdictsInv
<1>10. CallInv'
  BY <1>1, <1>2, <1>3, <1>4 DEF IInv, SagaInv, CallInv
<1> QED BY <1>7, <1>8, <1>9, <1>10 DEF SagaInv

LEMMA SagaStep == ConsumerOnly /\ IInv /\ [Next]_vars => SagaInv'
<1> SUFFICES ASSUME ConsumerOnly, IInv, [Next]_vars PROVE SagaInv'
  OBVIOUS
<1>1. Callers = {"inventory"} /\ Checks = {}
  BY DEF ConsumerOnly, Callers
<1>2. CASE AllQuiet \/ UNCHANGED vars
  <2>1. UNCHANGED vars
    BY <1>2 DEF AllQuiet
  <2>2. \A n, p : Emitted(n, p)' <=> Emitted(n, p)
    BY <2>1, SilentKeeps DEF vars
  <2>3. RefundsInv'
    BY <2>1, <2>2 DEF vars, IInv, SagaInv, RefundsInv
  <2> QED BY <2>1, <2>3, SagaSilent DEF vars
<1>3. CASE Next /\ ~ AllQuiet
  BY <1>1, <1>3, SagaCreateOrder, SagaAnnounceOrder, SagaOrderHandler, SagaPayer,
     SagaInventoryHandler, SagaTryFulfill, SagaFailures, SagaRetry, NextCases
<1> QED BY <1>2, <1>3

-----------------------------------------------------------------------------
(* What the invariant says of the saga.                                    *)

LEMMA SagaInvariance == ASSUME ConsumerOnly PROVE Spec => []IInv
<1>1. Init => IInv
  BY TypeInit, MoneyInit, SagaInit DEF IInv
<1>2. IInv /\ [Next]_vars => IInv'
  BY TypeStep, MoneyStep, SagaStep DEF IInv
<1> QED BY <1>1, <1>2, PTL DEF Spec

\* The inventory service never publishes both verdicts of an order, nor that it
\* is fulfilled twice, however often it handles the order.
THEOREM OneVerdictPerOrder == ASSUME ConsumerOnly PROVE Spec => []OneVerdict
<1>1. IInv => OneVerdict
  BY DEF IInv, SagaInv, VerdictsInv, OneVerdict
<1> QED BY <1>1, SagaInvariance, PTL

\* The three databases agree on the outcome of an order.
THEOREM ServicesAgree == ASSUME ConsumerOnly PROVE Spec => []OutcomesAgree
<1>1. IInv => OutcomesAgree
  <2> SUFFICES ASSUME IInv, NEW o \in Orders
               PROVE  /\ orders[o].status = "COMPLETED"
                           => payments[o] = "CAPTURED" /\ o \in fulfilled
                      /\ payments[o] = "REFUNDED" => o \notin fulfilled
    BY DEF OutcomesAgree
  <2>1. payments[o] = "REFUNDED" => o \notin fulfilled
    BY DEF IInv, SagaInv, RefundsInv, VerdictsInv
  <2>2. o \in fulfilled => payments[o] # "none"
    BY DEF IInv, MoneyInv, PaymentsEmitted, SagaInv, VerdictsInv
  <2>3. orders[o].status = "COMPLETED" => o \in fulfilled
    BY DEF IInv, SagaInv, OrdersInv, VerdictsInv
  <2>4. payments[o] \in {"none", "CAPTURED", "REFUNDED"}
    BY DEF IInv, TypeInv, TypeOK
  <2> QED BY <2>1, <2>2, <2>3, <2>4
<1> QED BY <1>1, SagaInvariance, PTL

\* An order that is completed or cancelled keeps its status in every step.
LEMMA FinalStep ==
  ASSUME IInv, Next
  PROVE  \A o \in Orders : orders[o].status \in {"COMPLETED", "CANCELLED"}
                             => orders'[o].status = orders[o].status
<1> DEFINE Final == \A o \in Orders :
                      orders[o].status \in {"COMPLETED", "CANCELLED"}
                        => orders'[o].status = orders[o].status
<1>1. ASSUME NEW o \in Orders, CreateOrder(o) PROVE Final
  BY <1>1 DEF CreateOrder, IInv, TypeInv, TypeOK
<1>2. CASE OrderHandler
  <2>1. Message("order").order \in Orders
    BY <1>2, MessageIsEmitted DEF OrderHandler, IInv, TypeInv, Services, SagaEvent
  <2> QED BY <1>2, <2>1, VerdictIsFinal DEF OrderHandler, IInv, TypeInv, TypeOK, OrderRow
<1>3. CASE UNCHANGED orders
  BY <1>3
<1>4. ASSUME NEW s \in Services, HandlerFails(s) \/ Crash(s) PROVE Final
  BY <1>3, <1>4 DEF HandlerFails, Crash, OrderBootstrap, PaymentBootstrap,
                    InventoryBootstrap, Restart, orderVars
<1> QED
  BY <1>1, <1>2, <1>3, <1>4, NextCases
     DEF AnnounceOrder, Payer, PaymentHandler, SavePayment, EmitPayment,
         InventoryHandler, Check, TryFulfill, FindFulfillment, FindProduct, SaveProduct,
         SaveFulfillment, EmitVerdict, RequestFails, KafkaRetries, AllQuiet, orderVars, vars

\* No replay of the topic takes an order out of its final status.
THEOREM FinalStatus == ASSUME ConsumerOnly PROVE Spec => StatusIsFinal
<1> DEFINE Final == \A o \in Orders :
                      orders[o].status \in {"COMPLETED", "CANCELLED"}
                        => orders'[o].status = orders[o].status
<1>1. IInv /\ [Next]_vars => [Final]_vars
  BY FinalStep
<1> QED BY <1>1, SagaInvariance, PTL DEF StatusIsFinal, Spec

-----------------------------------------------------------------------------
(* What a handled message has done.                                        *)

PaymentDone(m) == m.event = "ORDER_CREATED" => payments[m.order] # "none"
InventoryDone(m) ==
  m.event = "PAYMENT_CAPTURED"
    => m.order \in fulfilled \/ Emitted("INVENTORY_OUT_OF_STOCK", m.order)
OrderDone(m) ==
  m.event \in {"INVENTORY_OK", "INVENTORY_OUT_OF_STOCK"}
    => orders[m.order].status \in {"COMPLETED", "CANCELLED"}

\* Behind the position of a consumer everything is done, and stays done.
HandledInv ==
  /\ \A i \in 1 .. position["payment"] : PaymentDone(topic[i])
  /\ \A i \in 1 .. position["inventory"] : InventoryDone(topic[i])
  /\ \A i \in 1 .. position["order"] : OrderDone(topic[i])

\* A handler is at work for the order of its message.
WorkInv ==
  /\ paying.pc # "idle" => Message("payment").order = paying.order
  /\ paying.pc \in {"emitCaptured", "emitRefunded"} => payments[paying.order] # "none"
  /\ call["inventory"].pc # "idle"
       => Message("inventory").order = call["inventory"].order

LEMMA DoneInit == Init => HandledInv /\ WorkInv
<1>1. NoPayment.pc = "idle" /\ NoCall.pc = "idle"
  BY DEF NoPayment, NoCall
<1> QED BY <1>1 DEF Init, HandledInv, WorkInv, Services, Callers

\* The topic only grows.
LEMMA TopicGrows ==
  ASSUME IInv, Next
  PROVE  /\ UNCHANGED topic \/ \E e \in SagaEvent : topic' = Append(topic, e)
         /\ Len(topic') >= Len(topic)
         /\ \A i \in 1 .. Len(topic) : topic'[i] = topic[i] /\ topic[i] \in SagaEvent
         /\ \A n, o : Emitted(n, o) => Emitted(n, o)'
<1> DEFINE Grows == UNCHANGED topic \/ \E e \in SagaEvent : topic' = Append(topic, e)
<1>1. ASSUME NEW o \in Orders, CreateOrder(o) \/ AnnounceOrder(o) PROVE Grows
  BY <1>1 DEF CreateOrder, AnnounceOrder, Emit, Event, SagaEvent
<1>2. ASSUME Payer PROVE Grows
  <2>1. paying.order \in Orders
    BY DEF IInv, TypeInv, TypeOK, Payment
  <2> QED BY <1>2, <2>1 DEF Payer, PaymentHandler, SavePayment, EmitPayment, Emit,
                            Event, SagaEvent
<1>3. ASSUME NEW c \in Callers, TryFulfill(c) PROVE Grows
  <2>1. call[c].order \in Orders
    BY DEF IInv, TypeInv, TypeOK, Call
  <2> QED BY <1>3, <2>1 DEF TryFulfill, FindFulfillment, FindProduct, SaveProduct,
                            SaveFulfillment, EmitVerdict, Emit, Event, SagaEvent
<1>4. ASSUME KafkaRetries PROVE Grows
  BY <1>4 DEF KafkaRetries, Sending
<1>5. Grows
  BY <1>1, <1>2, <1>3, <1>4, NextCases
     DEF OrderHandler, InventoryHandler, Check, HandlerFails, Crash, OrderBootstrap,
         PaymentBootstrap, InventoryBootstrap, Restart, RequestFails, AllQuiet, vars
<1>6. topic \in Seq(SagaEvent) /\ DOMAIN topic = 1 .. Len(topic) /\ Len(topic) \in Nat
  BY DEF IInv, TypeInv, TypeOK
<1>7. /\ Len(topic') >= Len(topic) /\ DOMAIN topic \subseteq DOMAIN topic'
      /\ \A i \in 1 .. Len(topic) : topic'[i] = topic[i] /\ topic[i] \in SagaEvent
  BY <1>5, <1>6
<1>8. \A n, o : Emitted(n, o) => Emitted(n, o)'
  BY <1>6, <1>7 DEF Emitted
<1> QED BY <1>5, <1>7, <1>8

\* No step takes back what has been done.
LEMMA DoneStays ==
  ASSUME IInv, Next, NEW m \in SagaEvent
  PROVE  /\ PaymentDone(m) => PaymentDone(m)'
         /\ InventoryDone(m) => InventoryDone(m)'
         /\ OrderDone(m) => OrderDone(m)'
<1>1. m.order \in Orders
  BY DEF SagaEvent
<1>2. fulfilled \subseteq fulfilled'
  BY NextCases
     DEF CreateOrder, AnnounceOrder, OrderHandler, Payer, PaymentHandler,
         SavePayment, EmitPayment, InventoryHandler, Check, TryFulfill, FindFulfillment,
         FindProduct, SaveProduct, SaveFulfillment, EmitVerdict, HandlerFails, Crash,
         OrderBootstrap, PaymentBootstrap, InventoryBootstrap, Restart, RequestFails,
         KafkaRetries, AllQuiet, inventoryVars, vars
<1>3. \A o \in Orders : payments[o] # "none" => payments'[o] # "none"
  <2>1. CASE SavePayment
    BY <2>1 DEF SavePayment, IInv, TypeInv, TypeOK
  <2>2. CASE UNCHANGED payments
    BY <2>2
  <2> QED BY <2>1, <2>2, NextCases
     DEF CreateOrder, AnnounceOrder, OrderHandler, Payer, PaymentHandler,
         EmitPayment, InventoryHandler, Check, TryFulfill, FindFulfillment,
         FindProduct, SaveProduct, SaveFulfillment, EmitVerdict, HandlerFails, Crash,
         OrderBootstrap, PaymentBootstrap, InventoryBootstrap, Restart, RequestFails,
         KafkaRetries, AllQuiet, paymentVars, vars
<1>4. PaymentDone(m) => PaymentDone(m)'
  BY <1>1, <1>3 DEF PaymentDone
<1>5. InventoryDone(m) => InventoryDone(m)'
  BY <1>2, TopicGrows DEF InventoryDone
<1>6. OrderDone(m) => OrderDone(m)'
  BY <1>1, FinalStep DEF OrderDone
<1> QED BY <1>4, <1>5, <1>6

\* Only the handlers of a service move its consumer on, by one message.
LEMMA OneMessage ==
  ASSUME IInv, Next, NEW s \in Services
  PROVE  \/ position'[s] <= position[s]
         \/ /\ position'[s] = position[s] + 1
            /\ HasMessage(s)
            /\ \/ s = "order" /\ OrderHandler
               \/ s = "payment" /\ (PaymentHandler \/ EmitPayment)
               \/ s = "inventory" /\ (InventoryHandler \/ TryFulfill(s))
<1>a. /\ position \in [Services -> Nat] /\ committed[s] \in Nat /\ position[s] \in Nat
      /\ \A n \in committed[s] .. position[s] : n <= position[s]
  BY DEF IInv, TypeInv, TypeOK
<1>1. CASE OrderHandler
  BY <1>1, <1>a DEF OrderHandler, Advance, Services
<1>2. CASE PaymentHandler
  BY <1>2, <1>a DEF PaymentHandler, Advance, Services
<1>3. CASE EmitPayment
  <2>1. HasMessage("payment")
    BY <1>3 DEF EmitPayment, IInv, TypeInv, Handling
  <2> QED BY <1>3, <1>a, <2>1 DEF EmitPayment, Advance, Services
<1>4. CASE InventoryHandler
  BY <1>4, <1>a DEF InventoryHandler, Advance, Services
<1>5. ASSUME NEW c \in Callers, TryFulfill(c)
      PROVE  \/ position'[s] <= position[s]
             \/ /\ s = "inventory" /\ c = s
                /\ position'[s] = position[s] + 1
                /\ HasMessage(s)
  <2>1. UNCHANGED position \/ (c = "inventory" /\ Advance(c) /\ call[c].pc # "idle")
    BY <1>5 DEF TryFulfill, FindFulfillment, FindProduct, SaveProduct, SaveFulfillment,
                EmitVerdict, Return
  <2>2. call["inventory"].pc # "idle" => HasMessage("inventory")
    BY DEF IInv, TypeInv, Handling
  <2> QED BY <1>a, <2>1, <2>2 DEF Advance
<1>6. ASSUME NEW q \in Services, HandlerFails(q) \/ Crash(q)
      PROVE  position'[s] <= position[s]
  <2>1. UNCHANGED position \/ \E p \in Services : Restart(p)
    BY <1>6 DEF HandlerFails, Crash, OrderBootstrap, PaymentBootstrap, InventoryBootstrap,
                Services
  <2>2. ASSUME NEW p \in Services, Restart(p) PROVE position'[s] <= position[s]
    BY <1>a, <2>2 DEF Restart
  <2> QED BY <1>a, <2>1, <2>2
<1>7. CASE UNCHANGED position
  BY <1>7, <1>a
<1> QED BY <1>1, <1>2, <1>3, <1>4, <1>5, <1>6, <1>7, NextCases
        DEF CreateOrder, AnnounceOrder, Payer, SavePayment, Check, RequestFails,
            KafkaRetries, AllQuiet, vars

\* The message that a consumer passes is done.
LEMMA PaymentPasses ==
  ASSUME IInv, WorkInv, PaymentHandler \/ EmitPayment, HasMessage("payment"),
         position'["payment"] = position["payment"] + 1
  PROVE  PaymentDone(Message("payment"))
<1>1. CASE PaymentHandler
  <2>1. UNCHANGED position => FALSE
    BY DEF IInv, TypeInv, TypeOK, Services
  <2>2. PaymentStep(Message("payment")) = "idle"
    BY <1>1, <2>1 DEF PaymentHandler
  <2> QED BY <2>2 DEF PaymentStep, PaymentDone
<1>2. CASE EmitPayment
  BY <1>2 DEF EmitPayment, WorkInv, PaymentDone
<1> QED BY <1>1, <1>2

LEMMA InventoryPasses ==
  ASSUME IInv, IInv', WorkInv, ConsumerOnly, Next,
         InventoryHandler \/ TryFulfill("inventory"), HasMessage("inventory"),
         position'["inventory"] = position["inventory"] + 1,
         NEW m \in SagaEvent, m = Message("inventory")
  PROVE  InventoryDone(m)'
<1>a. ~ UNCHANGED position
  <2>1. position["inventory"] \in Nat
    BY DEF IInv, TypeInv, TypeOK, Services
  <2> QED BY <2>1
<1>1. CASE InventoryHandler
  <2>1. m.event # "PAYMENT_CAPTURED"
    BY <1>1, <1>a DEF InventoryHandler
  <2> QED BY <2>1 DEF InventoryDone
<1>2. CASE TryFulfill("inventory")
  <2>1. m.order = call["inventory"].order
    BY <1>2 DEF WorkInv, TryFulfill, FindFulfillment, FindProduct, SaveProduct,
                SaveFulfillment, EmitVerdict
  <2>2. \/ m.order \in fulfilled
        \/ Emit("INVENTORY_OUT_OF_STOCK", m.order) /\ UNCHANGED resent
    BY <1>2, <1>a, <2>1 DEF TryFulfill, FindFulfillment, FindProduct, SaveProduct,
              SaveFulfillment, EmitVerdict, IInv, SagaInv, CallInv
  <2>3. CASE m.order \in fulfilled
    BY <2>3, DoneStays DEF InventoryDone
  <2>4. CASE Emit("INVENTORY_OUT_OF_STOCK", m.order) /\ UNCHANGED resent
    <3>1. m.order \in Orders /\ topic \in Seq(SagaEvent)
      BY DEF SagaEvent, IInv, TypeInv, TypeOK
    <3>2. Event("INVENTORY_OUT_OF_STOCK", m.order) \in SagaEvent
      BY <3>1 DEF Event, SagaEvent
    <3>3. Emitted("INVENTORY_OUT_OF_STOCK", m.order)'
      BY <2>4, <3>1, <3>2, EmitAdds
    <3> QED BY <3>3 DEF InventoryDone
  <2> QED BY <2>2, <2>3, <2>4
<1> QED BY <1>1, <1>2

LEMMA OrderPasses ==
  ASSUME IInv, OrderHandler, NEW m \in SagaEvent, m = Message("order")
  PROVE  OrderDone(m)'
<1>1. m.order \in Orders /\ HasMessage("order")
  BY DEF SagaEvent, OrderHandler
<1>2. orders[m.order].status # "none"
  BY <1>1, VerdictIsFinal
<1>3. orders' = [orders EXCEPT ![m.order].status = StatusAfter(m, @)]
  BY <1>2 DEF OrderHandler
<1>4. orders'[m.order].status = StatusAfter(m, orders[m.order].status)
  BY <1>1, <1>3 DEF IInv, TypeInv, TypeOK, OrderRow
<1> QED BY <1>4 DEF StatusAfter, OrderDone

LEMMA HandledStep ==
  ASSUME IInv, IInv', ConsumerOnly, HandledInv, WorkInv, Next
  PROVE  HandledInv'
<1>a. /\ \A i \in 1 .. Len(topic) : topic'[i] = topic[i] /\ topic[i] \in SagaEvent
      /\ position \in [Services -> 0 .. Len(topic)] /\ Len(topic) \in Nat
      /\ position' \in [Services -> Nat]
      /\ \A s \in Services : HasMessage(s) =>
           Message(s) = topic[position[s] + 1] /\ position[s] + 1 \in 1 .. Len(topic)
  <2>1. \A i \in 1 .. Len(topic) : topic'[i] = topic[i] /\ topic[i] \in SagaEvent
    BY TopicGrows
  <2>2. position \in [Services -> 0 .. Len(topic)] /\ Len(topic) \in Nat
    BY DEF IInv, TypeInv, TypeOK
  <2>3. Len(topic') \in Nat /\ position' \in [Services -> 0 .. Len(topic')]
    BY DEF IInv, TypeInv, TypeOK
  <2>4. position' \in [Services -> Nat]
    BY <2>3
  <2>5. \A s \in Services : HasMessage(s) =>
          Message(s) = topic[position[s] + 1] /\ position[s] + 1 \in 1 .. Len(topic)
    BY <2>2 DEF HasMessage, Message
  <2> QED BY <2>1, <2>2, <2>4, <2>5
<1>b. \A s \in Services : \A i \in 1 .. position'[s] :
        \/ i \in 1 .. position[s]
        \/ i = position[s] + 1 /\ position'[s] = position[s] + 1 /\ HasMessage(s)
           /\ \/ s = "order" /\ OrderHandler
              \/ s = "payment" /\ (PaymentHandler \/ EmitPayment)
              \/ s = "inventory" /\ (InventoryHandler \/ TryFulfill(s))
  <2>1. ASSUME NEW s \in Services, NEW i \in 1 .. position'[s], i \notin 1 .. position[s]
        PROVE  ~ (position'[s] <= position[s])
               /\ (position'[s] = position[s] + 1 => i = position[s] + 1)
    BY <1>a, <2>1
  <2> QED BY <2>1, OneMessage
<1>1. ASSUME NEW i \in 1 .. position'["payment"]
      PROVE  PaymentDone(topic[i])'
  <2>1. i \in 1 .. Len(topic)
    BY <1>a, <1>b DEF Services
  <2>2. PICK m \in SagaEvent : m = topic[i] /\ m = topic'[i]
    BY <1>a, <2>1
  <2>3. PaymentDone(m)
    <3>1. CASE i \in 1 .. position["payment"]
      BY <2>2, <3>1 DEF HandledInv
    <3>2. CASE i \notin 1 .. position["payment"]
      BY <1>a, <1>b, <2>2, <3>2, PaymentPasses DEF Services
    <3> QED BY <3>1, <3>2
  <2>4. PaymentDone(m)'
    BY <2>3, DoneStays
  <2> QED BY <2>2, <2>4 DEF PaymentDone
<1>2. ASSUME NEW i \in 1 .. position'["inventory"]
      PROVE  InventoryDone(topic[i])'
  <2>1. i \in 1 .. Len(topic)
    BY <1>a, <1>b DEF Services
  <2>2. PICK m \in SagaEvent : m = topic[i] /\ m = topic'[i]
    BY <1>a, <2>1
  <2>3. CASE i \in 1 .. position["inventory"]
    <3>1. InventoryDone(m)
      BY <2>2, <2>3 DEF HandledInv
    <3>2. InventoryDone(m)'
      BY <3>1, DoneStays
    <3> QED BY <2>2, <3>2 DEF InventoryDone
  <2>4. CASE i \notin 1 .. position["inventory"]
    <3>1. m = Message("inventory")
      BY <1>a, <1>b, <2>2, <2>4 DEF Services
    <3>2. InventoryDone(m)'
      BY <1>b, <2>4, <3>1, InventoryPasses DEF Services
    <3> QED BY <2>2, <3>2 DEF InventoryDone
  <2> QED BY <2>3, <2>4
<1>3. ASSUME NEW i \in 1 .. position'["order"]
      PROVE  OrderDone(topic[i])'
  <2>1. i \in 1 .. Len(topic)
    BY <1>a, <1>b DEF Services
  <2>2. PICK m \in SagaEvent : m = topic[i] /\ m = topic'[i]
    BY <1>a, <2>1
  <2>3. CASE i \in 1 .. position["order"]
    <3>1. OrderDone(m)
      BY <2>2, <2>3 DEF HandledInv
    <3>2. OrderDone(m)'
      BY <3>1, DoneStays
    <3> QED BY <2>2, <3>2 DEF OrderDone
  <2>4. CASE i \notin 1 .. position["order"]
    <3>1. m = Message("order") /\ OrderHandler
      BY <1>a, <1>b, <2>2, <2>4 DEF Services
    <3>2. OrderDone(m)'
      BY <3>1, OrderPasses
    <3> QED BY <2>2, <3>2 DEF OrderDone
  <2> QED BY <2>3, <2>4
<1> QED BY <1>1, <1>2, <1>3 DEF HandledInv

\* A handler keeps to its message until it passes it.
LEMMA WorkStep == IInv /\ IInv' /\ WorkInv /\ Next => WorkInv'
<1> SUFFICES ASSUME IInv, IInv', WorkInv, Next PROVE WorkInv'
  OBVIOUS
<1>a. /\ \A i \in 1 .. Len(topic) : topic'[i] = topic[i]
      /\ position \in [Services -> 0 .. Len(topic)] /\ Len(topic) \in Nat
      /\ "payment" \in Services /\ "inventory" \in Services
      /\ NoPayment.pc = "idle" /\ NoCall.pc = "idle"
      /\ payments \in [Orders -> PaymentStatus] /\ payments' \in [Orders -> PaymentStatus]
      /\ paying \in Payment /\ call \in [Callers -> Call] /\ "inventory" \in Callers
  <2>1. \A i \in 1 .. Len(topic) : topic'[i] = topic[i]
    BY TopicGrows
  <2>2. NoPayment.pc = "idle" /\ NoCall.pc = "idle"
    BY DEF NoPayment, NoCall
  <2>3. TypeOK /\ TypeOK'
    BY DEF IInv, TypeInv
  <2>4. position \in [Services -> 0 .. Len(topic)] /\ Len(topic) \in Nat
    BY <2>3 DEF TypeOK
  <2>5. /\ payments \in [Orders -> PaymentStatus] /\ payments' \in [Orders -> PaymentStatus]
        /\ paying \in Payment /\ call \in [Callers -> Call]
    BY <2>3 DEF TypeOK
  <2> QED BY <2>1, <2>2, <2>4, <2>5 DEF Services, Callers
<1>1. ASSUME NEW s \in Services, HasMessage(s), position'[s] = position[s]
      PROVE  Message(s)' = Message(s)
  BY <1>1, <1>a DEF HasMessage, Message
<1>2. paying'.pc # "idle" =>
        /\ position'["payment"] = position["payment"]
        /\ HasMessage("payment")
        /\ Message("payment").order = paying'.order
        /\ paying'.pc \in {"emitCaptured", "emitRefunded"} => payments'[paying'.order] # "none"
  <2>1. CASE PaymentHandler
    <3> DEFINE m == Message("payment")
    <3>1. CASE PaymentStep(m) = "idle"
      BY <2>1, <3>1 DEF PaymentHandler
    <3>2. CASE PaymentStep(m) # "idle"
      <4>1. /\ paying' = [pc |-> PaymentStep(m), order |-> m.order] /\ UNCHANGED position
            /\ HasMessage("payment")
        BY <2>1, <3>2 DEF PaymentHandler
      <4>2. PaymentStep(m) \notin {"emitCaptured", "emitRefunded"}
        BY DEF PaymentStep
      <4> QED BY <4>1, <4>2
    <3> QED BY <3>1, <3>2
  <2>2. CASE SavePayment
    BY <2>2, <1>a DEF SavePayment, Payment, WorkInv, IInv, TypeInv, Handling
  <2>3. CASE paying'.pc = "idle"
    BY <2>3
  <2>4. CASE UNCHANGED <<paying, payments>> /\ position'["payment"] = position["payment"]
    BY <2>4 DEF WorkInv, IInv, TypeInv, Handling
  <2>5. ASSUME NEW c \in Callers, TryFulfill(c)
        PROVE  UNCHANGED <<paying, payments>> /\ position'["payment"] = position["payment"]
    BY <2>5, <1>a DEF TryFulfill, FindFulfillment, FindProduct, SaveProduct, SaveFulfillment,
                      EmitVerdict, Return, Advance, paymentVars
  <2>6. OrderHandler \/ InventoryHandler =>
          UNCHANGED <<paying, payments>> /\ position'["payment"] = position["payment"]
    BY <1>a DEF OrderHandler, InventoryHandler, Advance, paymentVars
  <2>7. ASSUME NEW s \in Services, HandlerFails(s) \/ Crash(s)
        PROVE  \/ paying'.pc = "idle"
               \/ UNCHANGED <<paying, payments>> /\ position'["payment"] = position["payment"]
    BY <2>7, <1>a DEF HandlerFails, Crash, OrderBootstrap, PaymentBootstrap,
                      InventoryBootstrap, Restart
  <2>8. EmitPayment => paying'.pc = "idle"
    BY <1>a DEF EmitPayment
  <2> QED BY <2>1, <2>2, <2>3, <2>4, <2>5, <2>6, <2>7, <2>8, NextCases
          DEF CreateOrder, AnnounceOrder, Payer, Check, RequestFails, KafkaRetries,
              AllQuiet, paymentVars, vars
<1>3. call'["inventory"].pc # "idle" =>
        /\ position'["inventory"] = position["inventory"]
        /\ HasMessage("inventory")
        /\ Message("inventory").order = call'["inventory"].order
  <2>1. CASE InventoryHandler
    BY <2>1, <1>a DEF InventoryHandler, WorkInv, IInv, TypeInv, Handling
  <2>2. CASE TryFulfill("inventory")
    <3>1. call["inventory"].pc # "idle"
      BY <2>2 DEF TryFulfill, FindFulfillment, FindProduct, SaveProduct, SaveFulfillment,
                  EmitVerdict
    <3>2. \/ call'["inventory"].pc = "idle"
          \/ UNCHANGED position /\ call'["inventory"].order = call["inventory"].order
      <4> DEFINE c == call["inventory"]
      <4>1. c \in Call
        BY <1>a
      <4>2. Return("inventory") => call'["inventory"].pc = "idle"
        BY <1>a DEF Return
      <4>3. FindProduct("inventory") => UNCHANGED position /\ call'["inventory"].order = c.order
        BY <1>a, <4>1 DEF FindProduct, Call
      <4>4. \A pc : call' = [call EXCEPT !["inventory"].pc = pc]
                     => call'["inventory"].order = c.order
        BY <1>a, <4>1 DEF Call
      <4> QED BY <2>2, <4>2, <4>3, <4>4
              DEF TryFulfill, FindFulfillment, SaveProduct, SaveFulfillment, EmitVerdict
    <3> QED BY <3>1, <3>2 DEF WorkInv, IInv, TypeInv, Handling
  <2>3. CASE call'["inventory"].pc = "idle"
    BY <2>3
  <2>4. CASE call'["inventory"] = call["inventory"]
             /\ position'["inventory"] = position["inventory"]
    BY <2>4 DEF WorkInv, IInv, TypeInv, Handling
  <2>5. ASSUME NEW c \in Checks, Check(c) \/ TryFulfill(c)
        PROVE  call'["inventory"] = call["inventory"]
               /\ position'["inventory"] = position["inventory"]
    BY <2>5, <1>a, SagaAssumption
       DEF Check, TryFulfill, FindFulfillment, FindProduct, SaveProduct, SaveFulfillment,
           EmitVerdict, Return, Callers
  <2>6. OrderHandler \/ Payer =>
          call'["inventory"] = call["inventory"]
          /\ position'["inventory"] = position["inventory"]
    BY <1>a DEF OrderHandler, Payer, PaymentHandler, SavePayment, EmitPayment,
                Advance, inventoryVars
  <2>7. ASSUME NEW s \in Services, HandlerFails(s) \/ Crash(s)
        PROVE  \/ call'["inventory"].pc = "idle"
               \/ call'["inventory"] = call["inventory"]
                  /\ position'["inventory"] = position["inventory"]
    BY <2>7, <1>a DEF HandlerFails, Crash, OrderBootstrap, PaymentBootstrap,
                      InventoryBootstrap, Restart
  <2>8. RequestFails => call'["inventory"] = call["inventory"]
                        /\ position'["inventory"] = position["inventory"]
    BY <1>a, SagaAssumption DEF RequestFails
  <2>9. \A c \in Callers : c = "inventory" \/ c \in Checks
    BY DEF Callers
  <2> QED BY <2>1, <2>2, <2>3, <2>4, <2>5, <2>6, <2>7, <2>8, <2>9, NextCases
          DEF CreateOrder, AnnounceOrder, KafkaRetries, AllQuiet, inventoryVars, vars
<1> QED BY <1>1, <1>2, <1>3, <1>a DEF WorkInv

\* When everything has been handled, an order that is still PENDING has lost an
\* event: whatever failed or was redelivered, no other order is stranded.
THEOREM StuckOrders == ASSUME ConsumerOnly PROVE Spec => []StuckOrdersLostAnEvent
<1> DEFINE I == IInv /\ HandledInv /\ WorkInv
<1>1. Init => I
  BY TypeInit, MoneyInit, SagaInit, DoneInit DEF IInv
<1>2. I /\ [Next]_vars => I'
  <2> SUFFICES ASSUME I, [Next]_vars PROVE I'
    OBVIOUS
  <2>1. IInv'
    BY TypeStep, MoneyStep, SagaStep DEF IInv
  <2>2. CASE Next
    BY <2>1, <2>2, HandledStep, WorkStep
  <2>3. CASE UNCHANGED vars
    BY <2>1, <2>3 DEF vars, HandledInv, WorkInv, Message, PaymentDone, InventoryDone,
                      OrderDone, Emitted
  <2> QED BY <2>2, <2>3
<1>3. I => StuckOrdersLostAnEvent
  <2> SUFFICES ASSUME I, Settled, NEW o \in Orders, orders[o].status = "PENDING"
               PROVE  \/ ~ Emitted("ORDER_CREATED", o)
                      \/ payments[o] = "CAPTURED" /\ ~ Emitted("PAYMENT_CAPTURED", o)
                      \/ o \in fulfilled /\ ~ Emitted("INVENTORY_OK", o)
    BY DEF StuckOrdersLostAnEvent
  <2>1. /\ DOMAIN topic = 1 .. Len(topic)
        /\ position["payment"] = Len(topic) /\ position["inventory"] = Len(topic)
        /\ position["order"] = Len(topic)
        /\ payments[o] \in PaymentStatus
    BY DEF IInv, TypeInv, TypeOK, Settled, Services
  <2>2. ~ Emitted("INVENTORY_OK", o) /\ ~ Emitted("INVENTORY_OUT_OF_STOCK", o)
    BY <2>1 DEF HandledInv, OrderDone, Emitted, Event
  <2>3. Emitted("ORDER_CREATED", o) => payments[o] # "none"
    BY <2>1 DEF HandledInv, PaymentDone, Emitted, Event
  <2>4. Emitted("PAYMENT_CAPTURED", o) => o \in fulfilled
    BY <2>1, <2>2 DEF HandledInv, InventoryDone, Emitted, Event
  <2>5. payments[o] # "REFUNDED"
    BY <2>2 DEF IInv, SagaInv, RefundsInv
  <2> QED BY <2>1, <2>2, <2>3, <2>4, <2>5
<1> QED BY <1>1, <1>2, <1>3, PTL DEF Spec

-----------------------------------------------------------------------------
(* The stock, when only the consumer fulfils orders.                       *)

\* Quantity, for any rows.
QuantityOf(rows, os) == MapThenSumSet(LAMBDA o : rows[o].quantity, os)
Quantified(rows) == [o \in Orders |-> rows[o].quantity]

\* It is the sum of the quantities.
LEMMA QuantityIsTotal ==
  ASSUME NEW rows, NEW os \in SUBSET Orders
  PROVE  QuantityOf(rows, os) = Total(Quantified(rows), os)
<1> DEFINE w == Quantified(rows)
           Q(f) == f = [s \in SUBSET os |-> IF s = {} THEN 0
                                            ELSE rows[Chosen(s)].quantity + f[s \ {Chosen(s)}]]
<1>1. \A s \in SUBSET os : s # {} => w[Chosen(s)] = rows[Chosen(s)].quantity
  BY DEF Chosen, Quantified
<1>2. \A f : Q(f) <=> IsSum(f, w, SUBSET os)
  <2>1. SUFFICES ASSUME NEW f
                 PROVE  [s \in SUBSET os |-> IF s = {} THEN 0
                                             ELSE rows[Chosen(s)].quantity + f[s \ {Chosen(s)}]]
                          = [s \in SUBSET os |-> IF s = {} THEN 0
                                                 ELSE w[Chosen(s)] + f[s \ {Chosen(s)}]]
    BY DEF IsSum
  <2> HIDE DEF w
  <2> QED BY <1>1
<1>3. QuantityOf(rows, os) = (CHOOSE f : Q(f))[os]
  BY DEF QuantityOf, MapThenSumSet, MapThenFoldSet, Chosen
<1>4. (CHOOSE f : Q(f)) = (CHOOSE f : IsSum(f, w, SUBSET os))
  BY <1>2
<1> QED BY <1>3, <1>4 DEF Total

\* Rows of natural quantities, as those of the orders table are.
Rows(rows) == \A o \in Orders : rows[o].quantity \in Nat

LEMMA QuantityType ==
  ASSUME NEW rows, Rows(rows), NEW os \in SUBSET Orders, IsFiniteSet(os)
  PROVE  QuantityOf(rows, os) \in Int
<1>1. \A o \in os : Quantified(rows)[o] \in Int
  BY DEF Rows, Quantified
<1> QED BY <1>1, QuantityIsTotal, TotalType

LEMMA SameQuantities ==
  ASSUME NEW rows, NEW later, NEW os \in SUBSET Orders, IsFiniteSet(os),
         \A o \in os : later[o].quantity = rows[o].quantity
  PROVE  QuantityOf(later, os) = QuantityOf(rows, os)
<1>1. \A o \in os : Quantified(later)[o] = Quantified(rows)[o]
  BY DEF Quantified
<1> QED BY <1>1, QuantityIsTotal, TotalSameWeights

LEMMA QuantityAdds ==
  ASSUME NEW rows, Rows(rows), NEW os \in SUBSET Orders, IsFiniteSet(os),
         NEW o \in Orders, o \notin os
  PROVE  QuantityOf(rows, os \cup {o}) = QuantityOf(rows, os) + rows[o].quantity
<1> DEFINE w == Quantified(rows)
<1>1. \A x \in os \cup {o} : w[x] \in Int
  BY DEF Rows, Quantified
<1>2. w[o] = rows[o].quantity
  BY DEF Quantified
<1>3. Total(w, os \cup {o}) = Total(w, os) + w[o]
  <2> HIDE DEF w
  <2> QED BY <1>1, TotalAdds
<1> QED BY <1>2, <1>3, QuantityIsTotal

\* The order whose goods the consumer has taken, and not marked yet.
Marking ==
  {o \in Orders : call["inventory"].pc = "saveFulfillment" /\ call["inventory"].order = o}

\* The orders for p that goods have been taken for.
Held(p) == (fulfilled \cup Marking) \cap Of(p)

\* The seed creates no negative stock.
NaturalStock == InitialStock \in [Products -> Nat]

\* What is left and what has been taken is what there was.  After a failure
\* there may be less: goods were taken whose order was never marked.
StockInv ==
  /\ IsFiniteSet(fulfilled)
  /\ \A p \in Products :
       /\ stock[p] + Quantity(Held(p)) <= InitialStock[p]
       /\ failures = 0 => stock[p] + Quantity(Held(p)) = InitialStock[p]
       /\ NaturalStock => stock[p] >= 0

\* The orders that goods have been taken for.
LEMMA HeldOrders ==
  ASSUME IInv, IsFiniteSet(fulfilled)
  PROVE  /\ fulfilled \in SUBSET Orders /\ Marking \in SUBSET Orders
         /\ IsFiniteSet(fulfilled \cup Marking)
         /\ \A p : Held(p) \in SUBSET Orders /\ IsFiniteSet(Held(p))
         /\ \A o \in fulfilled \cup Marking : orders[o].status # "none"
<1>1. fulfilled \in SUBSET Orders /\ Marking \in SUBSET Orders
  BY DEF IInv, TypeInv, TypeOK, Marking
<1>2. IsFiniteSet(fulfilled \cup Marking)
  <2>1. Marking = {} \/ Marking = {call["inventory"].order}
    BY DEF Marking
  <2>2. IsFiniteSet(fulfilled \cup {call["inventory"].order})
    BY FS_AddElement
  <2> QED BY <2>1, <2>2
<1>3. ASSUME NEW p
      PROVE  Held(p) \in SUBSET Orders /\ IsFiniteSet(Held(p))
  BY <1>1, <1>2, FS_Subset DEF Held
<1>4. ASSUME NEW o \in fulfilled \cup Marking
      PROVE  orders[o].status # "none"
  <2>1. o \in Orders /\ Emitted("PAYMENT_CAPTURED", o)
    BY <1>1, <1>4 DEF IInv, SagaInv, VerdictsInv, CallInv, Marking
  <2> QED BY <2>1 DEF IInv, SagaInv, OrdersInv
<1> QED BY <1>1, <1>2, <1>3, <1>4

\* The rows' types.
LEMMA RowTypes ==
  ASSUME ConsumerOnly, TypeInv
  PROVE  /\ Rows(orders)
         /\ stock \in [Products -> Int]
         /\ \A o \in Orders : orders[o].product \in Products
         /\ failures \in Nat
<1>1. failures \in Nat /\ stock \in [Products -> Int] /\ orders \in [Orders -> OrderRow]
  BY SagaAssumption DEF TypeInv, TypeOK
<1>2. \A o \in Orders : orders[o] \in OrderRow
  BY <1>1
<1> QED BY <1>1, <1>2 DEF ConsumerOnly, OrderRow, Rows

LEMMA StockInit == ASSUME ConsumerOnly, Init PROVE StockInv
<1>1. fulfilled = {} /\ Marking = {}
  <2>1. call["inventory"].pc = "idle"
    BY DEF Init, NoCall, Callers
  <2> QED BY <2>1 DEF Init, Marking
<1>2. \A p : Held(p) = {} /\ Quantity(Held(p)) = 0
  <2>1. QuantityOf(orders, {}) = 0
    BY QuantityIsTotal, TotalEmpty
  <2>2. Quantity({}) = 0
    BY <2>1 DEF Quantity, QuantityOf, MapThenSumSet, MapThenFoldSet
  <2> QED BY <1>1, <2>2 DEF Held
<1>3. stock = InitialStock /\ InitialStock \in [Products -> Int]
  BY SagaAssumption DEF Init
<1> QED BY <1>1, <1>2, <1>3, FS_EmptySet DEF StockInv, NaturalStock

\* A step that takes no goods, marks the order if any whose goods were taken,
\* and keeps the rows.
LEMMA StockKept ==
  ASSUME ConsumerOnly, IInv, StockInv, UNCHANGED stock, failures' = 0 => failures = 0,
         fulfilled' \cup Marking' = fulfilled \cup Marking, IsFiniteSet(fulfilled'),
         \A o \in fulfilled \cup Marking :
           /\ orders'[o].product = orders[o].product /\ orders'[o].quantity = orders[o].quantity
           /\ orders'[o].status # "none"
  PROVE  StockInv'
<1>1. \A p \in Products : Held(p)' = Held(p)
  <2>1. \A o \in fulfilled \cup Marking : orders[o].status # "none"
    BY HeldOrders DEF StockInv
  <2>2. SUFFICES ASSUME NEW p \in Products
                 PROVE  (fulfilled' \cup Marking') \cap Of(p)' = (fulfilled \cup Marking) \cap Of(p)
    BY DEF Held
  <2> HIDE DEF Marking
  <2> QED BY <2>1 DEF Of
<1>2. \A p \in Products : Quantity(Held(p))' = Quantity(Held(p))
  <2>1. SUFFICES ASSUME NEW p \in Products
                 PROVE  QuantityOf(orders', Held(p)') = QuantityOf(orders, Held(p))
    BY DEF Quantity, QuantityOf, MapThenSumSet, MapThenFoldSet
  <2>2. Held(p) \in SUBSET Orders /\ IsFiniteSet(Held(p))
    BY HeldOrders DEF StockInv
  <2>3. \A o \in Held(p) : orders'[o].quantity = orders[o].quantity
    BY DEF Held
  <2> QED BY <1>1, <2>1, <2>2, <2>3, SameQuantities
<1> QED BY <1>1, <1>2 DEF StockInv, NaturalStock

\* The orders that are marked ask for no more than those whose goods were taken.
LEMMA MarkedAsksLess ==
  ASSUME ConsumerOnly, IInv, IsFiniteSet(fulfilled), NEW p \in Products
  PROVE  /\ QuantityOf(orders, fulfilled \cap Of(p)) \in Int
         /\ QuantityOf(orders, Held(p)) \in Int
         /\ QuantityOf(orders, fulfilled \cap Of(p)) <= QuantityOf(orders, Held(p))
<1> DEFINE o == call["inventory"].order
           os == fulfilled \cap Of(p)
<1>1. Rows(orders)
  BY RowTypes DEF IInv
<1>2. os \in SUBSET Orders /\ IsFiniteSet(os)
  BY HeldOrders, FS_Subset
<1>3. QuantityOf(orders, os) \in Int
  BY <1>1, <1>2, QuantityType
<1>4. CASE Held(p) = os
  BY <1>3, <1>4
<1>5. CASE Held(p) # os
  <2>1. o \in Marking /\ Held(p) = os \cup {o}
    BY <1>5 DEF Held, Marking
  <2>2. o \in Orders /\ o \notin os
    BY <2>1 DEF Marking, IInv, SagaInv, CallInv
  <2> HIDE DEF o, os
  <2>3. QuantityOf(orders, Held(p)) = QuantityOf(orders, os) + orders[o].quantity
    BY <1>1, <1>2, <2>1, <2>2, QuantityAdds
  <2>4. orders[o].quantity \in Nat
    BY <1>1, <2>2 DEF Rows
  <2> QED BY <1>3, <2>3, <2>4 DEF os
<1> QED BY <1>4, <1>5

\* The consumer takes the goods of an order whose goods were not taken.
LEMMA StockSaved ==
  ASSUME ConsumerOnly, IInv, StockInv, SaveProduct("inventory")
  PROVE  StockInv'
<1> DEFINE c == call["inventory"]
           o == c.order
<1>1. /\ c.pc = "saveProduct" /\ UNCHANGED <<orders, fulfilled, failures>>
      /\ stock' = [stock EXCEPT ![c.product] = c.left]
      /\ call' = [call EXCEPT !["inventory"].pc = "saveFulfillment"]
  BY DEF SaveProduct, orderVars
<1>2. /\ o \in Orders /\ c.product \in Products
      /\ call'["inventory"].pc = "saveFulfillment" /\ call'["inventory"].order = o
  BY <1>1 DEF IInv, TypeInv, TypeOK, Call, Callers
<1>3. /\ c.product = orders[o].product /\ c.quantity = orders[o].quantity
      /\ o \notin fulfilled
      /\ c.left = stock[c.product] - c.quantity /\ c.left >= 0
      /\ orders[o].status # "none"
  BY <1>1, <1>2 DEF IInv, SagaInv, CallInv, OrdersInv
<1>4. Marking = {} /\ Marking' = {o}
  BY <1>1, <1>2 DEF Marking
<1>5. /\ Rows(orders) /\ stock \in [Products -> Int] /\ failures \in Nat
      /\ \A p \in Products : Held(p) \in SUBSET Orders /\ IsFiniteSet(Held(p))
  BY HeldOrders, RowTypes DEF IInv, StockInv
<1>6. orders[o].quantity \in Nat
  BY <1>2, <1>5 DEF Rows
<1> HIDE DEF o, c
<1>7. ASSUME NEW p \in Products
      PROVE  stock'[p] + QuantityOf(orders', Held(p)') = stock[p] + QuantityOf(orders, Held(p))
  <2>1. QuantityOf(orders, Held(p)) \in Int
    BY <1>5, QuantityType
  <2>2. Held(p) = fulfilled \cap Of(p) /\ Held(p)' = (fulfilled \cup {o}) \cap Of(p)
    BY <1>1, <1>4 DEF Held, Of
  <2>3. CASE p = c.product
    <3>1. Held(p)' = Held(p) \cup {o} /\ o \notin Held(p)
      BY <1>2, <1>3, <2>2, <2>3 DEF Of
    <3>2. QuantityOf(orders, Held(p)') = QuantityOf(orders, Held(p)) + orders[o].quantity
      BY <1>2, <1>5, <3>1, QuantityAdds
    <3>3. stock'[p] = stock[p] - orders[o].quantity /\ stock[p] \in Int
      BY <1>1, <1>3, <1>5, <2>3
    <3> QED BY <1>1, <1>6, <2>1, <3>2, <3>3
  <2>4. CASE p # c.product
    <3>1. Held(p)' = Held(p)
      BY <1>3, <2>2, <2>4 DEF Of
    <3>2. stock'[p] = stock[p]
      BY <1>1, <1>5, <2>4
    <3> QED BY <1>1, <3>1, <3>2
  <2> QED BY <2>3, <2>4
<1>8. \A p \in Products : (NaturalStock => stock[p] >= 0) => (NaturalStock => stock'[p] >= 0)
  BY <1>1, <1>3, <1>5
<1>9. \A p \in Products : Quantity(Held(p))' = QuantityOf(orders', Held(p)')
                          /\ Quantity(Held(p)) = QuantityOf(orders, Held(p))
  BY DEF Quantity, QuantityOf, MapThenSumSet, MapThenFoldSet
<1> QED BY <1>1, <1>7, <1>8, <1>9 DEF StockInv, NaturalStock

\* A step that loses the mark, if there was one, is a failure.
LEMMA StockLost ==
  ASSUME ConsumerOnly, IInv, StockInv, UNCHANGED <<orders, stock, fulfilled>>,
         failures' # 0, Marking' = {}
  PROVE  StockInv'
<1>1. ASSUME NEW p \in Products
      PROVE  /\ QuantityOf(orders', Held(p)') \in Int
             /\ QuantityOf(orders, Held(p)) \in Int
             /\ QuantityOf(orders', Held(p)') <= QuantityOf(orders, Held(p))
  <2>1. Held(p)' = fulfilled \cap Of(p)
    BY DEF Held, Of
  <2> QED BY <2>1, MarkedAsksLess DEF StockInv
<1>2. \A p \in Products : Quantity(Held(p))' = QuantityOf(orders', Held(p)')
                          /\ Quantity(Held(p)) = QuantityOf(orders, Held(p))
  BY DEF Quantity, QuantityOf, MapThenSumSet, MapThenFoldSet
<1>3. stock \in [Products -> Int] /\ InitialStock \in [Products -> Int]
  BY RowTypes, SagaAssumption DEF IInv
<1>4. \A p \in Products : stock[p] + Quantity(Held(p))' <= InitialStock[p]
  <2>1. SUFFICES ASSUME NEW p \in Products
                 PROVE  stock[p] + QuantityOf(orders', Held(p)') <= InitialStock[p]
    BY <1>2
  <2>2. stock[p] + QuantityOf(orders, Held(p)) <= InitialStock[p]
    BY <1>2 DEF StockInv
  <2>3. stock[p] \in Int /\ InitialStock[p] \in Int
    BY <1>3
  <2> QED BY <1>1, <2>2, <2>3
<1> QED BY <1>4 DEF StockInv, NaturalStock

\* A step that keeps orders, stock, fulfillments and the consumer's marking.
LEMMA StockElsewhere ==
  ASSUME ConsumerOnly, IInv, StockInv, UNCHANGED <<orders, stock, fulfilled>>,
         Marking' = Marking, failures' = 0 => failures = 0
  PROVE  StockInv'
<1>1. \A o \in fulfilled \cup Marking : orders[o].status # "none"
  BY HeldOrders DEF StockInv
<1> QED BY <1>1, StockKept DEF StockInv

\* The call of the consumer.
LEMMA CallType ==
  ASSUME IInv
  PROVE  /\ call \in [Callers -> Call] /\ "inventory" \in Callers
         /\ call["inventory"] \in Call
         /\ NoCall.pc = "idle"
BY DEF IInv, TypeInv, TypeOK, Callers, NoCall

LEMMA StockTryFulfill ==
  ASSUME ConsumerOnly, IInv, StockInv, TryFulfill("inventory")
  PROVE  StockInv'
<1> DEFINE c == call["inventory"]
<1>1. call \in [Callers -> Call] /\ "inventory" \in Callers /\ c \in Call /\ NoCall.pc = "idle"
  BY CallType
<1>2. UNCHANGED <<orders, failures>>
  BY DEF TryFulfill, FindFulfillment, FindProduct, SaveProduct, SaveFulfillment, EmitVerdict, orderVars
<1>3. CASE FindFulfillment("inventory")
  <2>1. c.pc # "saveFulfillment" /\ call'["inventory"].pc # "saveFulfillment"
    BY <1>1, <1>3 DEF FindFulfillment, Return, Call
  <2>2. Marking' = Marking
    BY <2>1 DEF Marking
  <2> QED BY <1>2, <1>3, <2>2, StockElsewhere DEF FindFulfillment
<1>4. CASE FindProduct("inventory")
  <2>1. c.pc # "saveFulfillment" /\ call'["inventory"].pc # "saveFulfillment"
    BY <1>1, <1>4 DEF FindProduct, Call
  <2>2. Marking' = Marking
    BY <2>1 DEF Marking
  <2> QED BY <1>2, <1>4, <2>2, StockElsewhere DEF FindProduct
<1>5. CASE SaveProduct("inventory")
  BY <1>5, StockSaved
<1>6. CASE SaveFulfillment("inventory")
  <2>1. /\ c.pc = "saveFulfillment" /\ call'["inventory"].pc = "emitOk"
        /\ fulfilled' = fulfilled \cup {c.order} /\ UNCHANGED stock /\ c.order \in Orders
    BY <1>1, <1>6 DEF SaveFulfillment, Call
  <2>2. Marking = {c.order} /\ Marking' = {}
    BY <2>1 DEF Marking
  <2>3. IsFiniteSet(fulfilled')
    BY <2>1, FS_AddElement DEF StockInv
  <2>4. \A o \in fulfilled \cup Marking : orders[o].status # "none"
    BY HeldOrders DEF StockInv
  <2> QED BY <1>2, <2>1, <2>2, <2>3, <2>4, StockKept
<1>7. CASE EmitVerdict("inventory")
  <2>1. c.pc # "saveFulfillment" /\ call'["inventory"].pc = "idle"
    BY <1>1, <1>7 DEF EmitVerdict, Return
  <2>2. Marking' = Marking
    BY <2>1 DEF Marking
  <2> QED BY <1>2, <1>7, <2>2, StockElsewhere DEF EmitVerdict
<1> QED BY <1>3, <1>4, <1>5, <1>6, <1>7 DEF TryFulfill

LEMMA StockFailures ==
  ASSUME ConsumerOnly, IInv, StockInv,
         \/ \E s \in Services : HandlerFails(s) \/ Crash(s)
         \/ RequestFails
  PROVE  StockInv'
<1>1. /\ UNCHANGED <<orders, stock, fulfilled>>
      /\ failures' = failures + 1 /\ failures \in Nat
  BY RowTypes DEF HandlerFails, Crash, RequestFails, OrderBootstrap, PaymentBootstrap,
                  InventoryBootstrap, Restart, AnyFailure, orderVars, IInv
<1>2. call' = call \/ call'["inventory"].pc = "idle"
  BY CallType DEF HandlerFails, Crash, RequestFails, OrderBootstrap, PaymentBootstrap,
                  InventoryBootstrap, ConsumerOnly
<1>3. Marking' = Marking \/ Marking' = {}
  BY <1>2 DEF Marking
<1>4. failures' # 0 /\ (failures' = 0 => failures = 0)
  BY <1>1
<1> QED BY <1>1, <1>3, <1>4, StockElsewhere, StockLost

LEMMA StockStep ==
  ASSUME ConsumerOnly, IInv, StockInv, [Next]_vars
  PROVE  StockInv'
<1>1. Callers = {"inventory"} /\ Checks = {}
  BY DEF ConsumerOnly, Callers
<1>2. ASSUME NEW o \in Orders, CreateOrder(o)
      PROVE  StockInv'
  <2>1. /\ orders[o].status = "none" /\ \A p \in Orders \ {o} : orders'[p] = orders[p]
        /\ UNCHANGED <<stock, fulfilled, call, failures>>
    BY <1>2 DEF CreateOrder, IInv, TypeInv, TypeOK, inventoryVars
  <2>2. /\ \A p \in fulfilled \cup Marking : p \in Orders /\ orders[p].status # "none"
        /\ IsFiniteSet(fulfilled)
    BY HeldOrders DEF StockInv
  <2>3. Marking' = Marking
    BY <2>1 DEF Marking
  <2>4. \A p \in fulfilled \cup Marking : orders'[p] = orders[p]
    BY <2>1, <2>2
  <2> QED BY <2>1, <2>2, <2>3, <2>4, StockKept
<1>3. CASE OrderHandler
  <2> DEFINE m == Message("order")
  <2>1. m.order \in Orders
    BY <1>3, MessageIsEmitted DEF OrderHandler, IInv, TypeInv, Services, SagaEvent
  <2>2. /\ orders' = [orders EXCEPT ![m.order].status = StatusAfter(m, @)]
        /\ StatusAfter(m, orders[m.order].status) # "none"
    BY <1>3, VerdictIsFinal DEF OrderHandler
  <2>3. UNCHANGED <<stock, fulfilled, call, failures>>
    BY <1>3 DEF OrderHandler, inventoryVars
  <2>4. \A o \in Orders : /\ orders'[o].product = orders[o].product
                          /\ orders'[o].quantity = orders[o].quantity
                          /\ orders[o].status # "none" => orders'[o].status # "none"
    BY <2>1, <2>2 DEF IInv, TypeInv, TypeOK, OrderRow
  <2> HIDE DEF m
  <2>5. Marking' = Marking
    BY <2>3 DEF Marking
  <2>6. /\ \A o \in fulfilled \cup Marking : o \in Orders /\ orders[o].status # "none"
        /\ IsFiniteSet(fulfilled)
    BY HeldOrders DEF StockInv
  <2> QED BY <2>3, <2>4, <2>5, <2>6, StockKept
<1>4. CASE InventoryHandler
  <2>1. /\ UNCHANGED <<orders, stock, fulfilled, failures>>
        /\ call["inventory"].pc = "idle"
        /\ call'["inventory"].pc \in {"idle", "findFulfillment"}
    BY <1>4, CallType DEF InventoryHandler, orderVars
  <2>2. Marking' = Marking
    BY <2>1 DEF Marking
  <2> QED BY <2>1, <2>2, StockElsewhere
<1>5. CASE UNCHANGED <<orders, stock, fulfilled, call, failures>>
  <2>1. Marking' = Marking
    BY <1>5 DEF Marking
  <2> QED BY <1>5, <2>1, StockElsewhere
<1>6. (\E o \in Orders : AnnounceOrder(o)) \/ Payer \/ KafkaRetries \/ AllQuiet
        \/ UNCHANGED vars => UNCHANGED <<orders, stock, fulfilled, call, failures>>
  BY DEF AnnounceOrder, Payer, PaymentHandler, SavePayment, EmitPayment, KafkaRetries, AllQuiet, vars,
         orderVars, inventoryVars
<1> QED
  BY <1>1, <1>2, <1>3, <1>4, <1>5, <1>6, StockTryFulfill, StockFailures, NextCases

LEMMA StockInvariance == ASSUME ConsumerOnly PROVE Spec => [](IInv /\ StockInv)
<1>1. Init => StockInv
  BY StockInit
<1>2. IInv /\ StockInv /\ [Next]_vars => StockInv'
  BY StockStep
<1> QED BY <1>1, <1>2, SagaInvariance, PTL DEF Spec

\* As long as nothing fails, what has left the stock is what was fulfilled or is
\* about to be marked.
THEOREM StockIsAccounted == ASSUME ConsumerOnly PROVE Spec => []StockBalances
<1>1. IInv /\ StockInv => StockBalances
  <2>1. SUFFICES ASSUME StockInv, failures = 0, NEW p \in Products
                 PROVE  stock[p] + Quantity((fulfilled \cup Marking) \cap Of(p)) = InitialStock[p]
    BY DEF StockBalances, Marking
  <2> QED BY <2>1 DEF StockInv, Held
<1> QED BY <1>1, StockInvariance, PTL

\* No product is promised more often than it was in stock, whatever fails and
\* whatever is redelivered.
THEOREM NothingIsOversold ==
  ASSUME ConsumerOnly, NaturalStock
  PROVE  Spec => []NoOversell
<1>1. IInv /\ StockInv => NoOversell
  <2>1. SUFFICES ASSUME IInv, StockInv, NEW p \in Products
                 PROVE  QuantityOf(orders, fulfilled \cap Of(p)) <= InitialStock[p]
    BY DEF NoOversell, Quantity, QuantityOf, MapThenSumSet, MapThenFoldSet
  <2>2. stock[p] + QuantityOf(orders, Held(p)) <= InitialStock[p] /\ stock[p] >= 0
    BY <2>1 DEF StockInv, NaturalStock, Quantity, QuantityOf, MapThenSumSet, MapThenFoldSet
  <2>3. stock[p] \in Int /\ InitialStock[p] \in Int
    BY <2>1, RowTypes, SagaAssumption DEF IInv
  <2>4. /\ QuantityOf(orders, fulfilled \cap Of(p)) \in Int
        /\ QuantityOf(orders, Held(p)) \in Int
        /\ QuantityOf(orders, fulfilled \cap Of(p)) <= QuantityOf(orders, Held(p))
    BY <2>1, MarkedAsksLess DEF StockInv
  <2> QED BY <2>2, <2>3, <2>4
<1> QED BY <1>1, StockInvariance, PTL
==============================================================================
