---------------------- MODULE DatabasePerService_proofs ----------------------
(***************************************************************************)
(* Theorems about lesson 4, for any orders, products and failures.         *)
(***************************************************************************)
EXTENDS DatabasePerServiceProps, Induction

\* POST /inventory, which validates nothing, is asked for no negative stock.
NaturalStock == InitialStock \in [Docs -> Nat]

\* What the consumer knows between its queries is still true: nobody else
\* writes a document that exists.
HandlerKnows ==
  /\ handler.pc = "find" => Wanted(Event)
  /\ handler.pc = "save" =>
       /\ Wanted(Event)
       /\ stock[handler.doc] # NoDoc
       /\ NameOf[handler.doc] = Event.productName
       /\ handler.left = stock[handler.doc] - Event.quantity
       /\ handler.left >= 0

IInv == TypeOK /\ HandlerKnows /\ (NaturalStock => NeverNegative)

\* The handler at the start of a step.
LEMMA HandlingType ==
  ASSUME NEW pc \in {"off", "idle", "find"}
  PROVE  Handling(pc) \in Handler /\ Handling(pc).pc = pc
BY DatabaseAssumption DEF Handling, Handler

\* The message being handled.
LEMMA EventType ==
  ASSUME TypeOK, position < Len(topic)
  PROVE  Event \in OrderEvent
BY DEF TypeOK, Event

\* A message that is emitted leaves the one being handled where it is.
LEMMA EventStays ==
  ASSUME TypeOK, position < Len(topic), NEW event \in OrderEvent,
         topic' = Append(topic, event), UNCHANGED position
  PROVE  Event' = Event
BY DEF TypeOK, Event

\* The end of a handler.
LEMMA ReturnInvariant ==
  ASSUME TypeOK, position < Len(topic), Return, UNCHANGED <<orderVars, topic, stock, failures>>
  PROVE  TypeOK' /\ HandlerKnows' /\ (NeverNegative => NeverNegative')
<1>1. Handling("idle") \in Handler /\ Handling("idle").pc = "idle"
  BY HandlingType
<1> QED
  BY <1>1 DEF Return, TypeOK, HandlerKnows, NeverNegative, orderVars, NoOffset

LEMMA StepInvariant ==
  ASSUME IInv, [Next]_vars
  PROVE  IInv'
<1> USE DatabaseAssumption DEF IInv, orderVars, consumerVars
<1>1. CASE CreateOrder
  BY <1>1 DEF CreateOrder, TypeOK, HandlerKnows, NeverNegative, Event, OrderEvent
<1>2. CASE EmitOrder \/ KafkaRetries
  <2>1. PICK event \in emitting : topic' = Append(topic, event) /\ emitting' \subseteq emitting
    BY <1>2 DEF EmitOrder, KafkaRetries
  <2>2. event \in OrderEvent
    BY DEF TypeOK
  <2>3. topic' \in Seq(OrderEvent) /\ Len(topic') = Len(topic) + 1
    BY <2>1, <2>2 DEF TypeOK
  <2>4. TypeOK'
    BY <1>2, <2>1, <2>3 DEF EmitOrder, KafkaRetries, AnyFailure, TypeOK
  <2>5. HandlerKnows'
    <3>1. CASE handler.pc \in {"find", "save"}
      <4>1. Event' = Event
        BY <1>2, <2>1, <2>2, <3>1, EventStays DEF EmitOrder, KafkaRetries, TypeOK
      <4> QED BY <1>2, <4>1 DEF EmitOrder, KafkaRetries, HandlerKnows
    <3>2. CASE handler.pc \notin {"find", "save"}
      BY <1>2, <3>2 DEF EmitOrder, KafkaRetries, HandlerKnows
    <3> QED BY <3>1, <3>2
  <2> QED BY <1>2, <2>4, <2>5 DEF EmitOrder, KafkaRetries, NeverNegative
<1>3. ASSUME NEW d \in Docs, CreateProduct(d)
      PROVE  IInv'
  <2>1. stock[d] = NoDoc /\ stock' = [stock EXCEPT ![d] = InitialStock[d]]
    BY <1>3 DEF CreateProduct
  <2>2. \A e \in Docs : e # d => stock'[e] = stock[e]
    BY <2>1 DEF TypeOK
  <2>3. stock'[d] = InitialStock[d] /\ InitialStock[d] \in Int
    BY <2>1 DEF TypeOK
  <2>4. TypeOK'
    BY <1>3, <2>1, <2>3 DEF CreateProduct, TypeOK
  <2>5. NaturalStock => (NeverNegative => NeverNegative')
    BY <2>2, <2>3 DEF NeverNegative, NaturalStock
  <2>6. handler.pc = "save" => stock'[handler.doc] = stock[handler.doc]
    BY <2>1, <2>2 DEF HandlerKnows, TypeOK, Handler
  <2>7. HandlerKnows'
    BY <1>3, <2>6 DEF CreateProduct, HandlerKnows, Event
  <2> QED BY <2>4, <2>5, <2>7
<1>4. CASE InventoryBootstrap
  <2>1. Handling("idle") \in Handler /\ Handling("idle").pc = "idle"
    BY HandlingType
  <2> QED BY <1>4, <2>1 DEF InventoryBootstrap, TypeOK, HandlerKnows, NeverNegative, NoOffset
<1>5. CASE OnOrder
  <2>1. CASE Wanted(Event)
    <3>1. Handling("find") \in Handler /\ Handling("find").pc = "find"
      BY HandlingType
    <3> QED BY <1>5, <2>1, <3>1 DEF OnOrder, TypeOK, HandlerKnows, NeverNegative, Event
  <2>2. CASE ~ Wanted(Event)
    BY <1>5, <2>2, ReturnInvariant DEF OnOrder
  <2> QED BY <2>1, <2>2
<1>6. CASE FindProduct
  <2>1. position < Len(topic) /\ Event \in OrderEvent
    BY <1>6, EventType DEF FindProduct, TypeOK
  <2>2. CASE Return
    BY <1>6, <2>1, <2>2, ReturnInvariant DEF FindProduct
  <2>3. ASSUME NEW d \in Named(Event.productName), stock[d] >= Event.quantity,
               handler' = Find(d), UNCHANGED <<position, committed>>
        PROVE  IInv'
    <3>1. d \in Docs /\ NameOf[d] = Event.productName /\ stock[d] # NoDoc
      BY DEF Named
    <3>2. Wanted(Event) /\ Event.quantity \in Int /\ stock[d] \in Int
      BY <1>6, <2>1, <3>1 DEF FindProduct, HandlerKnows, Wanted, OrderEvent, TypeOK
    <3>3. handler' = [pc |-> "save", doc |-> d, left |-> stock[d] - Event.quantity]
      BY <2>3 DEF Find
    <3>4. handler' \in Handler
      BY <3>1, <3>2, <3>3 DEF Handler
    <3>5. TypeOK'
      BY <1>6, <2>1, <2>3, <3>4 DEF FindProduct, TypeOK
    <3>6. HandlerKnows'
      BY <1>6, <2>3, <3>1, <3>2, <3>3 DEF FindProduct, HandlerKnows, Event
    <3> QED BY <1>6, <3>5, <3>6 DEF FindProduct, NeverNegative
  <2>4. \/ Return
        \/ \E d \in Named(Event.productName) :
             stock[d] >= Event.quantity /\ handler' = Find(d) /\ UNCHANGED <<position, committed>>
    <3>1. \A d \in Named(Event.productName) : stock[d] \in Int
      BY DEF Named, TypeOK
    <3>2. Event.quantity \in Int
      BY <1>6, <2>1 DEF FindProduct, HandlerKnows, Wanted, OrderEvent
    <3> QED BY <1>6, <3>1, <3>2 DEF FindProduct
  <2> QED BY <2>2, <2>3, <2>4
<1>7. CASE SaveProduct
  <2>1. /\ handler.doc \in Docs /\ handler.left \in Nat
        /\ stock' = [stock EXCEPT ![handler.doc] = handler.left]
        /\ handler' = [handler EXCEPT !.pc = "saved"]
    BY <1>7 DEF SaveProduct, HandlerKnows, TypeOK, Handler
  <2>2. handler' \in Handler /\ handler'.pc = "saved"
    BY <2>1 DEF TypeOK, Handler
  <2> QED BY <1>7, <2>1, <2>2 DEF SaveProduct, TypeOK, HandlerKnows, NeverNegative
<1>8. CASE FinishOrder
  BY <1>8, ReturnInvariant DEF FinishOrder, TypeOK
<1>9. CASE RequestFails \/ OrderBootstrap
  BY <1>9 DEF RequestFails, OrderBootstrap, AnyFailure, TypeOK, HandlerKnows, NeverNegative, Event
<1>10. CASE HandlerFails \/ Crash
  <2>1. \A pc \in {"idle", "off"} : Handling(pc) \in Handler /\ Handling(pc).pc = pc
    BY HandlingType
  <2> QED BY <1>10, <2>1 DEF HandlerFails, Crash, AnyFailure, TypeOK, HandlerKnows, NeverNegative
<1>11. CASE UNCHANGED vars
  BY <1>11 DEF vars, TypeOK, HandlerKnows, NeverNegative, Event
<1> QED
  BY <1>1, <1>2, <1>3, <1>4, <1>5, <1>6, <1>7, <1>8, <1>9, <1>10, <1>11
     DEF Next, AllQuiet, OrdersModule, OrdersController, OrdersService, InventoryModule,
         InventoryController, OrderEventsController, DecrementStockByProductName

LEMMA Invariant == Spec => []IInv
<1>1. Init => IInv
  <2>1. \A pc \in {"idle", "off"} : Handling(pc) \in Handler /\ Handling(pc).pc = pc
    BY HandlingType
  <2> QED BY <2>1, DatabaseAssumption
          DEF NaturalStock, Init, IInv, TypeOK, HandlerKnows, NeverNegative, NoOffset
<1> QED
  BY <1>1, StepInvariant, PTL DEF Spec

\* The databases, the topic and the consumer keep their types.
THEOREM TypeCorrect == Spec => []TypeOK
BY Invariant, PTL DEF IInv

\* No product is oversold, however often events are delivered again.
THEOREM NoOversell ==
  ASSUME NaturalStock
  PROVE  Spec => []NeverNegative
<1>1. IInv => NeverNegative
  BY DEF IInv
<1> QED BY <1>1, Invariant, PTL

\* A document changes only by its creation or by what an order asks for.
THEOREM StockIsTakenByOrders == Spec => OnlyOrdersTake
<1>1. ASSUME IInv, [Next]_vars
      PROVE  [\A d \in Docs :
                stock'[d] # stock[d] =>
                  \/ stock[d] = NoDoc
                  \/ /\ Event.productName = NameOf[d]
                     /\ Event.quantity > 0
                     /\ stock'[d] = stock[d] - Event.quantity]_vars
  <2>1. CASE \E d \in Docs : CreateProduct(d)
    BY <1>1, <2>1 DEF CreateProduct, IInv, TypeOK
  <2>2. CASE SaveProduct
    BY <1>1, <2>2 DEF SaveProduct, IInv, TypeOK, HandlerKnows, Wanted
  <2>3. CASE UNCHANGED stock
    BY <2>3
  <2>4. (\/ CreateOrder \/ EmitOrder \/ InventoryBootstrap \/ OnOrder \/ FindProduct \/ FinishOrder
         \/ KafkaRetries \/ RequestFails \/ OrderBootstrap \/ HandlerFails \/ Crash \/ UNCHANGED vars)
        => UNCHANGED stock
    BY DEF CreateOrder, EmitOrder, InventoryBootstrap, OnOrder, FindProduct, FinishOrder, KafkaRetries,
           RequestFails, OrderBootstrap, HandlerFails, Crash, vars
  <2> QED
    BY <1>1, <2>1, <2>2, <2>3, <2>4
       DEF Next, AllQuiet, OrdersModule, OrdersController, OrdersService, InventoryModule,
           InventoryController, OrderEventsController, DecrementStockByProductName
<1> QED
  BY <1>1, Invariant, PTL DEF Spec, OnlyOrdersTake

-----------------------------------------------------------------------------
(* The reference of DatabasesAgree, step by step.                          *)

\* What Replay computes, for any log of events.
IsReplay(after, log, n) ==
  after = [i \in 0 .. n |-> IF i = 0 THEN InitialStock ELSE Serve(log[i], after[i - 1])]
Serves(after, log, n) ==
  /\ after[0] = InitialStock
  /\ \A i \in 1 .. n : after[i] = Serve(log[i], after[i - 1])

\* The events can be served one after the other.
LEMMA ReplayExists ==
  ASSUME NEW log, NEW n \in Nat
  PROVE  \E after : IsReplay(after, log, n)
<1> DEFINE S == {m \in Nat : \E after : IsReplay(after, log, m)}
<1>1. 0 \in S
  <2> DEFINE after == [i \in 0 .. 0 |-> InitialStock]
  <2>1. IsReplay(after, log, 0)
    BY DEF IsReplay
  <2> QED BY <2>1
<1>2. ASSUME NEW m \in Nat, m \in S
      PROVE  m + 1 \in S
  <2>1. PICK before : IsReplay(before, log, m)
    BY <1>2
  <2> DEFINE after == [i \in 0 .. m + 1 |->
                         IF i = m + 1 THEN Serve(log[i], before[m]) ELSE before[i]]
  <2>2. ASSUME NEW i \in 0 .. m + 1
        PROVE  after[i] = IF i = 0 THEN InitialStock ELSE Serve(log[i], after[i - 1])
    <3>1. CASE i = m + 1
      <4>1. after[i - 1] = before[m] /\ i # 0
        BY <3>1
      <4>2. after[i] = Serve(log[i], before[m])
        BY <3>1
      <4> QED BY <4>1, <4>2
    <3>2. CASE i # m + 1
      <4>1. i \in 0 .. m
        BY <3>2
      <4>2. before[i] = IF i = 0 THEN InitialStock ELSE Serve(log[i], before[i - 1])
        BY <2>1, <4>1 DEF IsReplay
      <4>3. i # 0 => after[i - 1] = before[i - 1]
        BY <4>1
      <4> QED BY <3>2, <4>2, <4>3
    <3> QED BY <3>1, <3>2
  <2>3. IsReplay(after, log, m + 1)
    <3> HIDE DEF after
    <3>1. after = [i \in 0 .. m + 1 |-> after[i]]
      BY DEF after
    <3> QED BY <2>2, <3>1, Zenon DEF IsReplay
  <2> QED BY <2>3
<1>3. \A m \in Nat : m \in S
  <2> HIDE DEF S
  <2> QED BY <1>1, <1>2, SetInduction
<1> QED BY <1>3

\* Replay, for any log of events.
ReplayOf(log, n) ==
  LET after[i \in 0 .. n] == IF i = 0 THEN InitialStock ELSE Serve(log[i], after[i - 1])
  IN  after[n]

\* ReplayOf is the last of such products.
LEMMA ReplayServes ==
  ASSUME NEW log, NEW n \in Nat
  PROVE  \E after : Serves(after, log, n) /\ ReplayOf(log, n) = after[n]
<1> DEFINE P(f) == f = [i \in 0 .. n |-> IF i = 0 THEN InitialStock ELSE Serve(log[i], f[i - 1])]
<1>1. PICK g : IsReplay(g, log, n)
  BY ReplayExists
<1>2. \A f : P(f) <=> IsReplay(f, log, n)
  BY Zenon DEF IsReplay
<1>3. P(CHOOSE f : P(f))
  BY <1>1, <1>2
<1>4. ReplayOf(log, n) = (CHOOSE f : P(f))[n]
  BY DEF ReplayOf
<1>5. PICK f : IsReplay(f, log, n) /\ ReplayOf(log, n) = f[n]
  BY <1>2, <1>3, <1>4
<1>6. \A i \in 0 .. n : f[i] = IF i = 0 THEN InitialStock ELSE Serve(log[i], f[i - 1])
  BY <1>5, Zenon DEF IsReplay
<1>7. Serves(f, log, n)
  BY <1>6 DEF Serves
<1> QED BY <1>5, <1>7

LEMMA ReplayOfTopic ==
  ASSUME NEW n \in Nat
  PROVE  Replay(n) = ReplayOf(topic, n) /\ Replay(n)' = ReplayOf(topic', n)
BY DEF Replay, ReplayOf

\* Two logs that agree on the first n events leave the same products.
LEMMA ServesAgree ==
  ASSUME NEW f, NEW g, NEW log1, NEW log2, NEW n \in Nat,
         Serves(f, log1, n), Serves(g, log2, n),
         \A i \in 1 .. n : log1[i] = log2[i]
  PROVE  \A i \in 0 .. n : f[i] = g[i]
<1> DEFINE S == {m \in Nat : m <= n => f[m] = g[m]}
<1>1. 0 \in S
  BY DEF Serves
<1>2. ASSUME NEW m \in Nat, m \in S
      PROVE  m + 1 \in S
  <2>1. SUFFICES ASSUME m + 1 <= n PROVE f[m + 1] = g[m + 1]
    OBVIOUS
  <2>2. m + 1 \in 1 .. n /\ f[m] = g[m] /\ (m + 1) - 1 = m
    BY <1>2, <2>1
  <2> QED BY <2>2 DEF Serves
<1>3. \A m \in Nat : m \in S
  <2> HIDE DEF S
  <2> QED BY <1>1, <1>2, SetInduction
<1> QED BY <1>3

\* The products after an event are those before it, served.
LEMMA ReplayUnfolds ==
  ASSUME NEW n \in Nat
  PROVE  Replay(n + 1) = Serve(topic[n + 1], Replay(n))
<1>1. PICK f : Serves(f, topic, n + 1) /\ Replay(n + 1) = f[n + 1]
  BY ReplayServes, ReplayOfTopic
<1>2. PICK g : Serves(g, topic, n) /\ Replay(n) = g[n]
  BY ReplayServes, ReplayOfTopic
<1>3. Serves(f, topic, n)
  BY <1>1 DEF Serves
<1>4. f[n] = g[n]
  BY <1>2, <1>3, ServesAgree
<1>5. f[n + 1] = Serve(topic[n + 1], f[n])
  BY <1>1 DEF Serves
<1> QED BY <1>1, <1>2, <1>4, <1>5

LEMMA ReplayStarts == Replay(0) = InitialStock
BY ReplayServes, ReplayOfTopic DEF Serves

\* An event that is appended changes nothing of what those before it left.
LEMMA ReplayStays ==
  ASSUME NEW n \in Nat, \A i \in 1 .. n : topic'[i] = topic[i]
  PROVE  Replay(n)' = Replay(n)
<1>1. PICK f : Serves(f, topic, n) /\ Replay(n) = f[n]
  BY ReplayServes, ReplayOfTopic
<1>2. PICK g : Serves(g, topic', n) /\ Replay(n)' = g[n]
  BY ReplayServes, ReplayOfTopic
<1> QED BY <1>1, <1>2, ServesAgree

\* Served products have a stock that is a number.
LEMMA ReplayType ==
  ASSUME topic \in Seq(OrderEvent), NEW n \in 0 .. Len(topic)
  PROVE  Replay(n) \in [Docs -> Int]
<1> DEFINE S == {m \in Nat : m <= Len(topic) => Replay(m) \in [Docs -> Int]}
<1>1. 0 \in S
  BY ReplayStarts, DatabaseAssumption
<1>2. ASSUME NEW m \in Nat, m \in S
      PROVE  m + 1 \in S
  <2>1. SUFFICES ASSUME m + 1 <= Len(topic) PROVE Replay(m + 1) \in [Docs -> Int]
    OBVIOUS
  <2>2. Replay(m) \in [Docs -> Int] /\ topic[m + 1] \in OrderEvent
    BY <1>2, <2>1
  <2>3. Replay(m + 1) = Serve(topic[m + 1], Replay(m))
    BY ReplayUnfolds
  <2>4. topic[m + 1].quantity # Null => topic[m + 1].quantity \in Int
    BY <2>2, DatabaseAssumption DEF OrderEvent
  <2> QED BY <2>2, <2>3, <2>4 DEF Serve
<1>3. \A m \in Nat : m \in S
  <2> HIDE DEF S
  <2> QED BY <1>1, <1>2, SetInduction
<1> QED BY <1>3

-----------------------------------------------------------------------------
(* The two databases, as long as nothing fails.                            *)

\* A document that was there before, and is the only one of its name.
Own(d) == d \in Listed /\ \A e \in Docs : NameOf[e] = NameOf[d] => e = d

\* Every order that is saved is in memory still, or announced.
Announced ==
  \A o \in orders : \/ \E event \in emitting : event.order = o
                    \/ \E i \in DOMAIN topic : topic[i].order = o

\* How many events the collection has in it.
Served == IF handler.pc = "saved" THEN position + 1 ELSE position

StockFollows == \A d \in Docs : Own(d) => stock[d] = Replay(Served)[d]

AgreeInv == failures = 0 => handler.pc # "off" /\ Announced /\ StockFollows

\* The collection, the topic and the number of events in it stay.
LEMMA StockStays ==
  ASSUME TypeOK, StockFollows, UNCHANGED <<stock, topic>>, Served' = Served
  PROVE  StockFollows'
<1>1. Served \in Nat
  BY DEF TypeOK, Served
<1>2. Replay(Served)' = Replay(Served)
  <2>1. \A n \in Nat : Replay(n)' = Replay(n)
    BY ReplayStays
  <2> QED BY <1>1, <2>1
<1> QED BY <1>2 DEF StockFollows, Own

\* What an event leaves of a document that is alone with its name.
LEMMA ServeOwn ==
  ASSUME TypeOK, position < Len(topic), NEW d \in Docs, Own(d),
         stock[d] = Replay(position)[d]
  PROVE  /\ stock[d] \in Int
         /\ Replay(position + 1)[d] =
              IF Wanted(Event) /\ NameOf[d] = Event.productName /\ stock[d] >= Event.quantity
              THEN stock[d] - Event.quantity ELSE stock[d]
<1>1. position \in 0 .. Len(topic) /\ topic \in Seq(OrderEvent)
  BY DEF TypeOK
<1>2. stock[d] \in Int /\ stock[d] # NoDoc
  BY <1>1, ReplayType, DatabaseAssumption
<1>3. Replay(position + 1) = Serve(Event, Replay(position))
  BY <1>1, ReplayUnfolds DEF Event
<1>4. NameOf[d] # Null
  BY DatabaseAssumption
<1> QED BY <1>2, <1>3, <1>4 DEF Serve, Wanted

\* A message that is skipped leaves the collection as its event does.
LEMMA SkipAgrees ==
  ASSUME TypeOK, StockFollows, position < Len(topic), handler.pc # "saved", Return,
         UNCHANGED <<topic, stock>>,
         \A d \in Docs : /\ Own(d) /\ Wanted(Event) /\ NameOf[d] = Event.productName
                         /\ stock[d] \in Int
                         => stock[d] < Event.quantity
  PROVE  StockFollows'
<1>1. position \in Nat /\ Served = position /\ position' = position + 1
  BY DEF TypeOK, Served, Return
<1>2. handler'.pc = "idle"
  BY HandlingType DEF Return
<1>3. Served' = position + 1
  BY <1>1, <1>2 DEF Served
<1>4. \A n \in Nat : ReplayOf(topic', n) = ReplayOf(topic, n)
  OBVIOUS
<1>5. \A d \in Docs : Own(d) => stock'[d] = Replay(position + 1)[d]
  <2>1. SUFFICES ASSUME NEW d \in Docs, Own(d) PROVE stock[d] = Replay(position + 1)[d]
    OBVIOUS
  <2>2. stock[d] = Replay(position)[d]
    BY <1>1, <2>1 DEF StockFollows
  <2>3. Event \in OrderEvent
    BY EventType
  <2>4. Wanted(Event) => Event.quantity \in Int
    BY <2>3, DatabaseAssumption DEF Wanted, OrderEvent
  <2> QED BY <2>1, <2>2, <2>4, ServeOwn
<1>6. StockFollows' = \A d \in Docs : Own(d) => stock'[d] = ReplayOf(topic', Served')[d]
  BY DEF StockFollows, Replay, ReplayOf, Own
<1>7. Replay(position + 1) = ReplayOf(topic', Served')
  BY <1>1, <1>3, <1>4, ReplayOfTopic
<1> QED BY <1>5, <1>6, <1>7

\* Every step but a failure keeps the two databases together.
LEMMA StepAgrees ==
  ASSUME IInv, AgreeInv, failures' = 0, [Next]_vars
  PROVE  AgreeInv'
<1> USE DEF orderVars, consumerVars
<1>1. /\ failures = 0
      /\ ~ (KafkaRetries \/ RequestFails \/ OrderBootstrap \/ HandlerFails \/ Crash)
  <2>1. failures \in Nat
    BY DEF IInv, TypeOK
  <2>2. ~ AnyFailure
    BY <2>1 DEF AnyFailure
  <2>3. ~ (KafkaRetries \/ RequestFails \/ OrderBootstrap \/ HandlerFails \/ Crash)
    BY <2>2 DEF KafkaRetries, RequestFails, OrderBootstrap, HandlerFails, Crash
  <2>4. UNCHANGED failures
    BY <2>3 DEF Next, AllQuiet, OrdersModule, OrdersController, OrdersService, InventoryModule,
                InventoryController, OrderEventsController, DecrementStockByProductName, CreateOrder,
                EmitOrder, CreateProduct, InventoryBootstrap, OnOrder, FindProduct, SaveProduct,
                FinishOrder, vars
  <2> QED BY <2>3, <2>4
<1>2. TypeOK /\ TypeOK' /\ HandlerKnows /\ handler.pc # "off" /\ Announced /\ StockFollows
  BY <1>1, StepInvariant DEF IInv, AgreeInv
<1>3. ~ InventoryBootstrap
  BY <1>2 DEF InventoryBootstrap
<1>4. SUFFICES handler'.pc # "off" /\ Announced' /\ StockFollows'
  BY DEF AgreeInv
<1>5. CASE UNCHANGED <<orders, emitting, topic>>
  <2>1. Announced'
    BY <1>2, <1>5 DEF Announced
  <2>2. CASE UNCHANGED <<stock, handler, position>>
    <3>1. Served' = Served
      BY <2>2 DEF Served
    <3> QED BY <1>2, <1>5, <2>1, <2>2, <3>1, StockStays
  <2>3. ASSUME NEW d \in Docs, CreateProduct(d)
        PROVE  handler'.pc # "off" /\ StockFollows'
    <3>1. stock[d] = NoDoc /\ stock' = [stock EXCEPT ![d] = InitialStock[d]]
          /\ UNCHANGED <<topic, handler, position>>
      BY <2>3 DEF CreateProduct
    <3>2. Served \in 0 .. Len(topic) /\ Served' = Served
      BY <1>2, <3>1 DEF TypeOK, Served
    <3>3. Replay(Served) \in [Docs -> Int]
      BY <1>2, <3>2, ReplayType DEF TypeOK
    <3>4. ~ Own(d)
      BY <1>2, <3>1, <3>3, DatabaseAssumption DEF StockFollows
    <3>5. \A e \in Docs : Own(e) => stock'[e] = Replay(Served)[e]
      BY <1>2, <3>1, <3>4 DEF StockFollows, TypeOK
    <3>6. StockFollows' = \A e \in Docs : Own(e) => stock'[e] = ReplayOf(topic', Served')[e]
      BY DEF StockFollows, Replay, ReplayOf, Own
    <3> QED BY <1>2, <3>1, <3>2, <3>5, <3>6, ReplayOfTopic
  <2>4. CASE OnOrder
    <3>1. handler.pc = "idle" /\ position < Len(topic) /\ UNCHANGED <<topic, stock>>
      BY <2>4 DEF OnOrder
    <3>2. CASE Wanted(Event)
      <4>1. handler' = Handling("find") /\ UNCHANGED position
        BY <2>4, <3>2 DEF OnOrder
      <4>2. handler'.pc = "find" /\ Served' = Served
        BY <3>1, <4>1, HandlingType DEF Served
      <4> QED BY <1>2, <2>1, <3>1, <4>2, StockStays
    <3>3. CASE ~ Wanted(Event)
      <4>1. Return
        BY <2>4, <3>3 DEF OnOrder
      <4>2. handler'.pc = "idle"
        BY <4>1, HandlingType DEF Return
      <4>3. StockFollows'
        BY <1>2, <3>1, <3>3, <4>1, SkipAgrees
      <4> QED BY <2>1, <4>2, <4>3
    <3> QED BY <3>2, <3>3
  <2>5. CASE FindProduct
    <3>1. /\ handler.pc = "find" /\ position < Len(topic) /\ UNCHANGED <<topic, stock>>
          /\ Wanted(Event)
      BY <1>2, <2>5 DEF FindProduct, TypeOK, HandlerKnows
    <3>2. Event \in OrderEvent /\ Event.quantity \in Int
      BY <1>2, <3>1, EventType, DatabaseAssumption DEF OrderEvent, Wanted
    <3>3. ASSUME Return,
                 \A d \in Docs : /\ Own(d) /\ Wanted(Event) /\ NameOf[d] = Event.productName
                                 /\ stock[d] \in Int
                                 => stock[d] < Event.quantity
          PROVE  handler'.pc # "off" /\ StockFollows'
      <4>1. handler'.pc = "idle"
        BY <3>3, HandlingType DEF Return
      <4> QED BY <1>2, <3>1, <3>3, <4>1, SkipAgrees
    <3>4. CASE Named(Event.productName) = {} /\ Return
      BY <2>1, <3>3, <3>4, DatabaseAssumption DEF Named
    <3>5. ASSUME NEW d \in Named(Event.productName), stock[d] < Event.quantity, Return
          PROVE  handler'.pc # "off" /\ StockFollows'
      BY <3>3, <3>5 DEF Named, Own
    <3>6. ASSUME NEW d \in Named(Event.productName), handler' = Find(d), UNCHANGED position
          PROVE  handler'.pc # "off" /\ StockFollows'
      <4>1. handler'.pc = "save" /\ Served' = Served
        BY <3>1, <3>6 DEF Find, Served
      <4> QED BY <1>2, <3>1, <4>1, StockStays
    <3> QED BY <2>1, <2>5, <3>4, <3>5, <3>6 DEF FindProduct
  <2>6. CASE SaveProduct
    <3>1. /\ handler.pc = "save" /\ handler'.pc = "saved"
          /\ position < Len(topic) /\ UNCHANGED <<topic, position>>
          /\ stock' = [stock EXCEPT ![handler.doc] = handler.left]
      BY <1>2, <2>6 DEF SaveProduct, TypeOK, Handler
    <3>2. /\ Wanted(Event) /\ handler.doc \in Docs /\ stock[handler.doc] \in Int
          /\ NameOf[handler.doc] = Event.productName
          /\ handler.left = stock[handler.doc] - Event.quantity /\ handler.left >= 0
      BY <1>2, <3>1 DEF HandlerKnows, TypeOK, Handler
    <3>3. Served = position /\ Served' = position + 1 /\ position \in Nat
      BY <1>2, <3>1 DEF Served, TypeOK
    <3>4. Event.quantity \in Int
      BY <1>2, <3>1, <3>2, EventType, DatabaseAssumption DEF OrderEvent, Wanted
    <3>5. ASSUME NEW d \in Docs, Own(d)
          PROVE  stock'[d] = Replay(position + 1)[d]
      <4>1. stock[d] = Replay(position)[d]
        BY <1>2, <3>3, <3>5 DEF StockFollows
      <4>2. /\ stock[d] \in Int
            /\ Replay(position + 1)[d] =
                 IF Wanted(Event) /\ NameOf[d] = Event.productName /\ stock[d] >= Event.quantity
                 THEN stock[d] - Event.quantity ELSE stock[d]
        BY <1>2, <3>1, <3>5, <4>1, ServeOwn
      <4>3. CASE d = handler.doc
        BY <1>2, <3>1, <3>2, <3>4, <4>2, <4>3 DEF TypeOK
      <4>4. CASE d # handler.doc
        <5>1. NameOf[d] # Event.productName
          BY <3>2, <3>5, <4>4 DEF Own
        <5>2. stock'[d] = stock[d]
          BY <1>2, <3>1, <4>4 DEF TypeOK
        <5> QED BY <4>2, <5>1, <5>2
      <4> QED BY <4>3, <4>4
    <3>6. StockFollows' = \A e \in Docs : Own(e) => stock'[e] = ReplayOf(topic', Served')[e]
      BY DEF StockFollows, Replay, ReplayOf, Own
    <3>7. Replay(position + 1) = ReplayOf(topic', Served')
      BY <3>1, <3>3, ReplayOfTopic
    <3> QED BY <2>1, <3>1, <3>5, <3>6, <3>7
  <2>7. CASE FinishOrder
    <3>1. /\ handler.pc = "saved" /\ handler'.pc = "idle" /\ position' = position + 1
          /\ UNCHANGED <<topic, stock>>
      BY <2>7, HandlingType DEF FinishOrder, Return
    <3>2. Served' = Served
      BY <3>1 DEF Served
    <3> QED BY <1>2, <2>1, <3>1, <3>2, StockStays
  <2>8. UNCHANGED vars => UNCHANGED <<stock, handler, position>>
    BY DEF vars
  <2>9. ~ CreateOrder /\ ~ EmitOrder
    <3>1. CASE CreateOrder
      BY <1>5, <3>1 DEF CreateOrder
    <3>2. CASE EmitOrder
      <4>1. PICK event \in emitting : topic' = Append(topic, event)
        BY <3>2 DEF EmitOrder
      <4>2. Len(topic') = Len(topic) + 1 /\ Len(topic) \in Nat
        BY <1>2, <4>1 DEF TypeOK
      <4> QED BY <1>5, <4>2
    <3> QED BY <3>1, <3>2
  <2> QED
    BY <1>1, <1>3, <2>1, <2>2, <2>3, <2>4, <2>5, <2>6, <2>7, <2>8, <2>9
       DEF Next, AllQuiet, OrdersModule, OrdersController, OrdersService, InventoryModule,
           InventoryController, OrderEventsController, DecrementStockByProductName
<1>6. CASE CreateOrder
  <2>1. UNCHANGED <<topic, stock, handler, position>>
    BY <1>6 DEF CreateOrder
  <2>2. Served' = Served
    BY <2>1 DEF Served
  <2>3. PICK event \in OrderEvent : /\ orders' = orders \cup {event.order}
                                    /\ emitting' = emitting \cup {event}
    BY <1>6 DEF CreateOrder
  <2>4. Announced'
    BY <1>2, <2>1, <2>3 DEF Announced
  <2> QED BY <1>2, <2>1, <2>2, <2>4, StockStays
<1>7. CASE EmitOrder
  <2>1. UNCHANGED <<orders, stock, handler, position>>
    BY <1>7 DEF EmitOrder
  <2>2. PICK event \in emitting : topic' = Append(topic, event) /\ emitting' = emitting \ {event}
    BY <1>7 DEF EmitOrder
  <2>3. /\ topic \in Seq(OrderEvent) /\ event \in OrderEvent
        /\ Len(topic') = Len(topic) + 1
        /\ topic'[Len(topic) + 1] = event
        /\ \A i \in 1 .. Len(topic) : topic'[i] = topic[i]
    BY <1>2, <2>2 DEF TypeOK
  <2>4. Announced'
    <3>1. SUFFICES ASSUME NEW o \in orders
                   PROVE  \/ \E e \in emitting' : e.order = o
                          \/ \E i \in DOMAIN topic' : topic'[i].order = o
      BY <2>1 DEF Announced
    <3>2. DOMAIN topic = 1 .. Len(topic) /\ DOMAIN topic' = 1 .. Len(topic')
          /\ Len(topic) \in Nat
      BY <1>2, <2>3 DEF TypeOK
    <3>3. CASE event.order = o
      BY <2>3, <3>2, <3>3
    <3>4. CASE event.order # o /\ \E e \in emitting : e.order = o
      BY <2>2, <3>4
    <3>5. CASE \E i \in DOMAIN topic : topic[i].order = o
      BY <2>3, <3>2, <3>5
    <3> QED BY <1>2, <3>3, <3>4, <3>5 DEF Announced
  <2>5. Served \in 0 .. Len(topic) /\ Served' = Served
    BY <1>2, <2>1 DEF TypeOK, Served
  <2>6. \A i \in 1 .. Served : topic'[i] = topic[i]
    BY <2>3, <2>5
  <2>7. ReplayOf(topic', Served') = Replay(Served)
    <3>1. \A n \in Nat : (\A i \in 1 .. n : topic'[i] = topic[i])
                         => ReplayOf(topic', n) = ReplayOf(topic, n)
      BY ReplayStays, ReplayOfTopic
    <3> QED BY <2>5, <2>6, <3>1, ReplayOfTopic
  <2>8. StockFollows' = \A d \in Docs : Own(d) => stock'[d] = ReplayOf(topic', Served')[d]
    BY DEF StockFollows, Replay, ReplayOf, Own
  <2> QED BY <1>2, <2>1, <2>4, <2>7, <2>8 DEF StockFollows
<1> QED
  BY <1>1, <1>3, <1>5, <1>6, <1>7
     DEF Next, AllQuiet, OrdersModule, OrdersController, OrdersService, InventoryModule,
         InventoryController, OrderEventsController, DecrementStockByProductName, CreateProduct,
         OnOrder, FindProduct, SaveProduct, FinishOrder, vars

\* When nothing has failed and all is quiet, every order has been announced, and
\* the stock of every product is what the orders have left.
THEOREM DatabasesStayTogether == Spec => []DatabasesAgree
<1>1. Init => AgreeInv
  <2>1. SUFFICES ASSUME Init PROVE AgreeInv
    OBVIOUS
  <2>2. handler.pc = "idle" /\ Served = 0
    BY <2>1, HandlingType DEF Init, Served
  <2>3. \A d \in Docs : Own(d) => stock[d] = InitialStock[d]
    BY <2>1 DEF Init, Own
  <2>4. Announced
    BY <2>1 DEF Init, Announced
  <2> QED BY <2>2, <2>3, <2>4, ReplayStarts DEF AgreeInv, StockFollows
<1>2. ASSUME IInv, IInv', AgreeInv, [Next]_vars
      PROVE  AgreeInv'
  BY <1>2, StepAgrees DEF AgreeInv
<1>3. IInv /\ AgreeInv => DatabasesAgree
  <2>1. SUFFICES ASSUME IInv, AgreeInv, Quiet, failures = 0
                 PROVE  /\ \A o \in orders : \E i \in DOMAIN topic : topic[i].order = o
                        /\ \A d \in Listed :
                             (\A e \in Docs : NameOf[e] = NameOf[d] => e = d)
                             => stock[d] = Replay(Len(topic))[d]
    BY DEF DatabasesAgree
  <2>2. Served = Len(topic)
    BY <2>1 DEF Quiet, Served
  <2>3. \A o \in orders : \E i \in DOMAIN topic : topic[i].order = o
    BY <2>1 DEF AgreeInv, Announced, Quiet
  <2>4. \A d \in Listed : d \in Docs
    BY DatabaseAssumption
  <2> QED BY <2>1, <2>2, <2>3, <2>4 DEF AgreeInv, StockFollows, Own
<1> QED BY <1>1, <1>2, <1>3, Invariant, PTL DEF Spec
==============================================================================
