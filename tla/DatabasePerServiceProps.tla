----------------------- MODULE DatabasePerServiceProps -----------------------
(***************************************************************************)
(* What lesson 4 promises, over the state of DatabasePerService.           *)
(***************************************************************************)
EXTENDS DatabasePerService, FiniteSets

\* Type invariant: the two databases, the topic and the consumer.
TypeOK ==
  /\ orders \subseteq Orders
  /\ emitting \subseteq OrderEvent
  /\ topic \in Seq(OrderEvent)
  /\ stock \in [Docs -> Int \cup {NoDoc}]
  /\ handler \in Handler
  /\ position \in 0 .. Len(topic)
  /\ committed \in {NoOffset} \cup 1 .. position
  /\ handler.pc \in {"find", "save", "saved"} => position < Len(topic)
  /\ failures \in 0 .. MaxFailures

\* No document is ever oversold, however often an event is delivered again:
\* the stock is checked in one query and written by another
\* (decrementStockByProductName).
NeverNegative == \A d \in Docs : stock[d] # NoDoc => stock[d] >= 0

\* A document changes only by being created or by giving an order what it asks
\* for, of the product that it asks for (decrementStockByProductName).
OnlyOrdersTake ==
  [][\A d \in Docs :
       stock'[d] # stock[d] =>
         \/ stock[d] = NoDoc
         \/ /\ Event.productName = NameOf[d]
            /\ Event.quantity > 0
            /\ stock'[d] = stock[d] - Event.quantity]_vars

\* Reference: the products after the first n events, each of which takes what
\* it asks for if there is as much.
Serve(event, products) ==
  [d \in Docs |->
     IF /\ NameOf[d] = event.productName
        /\ event.quantity # Null /\ event.quantity > 0
        /\ products[d] # NoDoc /\ products[d] >= event.quantity
     THEN products[d] - event.quantity ELSE products[d]]
Replay(n) ==
  LET after[i \in 0 .. n] == IF i = 0 THEN InitialStock ELSE Serve(topic[i], after[i - 1])
  IN  after[n]

\* As long as nothing fails, when all is handled every order has been announced,
\* and the products are what the orders have left: "The two databases are kept
\* consistent through the event" (flow-3-eventual-consistency-done.md:29).  It
\* speaks of the products that were there before, and have a name of their own.
DatabasesAgree ==
  Quiet /\ failures = 0 =>
    /\ \A o \in orders : \E i \in DOMAIN topic : topic[i].order = o
    /\ \A d \in Listed :
         (\A e \in Docs : NameOf[e] = NameOf[d] => e = d) => stock[d] = Replay(Len(topic))[d]

\* No event blocks those behind it, not even one for a product that does not
\* exist or that the stock does not suffice for (flow-5-ghost-product-done.md).
EveryEventIsPassed ==
  \A n \in 1 .. Cardinality(Orders) + MaxFailures : Len(topic) >= n ~> position >= n
=============================================================================
