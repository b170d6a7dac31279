------------------------------ MODULE SagaProps ------------------------------
(***************************************************************************)
(* What the saga of lesson 5 promises, over the state of Saga.             *)
(***************************************************************************)
EXTENDS Saga, FiniteSetsExt

\* Type invariant: the tables, the running handlers, the topic and the offsets.
TypeOK ==
  /\ orders \in [Orders -> OrderRow]
  /\ announcing \subseteq Orders
  /\ payments \in [Orders -> PaymentStatus]
  /\ paying \in Payment
  /\ stock \in [Products -> Int]
  /\ fulfilled \subseteq Orders
  /\ call \in [Callers -> Call]
  /\ topic \in Seq(SagaEvent)
  /\ position \in [Services -> 0 .. Len(topic)]
  /\ committed \in [Services -> Nat]
  /\ \A s \in Services : committed[s] <= position[s]
  /\ failures \in 0 .. MaxFailures
  /\ resent \in Seq(SagaEvent) /\ Len(resent) <= MaxResends

Emitted(name, o) == \E i \in DOMAIN topic : topic[i] = Event(name, o)
Once(name, o) ==
  \A i \in DOMAIN topic :
    topic[i] = Event(name, o) => \A j \in DOMAIN topic : topic[j] = topic[i] => j = i

\* A service emits the event once.  It may be on the topic again only because the
\* producer has sent it again, when an acknowledgement was lost.
SentAgain(name, o) == \E i \in DOMAIN resent : resent[i] = Event(name, o)
EmittedOnce(name, o) == Once(name, o) \/ SentAgain(name, o)

\* "Idempotency guard to avoid double-capture when event is re-delivered"
\* (payment.service.ts:45): whatever is redelivered or appended twice, and
\* however often the inventory service reports an order, it is captured and
\* refunded once.
MoneyMovesOnce ==
  \A o \in Orders :
    EmittedOnce("PAYMENT_CAPTURED", o) /\ EmittedOnce("PAYMENT_REFUNDED", o)

\* The inventory service never gives an order both verdicts nor fulfils it
\* twice, although it may handle PAYMENT_CAPTURED several times while the stock
\* changes, and although PAYMENT_CAPTURED may be on the topic more than once
\* (tryFulfill).  It speaks of the consumer alone: two POST /check
\* requests that overlap both find no fulfillment and both answer.
OneVerdict ==
  \A o \in Orders :
    /\ EmittedOnce("INVENTORY_OK", o)
    /\ ~ (Emitted("INVENTORY_OK", o) /\ Emitted("INVENTORY_OUT_OF_STOCK", o))

\* A completed order is paid and has its goods, over three databases that no
\* transaction spans; a refunded one has no goods.
OutcomesAgree ==
  \A o \in Orders :
    /\ orders[o].status = "COMPLETED" => payments[o] = "CAPTURED" /\ o \in fulfilled
    /\ payments[o] = "REFUNDED" => o \notin fulfilled

Quantity(os) == MapThenSumSet(LAMBDA o : orders[o].quantity, os)
Of(p) == {o \in Orders : orders[o].status # "none" /\ orders[o].product = p}

\* No product is promised more often than it was in stock (tryFulfill).
NoOversell == \A p \in Products : Quantity(fulfilled \cap Of(p)) <= InitialStock[p]

\* An order that was completed or cancelled stays so, whatever the consumer
\* replays: its update does not look at the present status (handleSagaEvent).
StatusIsFinal ==
  [][\A o \in Orders :
       orders[o].status \in {"COMPLETED", "CANCELLED"}
         => orders'[o].status = orders[o].status]_vars

\* Nothing is on its way: no handler runs and every event has been handled.
Settled ==
  /\ announcing = {}
  /\ paying.pc = "idle"
  /\ \A c \in Callers : call[c].pc \in {"idle", "done"}
  /\ \A s \in Services : position[s] = Len(topic)

\* An order that stays PENDING for ever is one whose event was lost after the
\* write it reports: the order saved, the payment captured or the goods
\* reserved, and the emit never made.  No crash, retry or redelivery elsewhere
\* strands an order (create, handleSagaEvent, tryFulfill).
StuckOrdersLostAnEvent ==
  Settled =>
    \A o \in Orders : orders[o].status = "PENDING" =>
      \/ ~ Emitted("ORDER_CREATED", o)
      \/ payments[o] = "CAPTURED" /\ ~ Emitted("PAYMENT_CAPTURED", o)
      \/ o \in fulfilled /\ ~ Emitted("INVENTORY_OK", o)

\* As long as nothing has failed, what has left the stock is what was fulfilled,
\* and what the consumer has saved without its marker yet (tryFulfill).
StockBalances ==
  LET marking == {o \in Orders : call["inventory"].pc = "saveFulfillment"
                                 /\ call["inventory"].order = o}
  IN  failures = 0 =>
        \A p \in Products :
          stock[p] + Quantity((fulfilled \cup marking) \cap Of(p)) = InitialStock[p]

\* Unless something fails, every order ends delivered and paid, or cancelled and
\* refunded: the three services agree at last (the two branches of the saga).
EverySagaEnds ==
  \A o \in Orders :
    orders[o].status = "PENDING" ~>
      \/ failures # 0
      \/ orders[o].status = "COMPLETED" /\ payments[o] = "CAPTURED" /\ o \in fulfilled
      \/ orders[o].status = "CANCELLED" /\ payments[o] = "REFUNDED" /\ o \notin fulfilled

\* A verdict that reached the topic takes effect in both other services, even
\* when they fail halfway and lose the event they were about to emit.
VerdictsAreApplied ==
  \A o \in Orders :
    /\ Emitted("INVENTORY_OK", o) ~> orders[o].status = "COMPLETED"
    /\ Emitted("INVENTORY_OUT_OF_STOCK", o) ~>
         orders[o].status = "CANCELLED" /\ payments[o] = "REFUNDED"

-----------------------------------------------------------------------------
(* What the documentation says and the code does not do.                   *)

\* "the fulfillments lookup ensures that a repeated event does not decrement
\* the stock twice" (.e2e/typescript/flow-6-done.md:30).
DecrementedOnce == \A p \in Products : stock[p] >= InitialStock[p] - Quantity(Of(p))
=============================================================================
