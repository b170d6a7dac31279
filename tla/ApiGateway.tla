------------------------------ MODULE ApiGateway ------------------------------
(***************************************************************************)
(* Lesson 0, 0-api-gateway (TypeScript): three services that keep their    *)
(* resources in memory, behind a Kong gateway that routes by path prefix.  *)
(*                                                                         *)
(* A handler of a service has no await: it runs in one step.  A service    *)
(* that stops loses its memory and the connections that are open to it;    *)
(* it is restarted ("unless-stopped").  Kong is external: it relays what a *)
(* service answers, answers 404 for a path without a route and 502 for a   *)
(* service that it cannot reach or that hangs up, and it may send again    *)
(* only a request that is idempotent.                                      *)
(***************************************************************************)
EXTENDS Integers, Sequences

CONSTANTS
  Clients,      \* each has one request under way at a time
  MaxRequests,  \* bound of the model: requests of all clients together
  MaxStops      \* bound of the model: how often a service stops

ASSUME GatewayBounds == MaxRequests \in Nat /\ MaxStops \in Nat

VARIABLES
  up,        \* which services are running
  memory,    \* counter and list of each service
  exchange,  \* what each client's request is doing
  sent,      \* how many requests the clients have sent
  life,      \* history: how often each service has been started
  acked,     \* history: the items whose creation a client was told of
  stops      \* how often a service has stopped

gatewayVars == <<up, memory, exchange, sent, life, acked, stops>>

\* The routes of .docker/kong.yml; each prefix is a service's own.
Services == {"users", "products", "orders"}
Paths == Services \cup {"other"}

\* name and email, name and price, productId and quantity: all that the
\* properties tell apart is which request the input is from.
CreateUserInput == 1 .. MaxRequests
CreateProductInput == CreateUserInput
CreateOrderInput == CreateUserInput

User == [id : Nat, input : CreateUserInput]
Product == [id : Nat, input : CreateProductInput]
Order == [id : Nat, input : CreateOrderInput, status : {"PENDING"}]
Item == User \cup Product \cup Order

Acknowledged == [service : Services, life : Nat, item : Item]

NewAppService == [counter |-> 0, list |-> <<>>]

\* due: the creations acknowledged before a list was asked for; made: how many
\* items the request has created; broken: whether its service was ever down meanwhile.
Exchange == [pc : {"idle", "gateway", "service", "reply", "lost", "answered"},
             method : {"GET", "POST"}, path : Paths, request : 0 .. MaxRequests,
             status : {"none", "200", "201", "404", "502"},
             answer : Seq(Item), life : Nat,
             due : SUBSET Acknowledged, made : Nat, broken : BOOLEAN]

NoExchange == [pc |-> "idle", method |-> "GET", path |-> "other", request |-> 0,
               status |-> "none", answer |-> <<>>, life |-> 0,
               due |-> {}, made |-> 0, broken |-> FALSE]

GatewayInit ==
  /\ up = [s \in Services |-> TRUE]
  /\ memory = [s \in Services |-> NewAppService]
  /\ exchange = [c \in Clients |-> NoExchange]
  /\ sent = 0
  /\ life = [s \in Services |-> 1]
  /\ acked = {}
  /\ stops = 0

-----------------------------------------------------------------------------
(* The client and Kong.                                                    *)

Due(s) == {a \in acked : a.service = s}

Send(c) ==
  /\ exchange[c].pc \in {"idle", "answered"}
  /\ sent < MaxRequests
  /\ \E method \in {"GET", "POST"}, path \in Paths :
       exchange' = [exchange EXCEPT ![c] =
                      [NoExchange EXCEPT !.pc = "gateway", !.method = method, !.path = path,
                         !.request = sent + 1,
                         !.due = IF method = "GET" THEN Due(path) ELSE {},
                         !.broken = path \in Services /\ ~ up[path]]]
  /\ sent' = sent + 1
  /\ UNCHANGED <<up, memory, life, acked, stops>>

Answered(self, status) == [self EXCEPT !.pc = "answered", !.status = status]

\* Faulty: waits until the service is there.
RouteWhenUp(c) ==
  LET self == exchange[c]
  IN  /\ self.pc = "gateway"
      /\ \/ self.path \notin Services /\ exchange' = [exchange EXCEPT ![c] = Answered(self, "404")]
         \/ /\ self.path \in Services /\ up[self.path]
            /\ exchange' = [exchange EXCEPT ![c].pc = "service"]
      /\ UNCHANGED <<up, memory, sent, life, acked, stops>>

Route(c) ==
  LET self == exchange[c]
  IN  /\ self.pc = "gateway"
      /\ exchange' = [exchange EXCEPT ![c] =
                        CASE self.path \notin Services -> Answered(self, "404")
                          [] self.path \in Services /\ up[self.path] -> [self EXCEPT !.pc = "service"]
                          [] OTHER -> Answered(self, "502")]
      /\ UNCHANGED <<up, memory, sent, life, acked, stops>>

\* Faulty: sends any request again.
RetryAny(c) ==
  LET self == exchange[c]
  IN  /\ self.pc = "lost"
      /\ \/ exchange' = [exchange EXCEPT ![c] = Answered(self, "502")]
         \/ exchange' = [exchange EXCEPT ![c].pc = "gateway"]
      /\ UNCHANGED <<up, memory, sent, life, acked, stops>>

\* The service has hung up: only a GET may be sent again.
HangUp(c) ==
  LET self == exchange[c]
  IN  /\ self.pc = "lost"
      /\ \/ exchange' = [exchange EXCEPT ![c] = Answered(self, "502")]
         \/ self.method = "GET" /\ exchange' = [exchange EXCEPT ![c].pc = "gateway"]
      /\ UNCHANGED <<up, memory, sent, life, acked, stops>>

Relay(c) ==
  LET self == exchange[c]
  IN  /\ self.pc = "reply"
      /\ exchange' = [exchange EXCEPT ![c] =
                        Answered(self, IF self.method = "POST" THEN "201" ELSE "200")]
      /\ acked' = IF self.method = "GET" THEN acked
                  ELSE acked \cup {[service |-> self.path, life |-> self.life,
                                    item |-> self.answer[1]]}
      /\ UNCHANGED <<up, memory, sent, life, stops>>

-----------------------------------------------------------------------------
(* The services.  A handler answers the created item, or a copy of the list.*)

Called(c, method, s) ==
  exchange[c].pc = "service" /\ exchange[c].method = method /\ exchange[c].path = s

Reply(c, s, answer, made) ==
  /\ exchange' = [exchange EXCEPT ![c].pc = "reply", ![c].answer = answer,
                                  ![c].life = life[s], ![c].made = @ + made]
  /\ UNCHANGED <<up, sent, life, acked, stops>>

\* Faulty: the counter stays.
AddWithoutCounting(c, s, item) ==
  /\ memory' = [memory EXCEPT ![s].list = Append(@, item)]
  /\ Reply(c, s, <<item>>, 1)

\* The counter is incremented, and the item appended to the list.
Add(c, s, item) ==
  /\ memory' = [memory EXCEPT ![s] = [counter |-> item.id, list |-> Append(@.list, item)]]
  /\ Reply(c, s, <<item>>, 1)

List(c, s) ==
  /\ Reply(c, s, memory[s].list, 0)
  /\ UNCHANGED memory

NextId(s) == memory[s].counter + 1

CreateUser(c) == Add(c, "users", [id |-> NextId("users"), input |-> exchange[c].request])
CreateProduct(c) == Add(c, "products", [id |-> NextId("products"), input |-> exchange[c].request])
CreateOrder(c) ==
  Add(c, "orders", [id |-> NextId("orders"), input |-> exchange[c].request, status |-> "PENDING"])

\* The controllers: POST creates, GET lists.
UserController(c) ==
  \/ Called(c, "POST", "users") /\ CreateUser(c)
  \/ Called(c, "GET", "users") /\ List(c, "users")
ProductController(c) ==
  \/ Called(c, "POST", "products") /\ CreateProduct(c)
  \/ Called(c, "GET", "products") /\ List(c, "products")
OrderController(c) ==
  \/ Called(c, "POST", "orders") /\ CreateOrder(c)
  \/ Called(c, "GET", "orders") /\ List(c, "orders")

-----------------------------------------------------------------------------
(* A service stops, and is started again by the container's restart policy. *)

Stop(s) ==
  /\ up[s] /\ stops < MaxStops
  /\ stops' = stops + 1
  /\ up' = [up EXCEPT ![s] = FALSE]
  /\ exchange' = [c \in Clients |->
       IF exchange[c].path # s THEN exchange[c]
       ELSE [exchange[c] EXCEPT
               !.broken = TRUE,
               !.pc = IF @ \in {"service", "reply"} THEN "lost" ELSE @]]
  /\ UNCHANGED <<memory, sent, life, acked>>

\* bootstrap: a new AppService, with an empty list and its counter at 0.
Bootstrap(s) ==
  /\ ~ up[s]
  /\ up' = [up EXCEPT ![s] = TRUE]
  /\ memory' = [memory EXCEPT ![s] = NewAppService]
  /\ life' = [life EXCEPT ![s] = @ + 1]
  /\ UNCHANGED <<exchange, sent, acked, stops>>

UserBootstrap == Bootstrap("users")
ProductBootstrap == Bootstrap("products")
OrderBootstrap == Bootstrap("orders")

\* Every client has sent its requests and has its answers.
AllAnswered ==
  /\ sent = MaxRequests
  /\ \A c \in Clients : exchange[c].pc \in {"idle", "answered"}
  /\ UNCHANGED gatewayVars

Serve(c) ==
  Route(c) \/ HangUp(c) \/ Relay(c)
  \/ UserController(c) \/ ProductController(c) \/ OrderController(c)

GatewayNext ==
  \/ \E c \in Clients : Send(c) \/ Serve(c)
  \/ \E s \in Services : Stop(s)
  \/ UserBootstrap \/ ProductBootstrap \/ OrderBootstrap
  \/ AllAnswered

\* Kong and the event loops go on; nobody has to send a request, and a service
\* that has stopped may stay down.
GatewayFairness == \A c \in Clients : WF_gatewayVars(Serve(c))

GatewaySpec == GatewayInit /\ [][GatewayNext]_gatewayVars /\ GatewayFairness
=============================================================================
