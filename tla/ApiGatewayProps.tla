--------------------------- MODULE ApiGatewayProps ----------------------------
(***************************************************************************)
(* What lesson 0 promises, over the state of ApiGateway.                   *)
(***************************************************************************)
EXTENDS ApiGateway

\* Type invariant of the gateway, the services and the requests.
GatewayTypeOK ==
  /\ up \in [Services -> BOOLEAN]
  /\ memory \in [Services -> [counter : Nat, list : Seq(Item)]]
  /\ exchange \in [Clients -> Exchange]
  /\ sent \in 0 .. MaxRequests
  /\ life \in [Services -> Nat]
  /\ acked \subseteq Acknowledged
  /\ stops \in 0 .. MaxStops

\* The status a client is told is what happened: a 201 is one creation, a 404
\* and a list are none, and after a 502 there may have been one, not two,
\* although the gateway sends some requests again; and a service that is down
\* fails its own requests only (create of the services, the routes of kong.yml).
AnswersTellWhatHappened ==
  \A c \in Clients :
    LET self == exchange[c]
    IN  self.pc = "answered" =>
          /\ self.status = "201" => self.method = "POST" /\ self.made = 1
          /\ self.status = "404" => self.path \notin Services
          /\ self.status = "502" => self.broken
          /\ self.made <= (IF self.method = "POST" THEN 1 ELSE 0)

\* A list shows every item whose creation had been acknowledged, to any client,
\* before the list was asked for, unless the service was restarted in between, and
\* no id twice: what two clients create at the same time stays two items with ids
\* of their own (create and list of the three services).
ReadsAreCurrent ==
  \A c \in Clients :
    LET self == exchange[c]  list == self.answer
    IN  (self.pc = "answered" /\ self.status = "200") =>
          /\ \A d \in self.due :
               d.life = self.life => \E i \in DOMAIN list : list[i] = d.item
          /\ \A i, j \in DOMAIN list : list[i].id = list[j].id => i = j

\* Every request is answered, also when the service it calls stays down.
EveryRequestIsAnswered ==
  \A c \in Clients : (exchange[c].pc = "gateway") ~> (exchange[c].pc = "answered")
=============================================================================
