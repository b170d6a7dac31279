------------------------------- MODULE RestGrpc -------------------------------
(***************************************************************************)
(* Lesson 1, 1-synchronous-communication-rest-grpc (TypeScript): a REST    *)
(* gateway that calls a user and a product backend over gRPC and waits for *)
(* the reply (firstValueFrom), while it serves other requests.             *)
(*                                                                         *)
(* The backends hold constant data.  An id that is not there is answered   *)
(* as a record with the id 0, which the gateway turns into a 404.  The id  *)
(* of the path is a string, a number for the gateway (+id), and an int32   *)
(* on the wire.                                                            *)
(*                                                                         *)
(* Each of the two clients is a channel of grpc-js with its defaults: it   *)
(* connects when it is first called, and a call waits for the connection.  *)
(* When the attempt fails, the calls that wait for it reject, and until a  *)
(* backoff has ended every other call rejects at once, also when the       *)
(* backend is back (no waitForReady).  A rejected call is answered with    *)
(* 500 by Nest.  No call has a deadline, and none is made again.           *)
(***************************************************************************)
EXTENDS Integers

CONSTANTS
  Visitors,         \* REST clients, with one request under way each
  UserIds,          \* the ids of the users in memory, 1 and 2 in the code
  ProductIds,
  PathIds,          \* the numbers that clients ask for
  NaN,              \* what +id makes of an id that is no number
  Int32Modulus,     \* 2^32
  MaxOutages        \* bound of the model: how often a backend is away

ASSUME WireAssumption ==
  /\ Int32Modulus \in Nat \ {0} /\ NaN \notin Int /\ PathIds \subseteq Int
  /\ UserIds \cup ProductIds \subseteq 1 .. (Int32Modulus \div 2) - 1
ASSUME OutageBound == MaxOutages \in Nat \ {0}

VARIABLES
  listening,     \* which backends are running
  inBackoff,     \* the gateway's channels that wait to connect again
  lookup,        \* what each visitor's request is doing
  outages,       \* history: how often each backend has been away
  answered       \* history: the outages that its last reply came after

grpcVars == <<listening, inBackoff, lookup, outages, answered>>

Backends == {"user", "product"}
\* The reply with the sentinel id, when nothing is found.
NotFound == 0
UserReply == UserIds \cup {NotFound}
ProductReply == ProductIds \cup {NotFound}

\* found: the id in the backend's reply; seen: history, what answered was when
\* the backend was called.
Lookup == [pc : {"idle", "calling", "called", "rejected", "done"},
           kind : Backends, id : PathIds \cup {NaN}, found : Int,
           status : {"none", "200", "404", "500"}, seen : Nat]
NoLookup == [pc |-> "idle", kind |-> "user", id |-> NaN, found |-> 0,
             status |-> "none", seen |-> 0]

GrpcInit ==
  /\ listening \in [Backends -> BOOLEAN]
  /\ inBackoff = [b \in Backends |-> FALSE]
  /\ lookup = [v \in Visitors |-> NoLookup]
  /\ outages = [b \in Backends |-> IF listening[b] THEN 0 ELSE 1]
  /\ answered = [b \in Backends |-> 0]

-----------------------------------------------------------------------------
(* The gateway's AppController.                                            *)

Int32Half == Int32Modulus \div 2

\* The wire holds 32 bits with a sign; protobuf coerces what is no number to 0.
AsInt32(n) ==
  IF n = NaN THEN 0 ELSE ((n + Int32Half) % Int32Modulus) - Int32Half

\* Faulty: both backends are called over one channel.
CallOverOneChannel(v, kind) ==
  /\ lookup[v].pc \in {"idle", "done"}
  /\ \E id \in PathIds \cup {NaN} :
       lookup' = [lookup EXCEPT ![v] =
         [NoLookup EXCEPT !.pc = IF \E b \in Backends : inBackoff[b] THEN "rejected" ELSE "calling",
                          !.kind = kind, !.id = id, !.seen = answered[kind]]]
  /\ UNCHANGED <<listening, inBackoff, outages, answered>>

\* A channel in backoff rejects the call; any other takes it, connected or not.
Call(v, kind) ==
  /\ lookup[v].pc \in {"idle", "done"}
  /\ \E id \in PathIds \cup {NaN} :
       lookup' = [lookup EXCEPT ![v] =
         [NoLookup EXCEPT !.pc = IF inBackoff[kind] THEN "rejected" ELSE "calling",
                          !.kind = kind, !.id = id, !.seen = answered[kind]]]
  /\ UNCHANGED <<listening, inBackoff, outages, answered>>

\* Faulty: the reply is relayed as it is.
RespondAny(v, kind) ==
  LET self == lookup[v]
  IN  /\ self.kind = kind
      /\ self.pc \in {"called", "rejected"}
      /\ lookup' = [lookup EXCEPT ![v].pc = "done",
                      ![v].status = IF self.pc = "rejected" THEN "500" ELSE "200"]
      /\ UNCHANGED <<listening, inBackoff, outages, answered>>

\* The call has rejected, or its reply is looked at: !user.id.
Respond(v, kind) ==
  LET self == lookup[v]
  IN  /\ self.kind = kind
      /\ self.pc \in {"called", "rejected"}
      /\ lookup' = [lookup EXCEPT ![v].pc = "done",
                      ![v].status = CASE self.pc = "rejected" -> "500"
                                      [] self.pc = "called" /\ self.found = NotFound -> "404"
                                      [] OTHER -> "200"]
      /\ UNCHANGED <<listening, inBackoff, outages, answered>>

RestGetUser(v) == Call(v, "user") \/ Respond(v, "user")
RestGetProduct(v) == Call(v, "product") \/ Respond(v, "product")
RestController(v) == RestGetUser(v) \/ RestGetProduct(v)

-----------------------------------------------------------------------------
(* The backends: their AppController passes the id to their AppService.    *)

GrpcReply(v, backend, found) ==
  /\ lookup[v].pc = "calling" /\ lookup[v].kind = backend /\ listening[backend]
  /\ lookup' = [lookup EXCEPT ![v].pc = "called", ![v].found = found]
  /\ answered' = [answered EXCEPT ![backend] = outages[backend]]
  /\ UNCHANGED <<listening, inBackoff, outages>>

FindUser(id) == IF id \in UserIds THEN id ELSE NotFound
FindProduct(id) == IF id \in ProductIds THEN id ELSE NotFound

GrpcGetUser(v) == GrpcReply(v, "user", FindUser(AsInt32(lookup[v].id)))
GrpcGetProduct(v) == GrpcReply(v, "product", FindProduct(AsInt32(lookup[v].id)))

CallsOf(b) == {v \in Visitors : lookup[v].pc = "calling" /\ lookup[v].kind = b}
Rejected(calls) ==
  [v \in Visitors |-> IF v \in calls THEN [lookup[v] EXCEPT !.pc = "rejected"] ELSE lookup[v]]

\* A backend stops: the calls that it was sent reject, those that still wait for
\* the connection go on waiting.
StopBackend(b) ==
  /\ listening[b] /\ outages[b] < MaxOutages
  /\ outages' = [outages EXCEPT ![b] = @ + 1]
  /\ listening' = [listening EXCEPT ![b] = FALSE]
  /\ \E sent \in SUBSET CallsOf(b) : lookup' = Rejected(sent)
  /\ UNCHANGED <<inBackoff, answered>>

Listen(b) ==
  /\ ~ listening[b]
  /\ listening' = [listening EXCEPT ![b] = TRUE]
  /\ UNCHANGED <<inBackoff, lookup, outages, answered>>

\* The attempt to connect that a call has started fails, for all that wait for it.
ConnectFails(b) ==
  /\ ~ listening[b] /\ CallsOf(b) # {}
  /\ inBackoff' = [inBackoff EXCEPT ![b] = TRUE]
  /\ lookup' = Rejected(CallsOf(b))
  /\ UNCHANGED <<listening, outages, answered>>

\* The channel connects again, or waits for a call to do so.
BackoffEnds(b) ==
  /\ inBackoff[b]
  /\ inBackoff' = [inBackoff EXCEPT ![b] = FALSE]
  /\ UNCHANGED <<listening, lookup, outages, answered>>

UserBackendBootstrap == Listen("user")
ProductBackendBootstrap == Listen("product")

GrpcNext ==
  \/ \E v \in Visitors : RestController(v) \/ GrpcGetUser(v) \/ GrpcGetProduct(v)
  \/ \E b \in Backends : StopBackend(b) \/ ConnectFails(b) \/ BackoffEnds(b)
  \/ UserBackendBootstrap \/ ProductBackendBootstrap

GrpcSpec == GrpcInit /\ [][GrpcNext]_grpcVars
=============================================================================
