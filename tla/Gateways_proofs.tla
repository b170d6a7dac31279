--------------------------- MODULE Gateways_proofs ----------------------------
(***************************************************************************)
(* Theorems about lessons 0 and 1, for any number of clients, requests and *)
(* stops, and any width of the integers on the wire.                       *)
(***************************************************************************)
EXTENDS ApiGatewayProps, RestGrpcProps, TLAPS

(* Lesson 1.                                                               *)

\* An id that fits is not changed on the wire.
LEMMA Int32Identity ==
  ASSUME NEW n \in Int, FitsInt32(n)
  PROVE  AsInt32(n) = n
<1> DEFINE M == Int32Modulus
<1>1. M \in Nat \ {0} /\ n # NaN
  BY WireAssumption
<1>2. Int32Half \in Nat /\ 2 * Int32Half <= M
  BY <1>1 DEF Int32Half
<1>3. n + Int32Half \in 0 .. M - 1
  BY <1>2, <1>1 DEF FitsInt32
<1>4. (n + Int32Half) % M = n + Int32Half
  BY <1>1, <1>3
<1> QED BY <1>1, <1>2, <1>4 DEF AsInt32

\* The ids of the records fit.
LEMMA ResourcesFit ==
  ASSUME NEW kind \in Backends, NEW n \in Resources(kind)
  PROVE  n \in Int /\ FitsInt32(n) /\ n # NotFound
<1>1. Int32Modulus \in Nat /\ n \in 1 .. Int32Half - 1 /\ n # NaN
  BY WireAssumption DEF Resources, Int32Half
<1>2. Int32Half \in Nat
  BY <1>1, WireAssumption DEF Int32Half
<1> QED BY <1>1, <1>2 DEF FitsInt32, NotFound

\* What a backend finds.
Found(kind, n) == IF n \in Resources(kind) THEN n ELSE NotFound

\* A request between its call and its answer, with a backend that has been away
\* that often and whose last reply came after so many of these outages.
LookupInv(self, away, replied) ==
  /\ self.seen <= replied
  /\ self.pc = "called" => self.found = Found(self.kind, AsInt32(self.id))
  /\ self.pc = "rejected" => self.seen < away
  /\ self.pc = "done" =>
       /\ self.status = "500" => self.seen < away
       /\ self.status \in {"200", "404"} => self.found = Found(self.kind, AsInt32(self.id))
       /\ self.status = "200" <=> self.status # "500" /\ self.found # NotFound
       /\ self.status \in {"200", "404", "500"}

\* A backend that is away, or whose channel is in backoff, has answered nothing
\* since; and no call waits for a channel that is in backoff.
ChannelInv(b) ==
  /\ answered[b] <= outages[b]
  /\ ~ listening[b] \/ inBackoff[b] => answered[b] < outages[b]
  /\ inBackoff[b] => CallsOf(b) = {}

LookupsInv ==
  \A v \in Visitors :
    LookupInv(lookup[v], outages[lookup[v].kind], answered[lookup[v].kind])

GrpcInv == GrpcTypeOK /\ LookupsInv /\ \A b \in Backends : ChannelInv(b)

LEMMA FoundType ==
  ASSUME NEW kind \in Backends, NEW n
  PROVE  Found(kind, n) \in Int
BY ResourcesFit DEF Found, NotFound

LEMMA GrpcInitial == GrpcInit => GrpcInv
<1> SUFFICES ASSUME GrpcInit PROVE GrpcInv
  OBVIOUS
<1>1. NoLookup \in Lookup
  BY DEF NoLookup, Lookup, Backends
<1>2. /\ outages \in [Backends -> 0 .. MaxOutages] /\ answered = [b \in Backends |-> 0]
      /\ \A b \in Backends : outages[b] = IF listening[b] THEN 0 ELSE 1
      /\ inBackoff = [b \in Backends |-> FALSE] /\ listening \in [Backends -> BOOLEAN]
  <2>1. 0 \in 0 .. MaxOutages /\ 1 \in 0 .. MaxOutages
    BY OutageBound
  <2> QED BY <2>1 DEF GrpcInit
<1>3. GrpcTypeOK
  BY <1>1, <1>2 DEF GrpcInit, GrpcTypeOK
<1>4. LookupsInv
  <2>1. NoLookup.kind \in Backends /\ NoLookup.seen = 0 /\ NoLookup.pc = "idle"
    BY DEF NoLookup, Backends
  <2> QED BY <1>2, <2>1 DEF GrpcInit, LookupsInv, LookupInv
<1>5. \A b \in Backends : ChannelInv(b)
  BY <1>2 DEF ChannelInv
<1> QED BY <1>3, <1>4, <1>5 DEF GrpcInv

\* Every other request is left as it is, and no more calls wait for a channel.
LEMMA OneLookup ==
  ASSUME GrpcTypeOK, LookupsInv, NEW v \in Visitors, NEW new \in Lookup,
         LookupInv(new, outages[new.kind], answered[new.kind]),
         lookup' = [lookup EXCEPT ![v] = new], UNCHANGED <<outages, answered>>
  PROVE  lookup' \in [Visitors -> Lookup] /\ LookupsInv'
<1>1. /\ lookup' \in [Visitors -> Lookup]
      /\ \A w \in Visitors : lookup'[w] = lookup[w] \/ lookup'[w] = new
  BY DEF GrpcTypeOK
<1> QED BY <1>1 DEF LookupsInv

LEMMA CallStep ==
  ASSUME GrpcInv, NEW v \in Visitors, NEW kind \in Backends, Call(v, kind)
  PROVE  GrpcInv'
<1>1. PICK id \in PathIds \cup {NaN} :
        lookup' = [lookup EXCEPT ![v] =
          [NoLookup EXCEPT !.pc = IF inBackoff[kind] THEN "rejected" ELSE "calling",
                           !.kind = kind, !.id = id, !.seen = answered[kind]]]
  BY DEF Call
<1>2. UNCHANGED <<listening, inBackoff, outages, answered>>
  BY DEF Call
<1>3. PICK pc \in {"rejected", "calling"} : pc = IF inBackoff[kind] THEN "rejected" ELSE "calling"
  OBVIOUS
<1> DEFINE new == [NoLookup EXCEPT !.pc = pc, !.kind = kind, !.id = id, !.seen = answered[kind]]
<1>4. /\ new \in Lookup /\ new.pc = pc /\ new.kind = kind /\ new.seen = answered[kind]
      /\ answered[kind] \in Nat /\ lookup \in [Visitors -> Lookup]
  <2>1. NoLookup \in Lookup /\ answered[kind] \in Nat /\ lookup \in [Visitors -> Lookup]
    BY DEF NoLookup, Lookup, Backends, GrpcInv, GrpcTypeOK
  <2> QED BY <2>1 DEF Lookup
<1>5. lookup' = [lookup EXCEPT ![v] = new]
  BY <1>1, <1>3
<1> HIDE DEF new
<1>6. ChannelInv(kind)
  BY DEF GrpcInv
<1>7. LookupInv(new, outages[new.kind], answered[new.kind])
  BY <1>3, <1>4, <1>6 DEF LookupInv, ChannelInv
<1>8. lookup' \in [Visitors -> Lookup] /\ LookupsInv'
  BY <1>2, <1>4, <1>5, <1>7, OneLookup DEF GrpcInv
<1>9. ASSUME NEW b \in Backends, inBackoff[b], NEW w \in Visitors, w \in CallsOf(b)'
      PROVE  FALSE
  <2>1. CASE w = v
    <3>1. lookup'[w] = new
      BY <1>4, <1>5, <2>1
    <3>2. new.pc = "calling" /\ new.kind = b
      BY <1>9, <3>1 DEF CallsOf
    <3> QED BY <1>3, <1>4, <1>9, <3>2
  <2>2. CASE w # v
    <3>1. lookup'[w] = lookup[w]
      BY <1>4, <1>5, <2>2
    <3> QED BY <1>9, <3>1 DEF CallsOf, GrpcInv, ChannelInv
  <2> QED BY <2>1, <2>2
<1>10. \A b \in Backends : ChannelInv(b)'
  <2> SUFFICES ASSUME NEW b \in Backends PROVE ChannelInv(b)'
    OBVIOUS
  <2>1. ChannelInv(b)
    BY DEF GrpcInv
  <2>2. inBackoff[b] => CallsOf(b)' = {}
    BY <1>9 DEF CallsOf
  <2> QED BY <1>2, <2>1, <2>2 DEF ChannelInv
<1> QED BY <1>2, <1>8, <1>10 DEF GrpcInv, GrpcTypeOK

\* Fewer calls wait for the channels; perhaps a backend has answered once more.
LEMMA FewerWait ==
  ASSUME GrpcInv, UNCHANGED <<listening, inBackoff, outages>>,
         \A b \in Backends : CallsOf(b)' \subseteq CallsOf(b),
         \A b \in Backends :
           \/ answered'[b] = answered[b]
           \/ answered'[b] = outages[b] /\ listening[b] /\ CallsOf(b) # {}
  PROVE  \A b \in Backends : ChannelInv(b)'
<1> SUFFICES ASSUME NEW b \in Backends PROVE ChannelInv(b)'
  OBVIOUS
<1>1. ChannelInv(b) /\ outages[b] \in Nat
  BY DEF GrpcInv, GrpcTypeOK
<1>2. CallsOf(b)' \subseteq CallsOf(b)
  OBVIOUS
<1> QED BY <1>1, <1>2 DEF ChannelInv

LEMMA RespondStep ==
  ASSUME GrpcInv, NEW v \in Visitors, NEW kind \in Backends, Respond(v, kind)
  PROVE  GrpcInv'
<1> DEFINE self == lookup[v]
           status == CASE self.pc = "rejected" -> "500"
                       [] self.pc = "called" /\ self.found = NotFound -> "404"
                       [] OTHER -> "200"
           new == [self EXCEPT !.pc = "done", !.status = status]
<1>1. /\ lookup \in [Visitors -> Lookup] /\ self \in Lookup /\ self.pc \in {"called", "rejected"}
      /\ LookupInv(self, outages[self.kind], answered[self.kind])
  BY DEF Respond, GrpcInv, GrpcTypeOK, LookupsInv
<1>2. /\ lookup' = [lookup EXCEPT ![v] = new]
      /\ UNCHANGED <<listening, inBackoff, outages, answered>>
  BY DEF Respond
<1>3. new \in Lookup /\ new.pc = "done" /\ new.status = status /\ new.found = self.found
      /\ new.kind = self.kind /\ new.id = self.id /\ new.seen = self.seen
  BY <1>1 DEF Lookup
<1> HIDE DEF new
<1>4. LookupInv(new, outages[new.kind], answered[new.kind])
  BY <1>1, <1>3 DEF LookupInv
<1>5. lookup' \in [Visitors -> Lookup] /\ LookupsInv'
  BY <1>2, <1>3, <1>4, OneLookup DEF GrpcInv
<1>6. \A b \in Backends : CallsOf(b)' \subseteq CallsOf(b)
  BY <1>1, <1>2, <1>3 DEF CallsOf
<1>7. \A b \in Backends : ChannelInv(b)'
  BY <1>2, <1>6, FewerWait
<1> QED BY <1>2, <1>5, <1>7 DEF GrpcInv, GrpcTypeOK

LEMMA GrpcReplyStep ==
  ASSUME GrpcInv, NEW v \in Visitors, NEW kind \in Backends,
         GrpcReply(v, kind, Found(kind, AsInt32(lookup[v].id)))
  PROVE  GrpcInv'
<1> DEFINE self == lookup[v]
           found == Found(kind, AsInt32(self.id))
           new == [self EXCEPT !.pc = "called", !.found = found]
<1>1. /\ lookup \in [Visitors -> Lookup] /\ self \in Lookup /\ self.kind = kind /\ found \in Int
      /\ self.pc = "calling" /\ listening[kind]
      /\ LookupInv(self, outages[self.kind], answered[self.kind])
  BY FoundType DEF GrpcReply, GrpcInv, GrpcTypeOK, LookupsInv
<1>2. /\ lookup' = [lookup EXCEPT ![v] = new]
      /\ answered' = [answered EXCEPT ![kind] = outages[kind]]
      /\ UNCHANGED <<listening, inBackoff, outages>>
  BY DEF GrpcReply
<1>3. new \in Lookup /\ new.pc = "called" /\ new.found = found
      /\ new.kind = self.kind /\ new.id = self.id /\ new.seen = self.seen
  BY <1>1 DEF Lookup
<1> HIDE DEF new, found
<1>4. /\ outages \in [Backends -> 0 .. MaxOutages] /\ answered \in [Backends -> Nat]
      /\ \A b \in Backends : outages[b] \in Nat /\ answered[b] <= outages[b]
  BY OutageBound DEF GrpcInv, GrpcTypeOK, ChannelInv
<1>5. answered' \in [Backends -> Nat] /\ \A b \in Backends : answered[b] <= answered'[b]
  BY <1>2, <1>4
<1>6. lookup' \in [Visitors -> Lookup] /\ \A w \in Visitors : lookup'[w] = lookup[w] \/ lookup'[w] = new
  BY <1>1, <1>2, <1>3
<1>7. LookupsInv'
  <2> SUFFICES ASSUME NEW w \in Visitors, NEW it, it = lookup'[w]
               PROVE  LookupInv(it, outages[it.kind], answered'[it.kind])
    BY <1>2 DEF LookupsInv
  <2>1. it \in Lookup /\ it.kind \in Backends /\ it.seen \in Nat
    BY <1>6 DEF Lookup
  <2>2. answered[it.kind] \in Nat /\ answered'[it.kind] \in Nat
        /\ answered[it.kind] <= answered'[it.kind]
    BY <1>4, <1>5, <2>1
  <2>3. CASE it = lookup[w]
    <3>1. LookupInv(it, outages[it.kind], answered[it.kind])
      BY <2>3 DEF GrpcInv, LookupsInv
    <3> QED BY <2>1, <2>2, <3>1 DEF LookupInv
  <2>4. CASE it = new
    <3>1. it.seen <= answered[it.kind]
      BY <1>1, <1>3, <2>4 DEF LookupInv
    <3>2. it.pc = "called" /\ it.found = Found(it.kind, AsInt32(it.id))
      BY <1>1, <1>3, <2>4 DEF found
    <3> QED BY <2>1, <2>2, <3>1, <3>2 DEF LookupInv
  <2> QED BY <1>6, <2>3, <2>4
<1>8. /\ \A b \in Backends : CallsOf(b)' \subseteq CallsOf(b)
      /\ v \in CallsOf(kind)
  BY <1>1, <1>3, <1>6 DEF CallsOf
<1>9. \A b \in Backends : ChannelInv(b)'
  <2>1. \A b \in Backends :
          \/ answered'[b] = answered[b]
          \/ answered'[b] = outages[b] /\ listening[b] /\ CallsOf(b) # {}
    BY <1>1, <1>2, <1>4, <1>8
  <2> QED BY <1>2, <1>8, <2>1, FewerWait
<1> QED BY <1>2, <1>5, <1>6, <1>7, <1>9 DEF GrpcInv, GrpcTypeOK

\* Calls that wait for a backend reject when the backend is away.
LEMMA CallsReject ==
  ASSUME GrpcTypeOK, LookupsInv, NEW b \in Backends, NEW calls, calls \subseteq CallsOf(b),
         lookup' = Rejected(calls), answered' = answered,
         outages' \in [Backends -> 0 .. MaxOutages],
         \A a \in Backends : outages[a] <= outages'[a], answered[b] < outages'[b]
  PROVE  /\ lookup' \in [Visitors -> Lookup] /\ LookupsInv'
         /\ \A a \in Backends : CallsOf(a)' \subseteq CallsOf(a)
         /\ CallsOf(b)' = CallsOf(b) \ calls
<1>1. ASSUME NEW v \in Visitors
      PROVE  /\ lookup'[v] \in Lookup
             /\ \/ v \notin calls /\ lookup'[v] = lookup[v]
                \/ /\ v \in calls /\ lookup[v].kind = b /\ lookup'[v].pc = "rejected"
                   /\ lookup'[v].kind = b /\ lookup'[v].seen = lookup[v].seen
  <2>1. lookup[v] \in Lookup
    BY DEF GrpcTypeOK
  <2>2. CASE v \notin calls
    BY <2>1, <2>2 DEF Rejected
  <2>3. CASE v \in calls
    <3>1. lookup'[v] = [lookup[v] EXCEPT !.pc = "rejected"] /\ lookup[v].kind = b
      BY <2>3 DEF Rejected, CallsOf
    <3> QED BY <2>1, <2>3, <3>1 DEF Lookup
  <2> QED BY <2>2, <2>3
<1>2. lookup' \in [Visitors -> Lookup]
  BY <1>1 DEF Rejected
<1>3. \A a \in Backends : outages[a] \in Nat /\ outages'[a] \in Nat /\ answered[a] \in Nat
  BY OutageBound DEF GrpcTypeOK
<1>4. LookupsInv'
  <2> SUFFICES ASSUME NEW v \in Visitors, NEW it, it = lookup'[v]
               PROVE  LookupInv(it, outages'[it.kind], answered[it.kind])
    BY DEF LookupsInv
  <2>1. /\ LookupInv(lookup[v], outages[lookup[v].kind], answered[lookup[v].kind])
        /\ lookup[v].kind \in Backends /\ lookup[v].seen \in Nat
    BY DEF LookupsInv, GrpcTypeOK, Lookup
  <2>2. CASE it = lookup[v]
    <3>1. outages[it.kind] <= outages'[it.kind] /\ it.seen \in Nat
          /\ LookupInv(it, outages[it.kind], answered[it.kind])
          /\ outages[it.kind] \in Nat /\ outages'[it.kind] \in Nat
      BY <1>3, <2>1, <2>2
    <3> QED BY <3>1 DEF LookupInv
  <2>3. CASE it.kind = b /\ it.pc = "rejected" /\ it.seen = lookup[v].seen /\ lookup[v].kind = b
    <3>1. it.seen <= answered[b] /\ it.seen \in Nat
      BY <2>1, <2>3 DEF LookupInv
    <3>2. it.seen < outages'[b]
      BY <1>3, <3>1
    <3> QED BY <2>3, <3>1, <3>2 DEF LookupInv
  <2> QED BY <1>1, <2>2, <2>3
<1>5. \A a \in Backends : CallsOf(a)' \subseteq CallsOf(a)
  BY <1>1 DEF CallsOf
<1>6. CallsOf(b)' = CallsOf(b) \ calls
  BY <1>1 DEF CallsOf
<1> QED BY <1>2, <1>4, <1>5, <1>6

LEMMA StopBackendStep ==
  ASSUME GrpcInv, NEW b \in Backends, StopBackend(b)
  PROVE  GrpcInv'
<1>1. PICK gone \in SUBSET CallsOf(b) : lookup' = Rejected(gone)
  BY DEF StopBackend
<1>2. /\ outages' = [outages EXCEPT ![b] = outages[b] + 1] /\ outages[b] < MaxOutages
      /\ listening' = [listening EXCEPT ![b] = FALSE] /\ listening[b]
      /\ UNCHANGED <<inBackoff, answered>>
  BY DEF StopBackend, GrpcInv, GrpcTypeOK
<1>3. /\ listening \in [Backends -> BOOLEAN] /\ outages \in [Backends -> 0 .. MaxOutages]
      /\ answered \in [Backends -> Nat] /\ MaxOutages \in Nat
      /\ \A a \in Backends : outages[a] \in Nat /\ answered[a] \in Nat /\ answered[a] <= outages[a]
  BY OutageBound DEF GrpcInv, GrpcTypeOK, ChannelInv
<1>4. /\ outages' \in [Backends -> 0 .. MaxOutages]
      /\ \A a \in Backends : outages[a] <= outages'[a]
      /\ answered[b] < outages'[b] /\ \A a \in Backends \ {b} : outages'[a] = outages[a]
  <2>1. outages[b] + 1 \in 0 .. MaxOutages
    BY <1>2, <1>3
  <2> QED BY <1>2, <1>3, <2>1
<1>5. listening' \in [Backends -> BOOLEAN] /\ \A a \in Backends \ {b} : listening'[a] = listening[a]
  BY <1>2, <1>3
<1>6. /\ lookup' \in [Visitors -> Lookup] /\ LookupsInv'
      /\ \A a \in Backends : CallsOf(a)' \subseteq CallsOf(a)
  BY <1>1, <1>2, <1>4, CallsReject DEF GrpcInv
<1>7. ASSUME NEW a \in Backends PROVE ChannelInv(a)'
  <2>1. ChannelInv(a) /\ CallsOf(a)' \subseteq CallsOf(a)
    BY <1>6 DEF GrpcInv
  <2>2. CASE a = b
    BY <1>2, <1>3, <1>4, <2>1, <2>2 DEF ChannelInv
  <2>3. CASE a # b
    BY <1>2, <1>4, <1>5, <2>1, <2>3 DEF ChannelInv
  <2> QED BY <2>2, <2>3
<1> QED BY <1>2, <1>4, <1>5, <1>6, <1>7 DEF GrpcInv, GrpcTypeOK

LEMMA ConnectFailsStep ==
  ASSUME GrpcInv, NEW b \in Backends, ConnectFails(b)
  PROVE  GrpcInv'
<1>1. /\ ~ listening[b] /\ inBackoff' = [inBackoff EXCEPT ![b] = TRUE]
      /\ lookup' = Rejected(CallsOf(b)) /\ UNCHANGED <<listening, outages, answered>>
  BY DEF ConnectFails
<1>2. /\ outages \in [Backends -> 0 .. MaxOutages] /\ inBackoff \in [Backends -> BOOLEAN]
      /\ answered[b] < outages[b] /\ \A a \in Backends : outages[a] <= outages[a]
  BY <1>1, OutageBound DEF GrpcInv, GrpcTypeOK, ChannelInv
<1>3. /\ lookup' \in [Visitors -> Lookup] /\ LookupsInv'
      /\ \A a \in Backends : CallsOf(a)' \subseteq CallsOf(a)
      /\ CallsOf(b)' = {}
  <2>1. CallsOf(b) \ CallsOf(b) = {}
    OBVIOUS
  <2> QED BY <1>1, <1>2, <2>1, CallsReject DEF GrpcInv
<1>4. inBackoff' \in [Backends -> BOOLEAN] /\ \A a \in Backends \ {b} : inBackoff'[a] = inBackoff[a]
  BY <1>1, <1>2
<1>5. ASSUME NEW a \in Backends PROVE ChannelInv(a)'
  <2>1. ChannelInv(a) /\ CallsOf(a)' \subseteq CallsOf(a)
    BY <1>3 DEF GrpcInv
  <2>2. CASE a = b
    BY <1>1, <1>2, <1>3, <2>1, <2>2 DEF ChannelInv
  <2>3. CASE a # b
    BY <1>1, <1>4, <2>1, <2>3 DEF ChannelInv
  <2> QED BY <2>2, <2>3
<1> QED BY <1>1, <1>3, <1>4, <1>5 DEF GrpcInv, GrpcTypeOK

\* A backend is back, or the channel may connect again: no request changes.
LEMMA BackStep ==
  ASSUME GrpcInv, NEW b \in Backends, Listen(b) \/ BackoffEnds(b)
  PROVE  GrpcInv'
<1>1. /\ UNCHANGED <<lookup, outages, answered>>
      /\ listening' \in [Backends -> BOOLEAN] /\ inBackoff' \in [Backends -> BOOLEAN]
      /\ \A a \in Backends : (listening[a] => listening'[a]) /\ (inBackoff'[a] => inBackoff[a])
  BY DEF Listen, BackoffEnds, GrpcInv, GrpcTypeOK
<1>2. \A a \in Backends : CallsOf(a)' = CallsOf(a)
  BY <1>1 DEF CallsOf
<1>3. LookupsInv'
  BY <1>1 DEF GrpcInv, LookupsInv
<1>4. \A a \in Backends : ChannelInv(a)'
  BY <1>1, <1>2 DEF GrpcInv, ChannelInv
<1> QED BY <1>1, <1>3, <1>4 DEF GrpcInv, GrpcTypeOK

\* What the backends look up.
LEMMA BackendReplies ==
  ASSUME NEW v \in Visitors
  PROVE  /\ GrpcGetUser(v) => GrpcReply(v, "user", Found("user", AsInt32(lookup[v].id)))
         /\ GrpcGetProduct(v) => GrpcReply(v, "product", Found("product", AsInt32(lookup[v].id)))
BY DEF GrpcGetUser, GrpcGetProduct, FindUser, FindProduct, Found, Resources

LEMMA GrpcStep ==
  ASSUME GrpcInv, [GrpcNext]_grpcVars
  PROVE  GrpcInv'
<1>1. CASE \E v \in Visitors : RestController(v)
  BY <1>1, CallStep, RespondStep DEF RestController, RestGetUser, RestGetProduct, Backends
<1>2. CASE \E v \in Visitors : GrpcGetUser(v) \/ GrpcGetProduct(v)
  BY <1>2, GrpcReplyStep, BackendReplies DEF Backends
<1>3. CASE \E b \in Backends : StopBackend(b) \/ ConnectFails(b) \/ BackoffEnds(b)
  BY <1>3, StopBackendStep, ConnectFailsStep, BackStep
<1>4. CASE UserBackendBootstrap \/ ProductBackendBootstrap
  BY <1>4, BackStep DEF UserBackendBootstrap, ProductBackendBootstrap, Backends
<1>5. CASE UNCHANGED grpcVars
  <2>1. \A b \in Backends : CallsOf(b)' = CallsOf(b)
    BY <1>5 DEF grpcVars, CallsOf
  <2> QED BY <1>5, <2>1 DEF grpcVars, GrpcInv, GrpcTypeOK, LookupsInv, ChannelInv
<1> QED BY <1>1, <1>2, <1>3, <1>4, <1>5 DEF GrpcNext

LEMMA GrpcInvariant == GrpcSpec => []GrpcInv
BY GrpcInitial, GrpcStep, PTL DEF GrpcSpec

\* The backends, the channels and the requests keep their types.
THEOREM GrpcTypes == GrpcSpec => []GrpcTypeOK
BY GrpcInvariant, PTL DEF GrpcInv

\* Of an id that fits the wire a visitor is shown the record asked for, or is told
\* that there is none, whichever is true; of an id that does not fit, the visitor
\* may be shown another record, but no record is never taken for one.
THEOREM LookupsAnswer == GrpcSpec => []RestAnswersMatch
<1>1. GrpcInv => RestAnswersMatch
  <2> SUFFICES ASSUME GrpcInv, NEW v \in Visitors, lookup[v].pc = "done"
               PROVE  LET self == lookup[v]
                      IN  /\ self.status = "200" => self.found # NotFound
                          /\ (self.status = "200" /\ FitsInt32(self.id)) =>
                               self.found = self.id /\ self.id \in Resources(self.kind)
                          /\ self.status = "404" => self.id \notin Resources(self.kind)
    BY DEF RestAnswersMatch
  <2> DEFINE self == lookup[v]
  <2>1. /\ self \in Lookup /\ self.pc = "done"
        /\ LookupInv(self, outages[self.kind], answered[self.kind])
    BY DEF GrpcInv, GrpcTypeOK, LookupsInv
  <2>2. self.kind \in Backends /\ (self.id \in Int \/ self.id = NaN)
    BY <2>1, WireAssumption DEF Lookup
  <2>3. FitsInt32(self.id) => self.id \in Int /\ AsInt32(self.id) = self.id
    BY <2>2, Int32Identity DEF FitsInt32
  <2>4. ASSUME self.id \in Resources(self.kind)
        PROVE  self.status # "404"
    <3>1. FitsInt32(self.id) /\ self.id # NotFound
      BY <2>2, <2>4, ResourcesFit
    <3>2. Found(self.kind, AsInt32(self.id)) # NotFound
      BY <2>3, <2>4, <3>1 DEF Found
    <3> QED BY <2>1, <3>2 DEF LookupInv
  <2> QED BY <2>1, <2>3, <2>4 DEF LookupInv, Found
<1> QED BY <1>1, GrpcInvariant, PTL

\* No request fails but for an outage of its own backend that nothing had been
\* answered after when it was made: the inductive invariant says that a channel in
\* backoff has seen no reply since the outage, and that no call waits for it.
THEOREM FailuresExcused == GrpcSpec => []FailuresAreOutages
<1>1. GrpcInv => FailuresAreOutages
  BY DEF GrpcInv, LookupsInv, LookupInv, FailuresAreOutages
<1> QED BY <1>1, GrpcInvariant, PTL

-----------------------------------------------------------------------------
(* Lesson 0.                                                               *)

InList(item, list) == \E i \in DOMAIN list : list[i] = item
Numbered(list) == \A i \in DOMAIN list : list[i].id = i

\* The items of a service are numbered in their order.
MemoryInv ==
  \A s \in Services : Numbered(memory[s].list) /\ memory[s].counter = Len(memory[s].list)

\* What a service has told somebody it keeps until it is restarted.
Keeps(s, l, item) == l <= life[s] /\ (l = life[s] => InList(item, memory[s].list))
AckedInv == \A a \in acked : Keeps(a.service, a.life, a.item)

\* A request on its way through the gateway.
RequestInv(self) ==
  /\ self.pc \in {"service", "reply", "lost"} => self.path \in Services
  /\ self.pc # "idle" => self.request # 0
  /\ self.pc = "lost" => self.broken
  /\ self.pc = "gateway" /\ self.path \in Services /\ ~ up[self.path] => self.broken
  /\ self.made <= (IF self.method = "POST" THEN 1 ELSE 0)
  /\ self.pc \in {"gateway", "service"} => self.made = 0
  /\ self.pc = "reply" /\ self.method = "POST" =>
       /\ self.made = 1
       /\ Len(self.answer) = 1
       /\ Keeps(self.path, self.life, self.answer[1])
  /\ self.due \subseteq acked /\ \A a \in self.due : a.service = self.path
  /\ self.method = "GET" /\ (self.pc = "reply" \/ self.status = "200") =>
       /\ Numbered(self.answer)
       /\ \A a \in self.due : a.life = self.life => InList(a.item, self.answer)
  /\ self.pc # "answered" => self.status = "none"
  /\ self.pc = "answered" =>
       /\ self.status = "200" => self.method = "GET"
       /\ self.status = "201" => self.method = "POST" /\ self.made = 1
       /\ self.status = "404" => self.path \notin Services
       /\ self.status = "502" => self.broken

GatewayInv ==
  GatewayTypeOK /\ MemoryInv /\ AckedInv /\ \A c \in Clients : RequestInv(exchange[c])

LEMMA NoExchangeType == NoExchange \in Exchange
BY GatewayBounds DEF NoExchange, Exchange, Paths

LEMMA GatewayInitial == GatewayInit => GatewayInv
<1> SUFFICES ASSUME GatewayInit PROVE GatewayInv
  OBVIOUS
<1>1. RequestInv(NoExchange)
  BY DEF RequestInv, NoExchange
<1>2. NewAppService \in [counter : Nat, list : Seq(Item)]
  BY DEF NewAppService
<1>3. GatewayTypeOK
  BY <1>2, NoExchangeType, GatewayBounds DEF GatewayInit, GatewayTypeOK
<1>4. MemoryInv /\ AckedInv
  BY DEF GatewayInit, MemoryInv, AckedInv, NewAppService, Numbered
<1> QED BY <1>1, <1>3, <1>4 DEF GatewayInit, GatewayInv

\* A request is not disturbed while its service runs on.
LEMMA Undisturbed ==
  ASSUME UNCHANGED <<up, life>>, acked \subseteq acked',
         \A s \in Services : \A item :
           InList(item, memory[s].list) => InList(item, memory'[s].list),
         NEW self, RequestInv(self)
  PROVE  RequestInv(self)'
<1>1. \A s \in Services : \A l, item : Keeps(s, l, item) => Keeps(s, l, item)'
  BY DEF Keeps
<1> QED BY <1>1 DEF RequestInv

\* A step of one request that changes nothing else.
LEMMA OneExchange ==
  ASSUME GatewayInv, NEW c \in Clients, NEW new \in Exchange, RequestInv(new)',
         exchange' = [exchange EXCEPT ![c] = new],
         UNCHANGED <<up, life, stops>>, sent' \in 0 .. MaxRequests,
         acked \subseteq acked', acked' \subseteq Acknowledged, AckedInv',
         memory' \in [Services -> [counter : Nat, list : Seq(Item)]], MemoryInv',
         \A s \in Services : \A item :
           InList(item, memory[s].list) => InList(item, memory'[s].list)
  PROVE  GatewayInv'
<1>1. exchange' \in [Clients -> Exchange]
      /\ \A d \in Clients : exchange'[d] = IF d = c THEN new ELSE exchange[d]
  BY DEF GatewayInv, GatewayTypeOK
<1>2. ASSUME NEW d \in Clients PROVE RequestInv(exchange[d])'
  <2>1. CASE d = c
    <3>1. exchange'[d] = new
      BY <1>1, <2>1
    <3> QED BY <3>1 DEF RequestInv
  <2>2. CASE d # c
    <3>1. PICK self : self = exchange[d] /\ self = exchange'[d]
      BY <1>1, <2>2
    <3>2. RequestInv(self)'
      BY <3>1, Undisturbed DEF GatewayInv
    <3> QED BY <3>1, <3>2 DEF RequestInv
  <2> QED BY <2>1, <2>2
<1>3. GatewayTypeOK'
  BY <1>1 DEF GatewayInv, GatewayTypeOK
<1> QED BY <1>2, <1>3 DEF GatewayInv

\* The client sends a request.
LEMMA SendStep ==
  ASSUME GatewayInv, NEW c \in Clients, Send(c)
  PROVE  GatewayInv'
<1>1. PICK method \in {"GET", "POST"}, path \in Paths :
        exchange' = [exchange EXCEPT ![c] =
                      [NoExchange EXCEPT !.pc = "gateway", !.method = method, !.path = path,
                         !.request = sent + 1,
                         !.due = IF method = "GET" THEN Due(path) ELSE {},
                         !.broken = path \in Services /\ ~ up[path]]]
  BY DEF Send
<1> DEFINE due == IF method = "GET" THEN Due(path) ELSE {}
<1>2. sent \in Nat /\ sent < MaxRequests /\ MaxRequests \in Nat /\ acked \subseteq Acknowledged
      /\ sent' = sent + 1 /\ UNCHANGED <<up, memory, life, acked, stops>>
  BY GatewayBounds DEF Send, GatewayInv, GatewayTypeOK
<1>3. due \subseteq acked /\ \A a \in due : a.service = path
  BY DEF Due
<1>4. sent + 1 \in 0 .. MaxRequests /\ sent + 1 # 0
  BY <1>2
<1>5. \A broken \in BOOLEAN :
        LET x == [NoExchange EXCEPT !.pc = "gateway", !.method = method, !.path = path,
                    !.request = sent + 1, !.due = due, !.broken = broken]
        IN  /\ x \in Exchange /\ x.pc = "gateway" /\ x.method = method /\ x.path = path
            /\ x.request = sent + 1 /\ x.due = due /\ x.broken = broken
            /\ x.made = NoExchange.made /\ x.status = NoExchange.status
  <2> HIDE DEF due
  <2> QED BY <1>2, <1>3, <1>4, NoExchangeType DEF Exchange
<1>6. PICK new \in Exchange :
        /\ exchange' = [exchange EXCEPT ![c] = new]
        /\ new.pc = "gateway" /\ new.method = method /\ new.path = path
        /\ new.request = sent + 1 /\ new.due = due
        /\ path \in Services /\ ~ up[path] => new.broken
        /\ new.made = 0 /\ new.status = "none"
  <2>1. NoExchange.made = 0 /\ NoExchange.status = "none"
    BY DEF NoExchange
  <2>2. CASE path \in Services /\ ~ up[path]
    BY <1>1, <1>5, <2>1, <2>2
  <2>3. CASE ~ (path \in Services /\ ~ up[path])
    <3>1. (path \in Services /\ ~ up[path]) = FALSE
      BY <2>3
    <3> DEFINE x == [NoExchange EXCEPT !.pc = "gateway", !.method = method, !.path = path,
                       !.request = sent + 1, !.due = due, !.broken = FALSE]
    <3>2. exchange' = [exchange EXCEPT ![c] = x]
      BY <1>1, <3>1, Zenon
    <3>3. /\ x \in Exchange /\ x.pc = "gateway" /\ x.method = method /\ x.path = path
          /\ x.request = sent + 1 /\ x.due = due
          /\ x.made = 0 /\ x.status = "none"
      BY <1>5, <2>1
    <3> HIDE DEF x
    <3> QED BY <2>3, <3>2, <3>3
  <2> QED BY <2>2, <2>3
<1>7. RequestInv(new)'
  <2> HIDE DEF due
  <2> QED BY <1>2, <1>3, <1>4, <1>6 DEF RequestInv
<1>8. AckedInv' /\ MemoryInv'
  BY <1>2 DEF GatewayInv, AckedInv, MemoryInv, Keeps
<1> QED BY <1>2, <1>4, <1>6, <1>7, <1>8, OneExchange DEF GatewayInv, GatewayTypeOK

\* Kong routes the request, or answers that there is no service.
LEMMA RouteStep ==
  ASSUME GatewayInv, NEW c \in Clients, Route(c) \/ HangUp(c)
  PROVE  GatewayInv'
<1>1. PICK self \in Exchange : self = exchange[c] /\ RequestInv(self)
  BY DEF GatewayInv, GatewayTypeOK
<1>2. UNCHANGED <<up, memory, sent, life, acked, stops>>
  BY DEF Route, HangUp
<1>3. \A status \in {"none", "200", "201", "404", "502"} :
        LET x == Answered(self, status)
        IN  /\ x \in Exchange /\ x.pc = "answered" /\ x.status = status
            /\ x.method = self.method /\ x.path = self.path /\ x.request = self.request
            /\ x.due = self.due /\ x.made = self.made /\ x.broken = self.broken
  BY DEF Answered, Exchange
<1>4. \A pc \in {"gateway", "service"} :
        LET x == [self EXCEPT !.pc = pc]
        IN  /\ x \in Exchange /\ x.pc = pc /\ x.status = self.status
            /\ x.method = self.method /\ x.path = self.path /\ x.request = self.request
            /\ x.due = self.due /\ x.made = self.made /\ x.broken = self.broken
  BY DEF Exchange
<1>5. PICK new \in Exchange :
        /\ exchange' = [exchange EXCEPT ![c] = new]
        /\ new.method = self.method /\ new.path = self.path /\ new.request = self.request
        /\ new.due = self.due /\ new.made = self.made /\ new.broken = self.broken
        /\ self.pc # "idle"
        /\ \/ new.pc = "answered" /\ new.status = "404" /\ self.path \notin Services
           \/ new.pc = "answered" /\ new.status = "502" /\ self.broken
           \/ /\ new.pc = "service" /\ new.status = "none" /\ self.path \in Services
              /\ self.made = 0
           \/ /\ new.pc = "gateway" /\ new.status = "none" /\ self.broken
              /\ self.made = 0
  <2>1. CASE HangUp(c)
    <3>1. self.broken /\ self.status = "none" /\ (self.method = "GET" => self.made = 0)
      BY <2>1, <1>1 DEF HangUp, RequestInv, Exchange
    <3>2. CASE exchange' = [exchange EXCEPT ![c] = Answered(self, "502")]
      BY <2>1, <1>1, <1>3, <3>1, <3>2 DEF HangUp
    <3>3. CASE self.method = "GET" /\ exchange' = [exchange EXCEPT ![c].pc = "gateway"]
      <4>1. exchange' = [exchange EXCEPT ![c] = [self EXCEPT !.pc = "gateway"]]
        BY <1>1, <3>3
      <4> QED BY <2>1, <1>1, <1>4, <3>1, <3>3, <4>1 DEF HangUp
    <3> QED BY <2>1, <1>1, <3>2, <3>3 DEF HangUp
  <2>2. CASE Route(c)
    <3>1. self.pc = "gateway" /\ self.status = "none" /\ self.made = 0
          /\ (self.path \in Services /\ ~ up[self.path] => self.broken)
      BY <2>2, <1>1 DEF Route, RequestInv
    <3>2. CASE self.path \notin Services
      BY <2>2, <1>1, <1>3, <3>1, <3>2 DEF Route
    <3>3. CASE self.path \in Services /\ up[self.path]
      BY <2>2, <1>1, <1>4, <3>1, <3>3 DEF Route
    <3>4. CASE self.path \in Services /\ ~ up[self.path]
      BY <2>2, <1>1, <1>3, <3>1, <3>4 DEF Route
    <3> QED BY <3>2, <3>3, <3>4
  <2> QED BY <2>1, <2>2
<1>6. RequestInv(new)'
  BY <1>1, <1>2, <1>5 DEF RequestInv
<1>7. AckedInv' /\ MemoryInv'
  BY <1>2 DEF GatewayInv, AckedInv, MemoryInv, Keeps
<1> QED BY <1>2, <1>5, <1>6, <1>7, OneExchange DEF GatewayInv, GatewayTypeOK

\* Kong relays what the service replied.
LEMMA RelayStep ==
  ASSUME GatewayInv, NEW c \in Clients, Relay(c)
  PROVE  GatewayInv'
<1>1. PICK self \in Exchange : self = exchange[c] /\ RequestInv(self) /\ self.pc = "reply"
  BY DEF GatewayInv, GatewayTypeOK, Relay
<1>2. UNCHANGED <<up, memory, sent, life, stops>>
  BY DEF Relay
<1> DEFINE status == IF self.method = "POST" THEN "201" ELSE "200"
           ack == [service |-> self.path, life |-> self.life, item |-> self.answer[1]]
<1>3. PICK new \in Exchange :
        /\ exchange' = [exchange EXCEPT ![c] = new]
        /\ new.pc = "answered" /\ new.status = status
        /\ new.method = self.method /\ new.path = self.path /\ new.request = self.request
        /\ new.due = self.due /\ new.made = self.made /\ new.broken = self.broken
        /\ new.answer = self.answer /\ new.life = self.life
  <2>1. LET x == Answered(self, status)
        IN  /\ x \in Exchange /\ x.pc = "answered" /\ x.status = status
            /\ x.method = self.method /\ x.path = self.path /\ x.request = self.request
            /\ x.due = self.due /\ x.made = self.made /\ x.broken = self.broken
            /\ x.answer = self.answer /\ x.life = self.life
    BY DEF Answered, Exchange
  <2> QED BY <1>1, <2>1 DEF Relay
<1>4. self.method \in {"GET", "POST"} /\ acked \subseteq acked'
  BY <1>1 DEF Exchange, Relay
<1>5. acked' = acked \/ (self.method = "POST" /\ acked' = acked \cup {ack})
  BY <1>1, <1>4 DEF Relay
<1>6. self.method = "POST" => ack \in Acknowledged /\ Keeps(ack.service, ack.life, ack.item)
  <2>1. self.method = "POST" =>
          self.path \in Services /\ Len(self.answer) = 1
          /\ Keeps(self.path, self.life, self.answer[1])
    BY <1>1 DEF RequestInv
  <2>2. self.answer \in Seq(Item) /\ self.life \in Nat
    BY DEF Exchange
  <2> QED BY <2>1, <2>2 DEF Acknowledged
<1>7. acked' \subseteq Acknowledged
  BY <1>5, <1>6 DEF GatewayInv, GatewayTypeOK
<1>8. AckedInv'
  <2>1. \A a \in acked' : Keeps(a.service, a.life, a.item)
    <3> HIDE DEF ack
    <3> QED BY <1>5, <1>6 DEF GatewayInv, AckedInv
  <2> QED BY <1>2, <2>1 DEF AckedInv, Keeps
<1>9. RequestInv(new)'
  BY <1>1, <1>2, <1>3, <1>4 DEF RequestInv
<1>10. MemoryInv'
  BY <1>2 DEF GatewayInv, MemoryInv
<1> QED BY <1>2, <1>3, <1>4, <1>7, <1>8, <1>9, <1>10, OneExchange DEF GatewayInv, GatewayTypeOK

\* A service creates an item: it is the last of the list, with the next id.
LEMMA AddStep ==
  ASSUME GatewayInv, NEW c \in Clients, NEW s \in Services, NEW item \in Item,
         item.id = NextId(s), Called(c, "POST", s), Add(c, s, item)
  PROVE  GatewayInv'
<1> DEFINE list == memory[s].list
<1>1. PICK self \in Exchange :
        self = exchange[c] /\ RequestInv(self)
        /\ self.pc = "service" /\ self.method = "POST" /\ self.path = s
  BY DEF GatewayInv, GatewayTypeOK, Called
<1>2. UNCHANGED <<up, sent, life, acked, stops>> /\ life \in [Services -> Nat]
  BY DEF Add, Reply, GatewayInv, GatewayTypeOK
<1>3. self.made = 0
  BY <1>1 DEF RequestInv
<1>4. /\ list \in Seq(Item) /\ Numbered(list) /\ memory[s].counter = Len(list)
      /\ item.id = Len(list) + 1
  BY DEF GatewayInv, GatewayTypeOK, MemoryInv, NextId
<1>5. /\ memory' \in [Services -> [counter : Nat, list : Seq(Item)]]
      /\ memory'[s].list = Append(list, item) /\ memory'[s].counter = item.id
      /\ \A t \in Services \ {s} : memory'[t] = memory[t]
  <2>1. item.id \in Nat /\ Append(list, item) \in Seq(Item)
    BY <1>4
  <2>2. memory' = [memory EXCEPT ![s] = [counter |-> item.id, list |-> Append(list, item)]]
    BY DEF Add
  <2> HIDE DEF list
  <2> QED BY <2>1, <2>2 DEF GatewayInv, GatewayTypeOK
<1>6. /\ Len(Append(list, item)) = Len(list) + 1
      /\ DOMAIN Append(list, item) = 1 .. Len(list) + 1 /\ DOMAIN list = 1 .. Len(list)
      /\ \A i \in DOMAIN list : Append(list, item)[i] = list[i]
      /\ Append(list, item)[Len(list) + 1] = item
      /\ Len(list) \in Nat
  BY <1>4
<1>7. Numbered(Append(list, item))
  <2> HIDE DEF list
  <2> QED BY <1>4, <1>6 DEF Numbered
<1>8. MemoryInv'
  <2>1. \A t \in Services : Numbered(memory'[t].list)
                            /\ memory'[t].counter = Len(memory'[t].list)
    BY <1>4, <1>5, <1>6, <1>7 DEF GatewayInv, MemoryInv
  <2> QED BY <2>1 DEF MemoryInv
<1>9. \A t \in Services : \A x : InList(x, memory[t].list) => InList(x, memory'[t].list)
  <2>1. \A x : InList(x, list) => InList(x, memory'[s].list)
    <3> HIDE DEF list
    <3> QED BY <1>5, <1>6 DEF InList
  <2> QED BY <1>5, <2>1
<1>10. InList(item, memory'[s].list)
  <2> HIDE DEF list
  <2> QED BY <1>5, <1>6 DEF InList
<1>11. PICK new \in Exchange :
        /\ exchange' = [exchange EXCEPT ![c] = new]
        /\ new.pc = "reply" /\ new.answer = <<item>> /\ new.life = life[s] /\ new.made = 1
        /\ new.method = self.method /\ new.path = self.path /\ new.request = self.request
        /\ new.due = self.due /\ new.broken = self.broken /\ new.status = self.status
  <2>a. PICK answer \in Seq(Item), l \in Nat, made \in Nat :
          answer = <<item>> /\ l = life[s] /\ made = self.made + 1 /\ made = 1
    <3>1. <<item>> \in Seq(Item) /\ life[s] \in Nat /\ self.made + 1 = 1
      BY <1>2, <1>3
    <3> QED BY <3>1
  <2> DEFINE x == [self EXCEPT !.pc = "reply", !.answer = answer, !.life = l, !.made = made]
  <2>1. exchange' = [exchange EXCEPT ![c] = x]
    BY <1>1, <2>a DEF Add, Reply, GatewayInv, GatewayTypeOK
  <2>3. /\ x \in Exchange
        /\ x.pc = "reply" /\ x.answer = <<item>> /\ x.life = life[s] /\ x.made = 1
        /\ x.method = self.method /\ x.path = self.path /\ x.request = self.request
        /\ x.due = self.due /\ x.broken = self.broken /\ x.status = self.status
    <3>1. x \in Exchange
      BY DEF Exchange
    <3>2. /\ x.pc = "reply" /\ x.answer = answer /\ x.life = l /\ x.made = made
          /\ x.method = self.method /\ x.path = self.path /\ x.request = self.request
          /\ x.due = self.due /\ x.broken = self.broken /\ x.status = self.status
      BY DEF Exchange
    <3> HIDE DEF x
    <3> QED BY <2>a, <3>1, <3>2
  <2> HIDE DEF x
  <2> QED BY <2>1, <2>3
<1>12. RequestInv(new)'
  <2>1. Keeps(s, life[s], item)'
    BY <1>2, <1>10 DEF Keeps
  <2>2. new.life \in Nat /\ new.life = life'[s] /\ new.answer[1] = item /\ Len(new.answer) = 1
    BY <1>2, <1>11
  <2>3. Keeps(new.path, new.life, new.answer[1])'
    BY <1>1, <1>2, <1>10, <1>11, <2>2 DEF Keeps
  <2> QED BY <1>1, <1>2, <1>3, <1>11, <2>2, <2>3 DEF RequestInv
<1>13. AckedInv'
  BY <1>2, <1>9 DEF GatewayInv, GatewayTypeOK, Acknowledged, AckedInv, Keeps
<1> HIDE DEF list
<1> QED BY <1>2, <1>5, <1>8, <1>9, <1>11, <1>12, <1>13, OneExchange
        DEF GatewayInv, GatewayTypeOK

\* A service answers its list.
LEMMA ListStep ==
  ASSUME GatewayInv, NEW c \in Clients, NEW s \in Services, Called(c, "GET", s), List(c, s)
  PROVE  GatewayInv'
<1> DEFINE list == memory[s].list
<1>1. PICK self \in Exchange :
        self = exchange[c] /\ RequestInv(self)
        /\ self.pc = "service" /\ self.method = "GET" /\ self.path = s
  BY DEF GatewayInv, GatewayTypeOK, Called
<1>2. UNCHANGED <<up, memory, sent, life, acked, stops>> /\ life \in [Services -> Nat]
      /\ list \in Seq(Item) /\ Numbered(list)
  BY DEF List, Reply, GatewayInv, GatewayTypeOK, MemoryInv
<1>3. self.made = 0
  BY <1>1 DEF RequestInv
<1>4. PICK new \in Exchange :
        /\ exchange' = [exchange EXCEPT ![c] = new]
        /\ new.pc = "reply" /\ new.answer = list /\ new.life = life[s] /\ new.made = 0
        /\ new.method = self.method /\ new.path = self.path /\ new.request = self.request
        /\ new.due = self.due /\ new.broken = self.broken /\ new.status = self.status
  <2>a. PICK answer \in Seq(Item), l \in Nat, made \in Nat :
          answer = list /\ l = life[s] /\ made = self.made + 0 /\ made = 0
    BY <1>2, <1>3
  <2> DEFINE x == [self EXCEPT !.pc = "reply", !.answer = answer, !.life = l, !.made = made]
  <2>1. exchange' = [exchange EXCEPT ![c] = x]
    BY <1>1, <2>a DEF List, Reply, GatewayInv, GatewayTypeOK
  <2>3. /\ x \in Exchange
        /\ x.pc = "reply" /\ x.answer = list /\ x.life = life[s] /\ x.made = 0
        /\ x.method = self.method /\ x.path = self.path /\ x.request = self.request
        /\ x.due = self.due /\ x.broken = self.broken /\ x.status = self.status
    <3>1. x \in Exchange
      BY DEF Exchange
    <3>2. /\ x.pc = "reply" /\ x.answer = answer /\ x.life = l /\ x.made = made
          /\ x.method = self.method /\ x.path = self.path /\ x.request = self.request
          /\ x.due = self.due /\ x.broken = self.broken /\ x.status = self.status
      BY DEF Exchange
    <3> HIDE DEF list, x
    <3> QED BY <2>a, <3>1, <3>2
  <2> HIDE DEF x
  <2> QED BY <2>1, <2>3
<1>5. \A a \in self.due : a.life = life[s] => InList(a.item, list)
  BY <1>1 DEF RequestInv, GatewayInv, AckedInv, Keeps
<1>6. RequestInv(new)'
  <2> HIDE DEF list
  <2> QED BY <1>1, <1>2, <1>3, <1>4, <1>5 DEF RequestInv
<1>7. AckedInv' /\ MemoryInv'
  BY <1>2 DEF GatewayInv, AckedInv, MemoryInv, Keeps
<1> QED BY <1>2, <1>4, <1>6, <1>7, OneExchange DEF GatewayInv, GatewayTypeOK

\* A service stops, and its open requests are lost.
LEMMA StopStep ==
  ASSUME GatewayInv, NEW s \in Services, Stop(s)
  PROVE  GatewayInv'
<1>1. /\ UNCHANGED <<memory, sent, life, acked>>
      /\ up' = [up EXCEPT ![s] = FALSE] /\ up \in [Services -> BOOLEAN]
      /\ stops \in 0 .. MaxStops /\ stops < MaxStops /\ stops' = stops + 1
  BY DEF Stop, GatewayInv, GatewayTypeOK
<1>2. ASSUME NEW c \in Clients
      PROVE  exchange'[c] \in Exchange /\ RequestInv(exchange[c])'
  <2>1. PICK self \in Exchange : self = exchange[c] /\ RequestInv(self)
    BY DEF GatewayInv, GatewayTypeOK
  <2>2. PICK new : new = exchange'[c]
    OBVIOUS
  <2>3. CASE self.path # s
    <3>1. new = self
      BY <2>1, <2>2, <2>3 DEF Stop
    <3>2. RequestInv(self)'
      BY <1>1, <2>1, <2>3 DEF RequestInv, Keeps
    <3> QED BY <2>2, <3>1, <3>2 DEF RequestInv
  <2>4. CASE self.path = s
    <3> DEFINE pc == IF self.pc \in {"service", "reply"} THEN "lost" ELSE self.pc
    <3>1. new = [self EXCEPT !.broken = TRUE, !.pc = pc]
      BY <2>1, <2>2, <2>4 DEF Stop
    <3>2. /\ new \in Exchange /\ new.pc = pc /\ new.broken
          /\ new.method = self.method /\ new.path = self.path /\ new.request = self.request
          /\ new.due = self.due /\ new.made = self.made /\ new.status = self.status
          /\ new.answer = self.answer /\ new.life = self.life
      BY <3>1 DEF Exchange
    <3>3. RequestInv(new)'
      BY <1>1, <2>1, <2>4, <3>2 DEF RequestInv
    <3> QED BY <2>2, <3>2, <3>3 DEF RequestInv
  <2> QED BY <2>3, <2>4
<1>3. exchange' \in [Clients -> Exchange]
  BY <1>2 DEF Stop
<1>4. up' \in [Services -> BOOLEAN]
  BY <1>1
<1>5. stops' \in 0 .. MaxStops
  BY <1>1, GatewayBounds
<1>6. AckedInv' /\ MemoryInv'
  BY <1>1 DEF GatewayInv, AckedInv, MemoryInv, Keeps
<1> QED BY <1>1, <1>2, <1>3, <1>4, <1>5, <1>6 DEF GatewayInv, GatewayTypeOK

\* A service starts with an empty memory, in a life of which nothing is told.
LEMMA BootstrapStep ==
  ASSUME GatewayInv, NEW s \in Services, Bootstrap(s)
  PROVE  GatewayInv'
<1>1. /\ UNCHANGED <<exchange, sent, acked, stops>>
      /\ up' = [up EXCEPT ![s] = TRUE] /\ up \in [Services -> BOOLEAN]
      /\ memory' = [memory EXCEPT ![s] = NewAppService]
      /\ life' = [life EXCEPT ![s] = @ + 1] /\ life \in [Services -> Nat]
      /\ memory \in [Services -> [counter : Nat, list : Seq(Item)]]
  BY DEF Bootstrap, GatewayInv, GatewayTypeOK
<1>2. /\ NewAppService \in [counter : Nat, list : Seq(Item)]
      /\ NewAppService.counter = 0 /\ NewAppService.list = <<>>
  BY DEF NewAppService
<1>3. /\ up' \in [Services -> BOOLEAN] /\ life' \in [Services -> Nat]
      /\ memory' \in [Services -> [counter : Nat, list : Seq(Item)]]
      /\ life'[s] = life[s] + 1 /\ up'[s]
      /\ memory'[s] = NewAppService
      /\ \A t \in Services \ {s} : memory'[t] = memory[t] /\ life'[t] = life[t]
                                   /\ up'[t] = up[t]
  BY <1>1, <1>2
<1>4. \A t \in Services : \A l \in Nat : \A x : Keeps(t, l, x) => Keeps(t, l, x)'
  <2>1. \A l \in Nat : l <= life[s] => l <= life'[s] /\ l # life'[s]
    BY <1>1, <1>3
  <2> QED BY <1>3, <2>1 DEF Keeps
<1>5. MemoryInv'
  <2>1. Numbered(memory'[s].list) /\ memory'[s].counter = Len(memory'[s].list)
    BY <1>2, <1>3 DEF Numbered
  <2>2. ASSUME NEW t \in Services
        PROVE  Numbered(memory'[t].list) /\ memory'[t].counter = Len(memory'[t].list)
    BY <1>3, <2>1 DEF GatewayInv, MemoryInv
  <2> QED BY <2>2 DEF MemoryInv
<1>6. AckedInv'
  BY <1>1, <1>4 DEF GatewayInv, GatewayTypeOK, AckedInv, Acknowledged
<1>7. ASSUME NEW c \in Clients PROVE RequestInv(exchange[c])'
  <2>1. PICK self \in Exchange : self = exchange[c] /\ RequestInv(self)
    BY DEF GatewayInv, GatewayTypeOK
  <2>2. self.life \in Nat
    BY DEF Exchange
  <2>3. RequestInv(self)'
    <3>1. self.pc = "reply" /\ self.method = "POST"
            => Keeps(self.path, self.life, self.answer[1])'
      BY <1>4, <2>1, <2>2 DEF RequestInv
    <3>2. self.pc = "gateway" /\ self.path \in Services /\ ~ up'[self.path] => self.broken
      BY <1>3, <2>1 DEF RequestInv
    <3> QED BY <1>1, <2>1, <3>1, <3>2 DEF RequestInv
  <2>4. self = exchange'[c]
    BY <1>1, <2>1
  <2> QED BY <2>3, <2>4 DEF RequestInv
<1>8. GatewayTypeOK'
  BY <1>1, <1>3 DEF GatewayInv, GatewayTypeOK
<1> QED BY <1>5, <1>6, <1>7, <1>8 DEF GatewayInv

LEMMA GatewayStep == GatewayInv /\ [GatewayNext]_gatewayVars => GatewayInv'
<1> SUFFICES ASSUME GatewayInv, [GatewayNext]_gatewayVars PROVE GatewayInv'
  OBVIOUS
<1>1. ASSUME NEW c \in Clients, UserController(c) \/ ProductController(c) \/ OrderController(c)
      PROVE  GatewayInv'
  <2>1. exchange[c] \in Exchange /\ exchange[c].pc = "service"
    BY <1>1 DEF UserController, ProductController, OrderController, Called, GatewayInv,
                GatewayTypeOK
  <2>2. exchange[c].request \in 1 .. MaxRequests
    <3>1. exchange[c].request \in 0 .. MaxRequests
      BY <2>1 DEF Exchange
    <3>2. exchange[c].request # 0
      BY <2>1 DEF GatewayInv, RequestInv
    <3> QED BY <3>1, <3>2, GatewayBounds
  <2>3. \A s \in Services : NextId(s) \in Nat
    BY DEF GatewayInv, GatewayTypeOK, NextId
  <2> DEFINE user(s) == [id |-> NextId(s), input |-> exchange[c].request]
             order == [id |-> NextId("orders"), input |-> exchange[c].request,
                       status |-> "PENDING"]
  <2>4. /\ \A s \in Services : user(s) \in User
        /\ order \in Order /\ User \subseteq Item /\ Order \subseteq Item
    BY <2>2, <2>3 DEF User, Order, Item, CreateUserInput, CreateOrderInput, Services
  <2>5. CASE UserController(c)
    BY <2>4, <2>5, AddStep, ListStep DEF UserController, CreateUser, Services
  <2>6. CASE ProductController(c)
    BY <2>4, <2>6, AddStep, ListStep DEF ProductController, CreateProduct, Services
  <2>7. CASE OrderController(c)
    BY <2>4, <2>7, AddStep, ListStep DEF OrderController, CreateOrder, Services
  <2> QED BY <1>1, <2>5, <2>6, <2>7
<1>2. CASE UNCHANGED gatewayVars
  <2>1. ASSUME NEW c \in Clients PROVE RequestInv(exchange[c])'
    BY <1>2 DEF gatewayVars, GatewayInv, RequestInv, Keeps
  <2> QED BY <1>2, <2>1 DEF gatewayVars, GatewayInv, GatewayTypeOK, MemoryInv, AckedInv, Keeps
<1>3. AllAnswered => UNCHANGED gatewayVars
  BY DEF AllAnswered
<1> QED BY <1>1, <1>2, <1>3, SendStep, RouteStep, RelayStep, StopStep, BootstrapStep
        DEF GatewayNext, Serve, UserBootstrap, ProductBootstrap, OrderBootstrap, Services

LEMMA GatewayInvariance == GatewaySpec => []GatewayInv
BY GatewayInitial, GatewayStep, PTL DEF GatewaySpec

\* The services and the requests keep their types.
THEOREM GatewayTypes == GatewaySpec => []GatewayTypeOK
<1>1. GatewayInv => GatewayTypeOK
  BY DEF GatewayInv
<1> QED BY <1>1, GatewayInvariance, PTL

\* Whatever stops and however the gateway sends requests again, no request
\* creates two items, and the status tells the client what happened.
THEOREM StatusIsTrue == GatewaySpec => []AnswersTellWhatHappened
<1>1. GatewayInv => AnswersTellWhatHappened
  BY DEF GatewayInv, RequestInv, AnswersTellWhatHappened
<1> QED BY <1>1, GatewayInvariance, PTL

\* A list contains everything that was acknowledged before it was asked for, if
\* the service has not been restarted since, and each id once.
THEOREM ListsAreCurrent == GatewaySpec => []ReadsAreCurrent
<1>1. GatewayInv => ReadsAreCurrent
  <2> SUFFICES ASSUME GatewayInv, NEW c \in Clients, exchange[c].pc = "answered",
                      exchange[c].status = "200"
               PROVE  LET list == exchange[c].answer
                      IN  /\ \A d \in exchange[c].due :
                               d.life = exchange[c].life => \E i \in DOMAIN list : list[i] = d.item
                          /\ \A i, j \in DOMAIN list : list[i].id = list[j].id => i = j
    BY DEF ReadsAreCurrent
  <2> DEFINE list == exchange[c].answer
  <2>1. /\ Numbered(list)
        /\ \A d \in exchange[c].due : d.life = exchange[c].life => InList(d.item, list)
    BY DEF GatewayInv, RequestInv
  <2> QED BY <2>1 DEF Numbered, InList
<1> QED BY <1>1, GatewayInvariance, PTL
=============================================================================
