---------------------------- MODULE Brokers_proofs ----------------------------
(***************************************************************************)
(* Theorems about lessons 2 and 3, for any number of orders, messages,     *)
(* losses and stops.                                                       *)
(***************************************************************************)
EXTENDS EventDrivenProps, PubSubProps, TLAPS

(* Sequences.                                                              *)

LEMMA MembersEmpty == Members(<<>>) = {}
BY DEF Members

LEMMA MembersAppend ==
  ASSUME NEW S, NEW seq \in Seq(S), NEW x
  PROVE  Members(Append(seq, x)) = Members(seq) \cup {x}
<1>1. /\ DOMAIN seq = 1 .. Len(seq) /\ Len(seq) \in Nat
      /\ DOMAIN Append(seq, x) = 1 .. Len(seq) + 1
      /\ \A i \in 1 .. Len(seq) : Append(seq, x)[i] = seq[i]
      /\ Append(seq, x)[Len(seq) + 1] = x
  OBVIOUS
<1>2. \A i : i \in 1 .. Len(seq) + 1 <=> i \in 1 .. Len(seq) \/ i = Len(seq) + 1
  BY <1>1
<1> QED BY <1>1, <1>2 DEF Members

LEMMA MembersTail ==
  ASSUME NEW S, NEW seq \in Seq(S), seq # <<>>
  PROVE  /\ Head(seq) \in S /\ Tail(seq) \in Seq(S)
         /\ Members(seq) = {Head(seq)} \cup Members(Tail(seq))
<1>1. /\ DOMAIN seq = 1 .. Len(seq) /\ Len(seq) \in Nat \ {0}
      /\ Tail(seq) \in Seq(S) /\ DOMAIN Tail(seq) = 1 .. Len(seq) - 1
      /\ \A i \in 1 .. Len(seq) - 1 : Tail(seq)[i] = seq[i + 1]
      /\ Head(seq) = seq[1] /\ Head(seq) \in S
  OBVIOUS
<1>2. Members(seq) \subseteq {Head(seq)} \cup Members(Tail(seq))
  <2> SUFFICES ASSUME NEW i \in 1 .. Len(seq)
               PROVE  seq[i] \in {Head(seq)} \cup Members(Tail(seq))
    BY <1>1 DEF Members
  <2>1. CASE i = 1
    BY <1>1, <2>1
  <2>2. CASE i # 1
    <3>1. i - 1 \in 1 .. Len(seq) - 1 /\ (i - 1) + 1 = i
      BY <1>1, <2>2
    <3>2. seq[i] = Tail(seq)[i - 1]
      BY <1>1, <3>1
    <3> QED BY <1>1, <3>1, <3>2 DEF Members
  <2> QED BY <2>1, <2>2
<1>3. {Head(seq)} \cup Members(Tail(seq)) \subseteq Members(seq)
  <2>1. \A i \in 1 .. Len(seq) - 1 : i + 1 \in 1 .. Len(seq)
    BY <1>1
  <2>2. 1 \in 1 .. Len(seq)
    BY <1>1
  <2> QED BY <1>1, <2>1, <2>2 DEF Members
<1> QED BY <1>1, <1>2, <1>3

LEMMA MembersType ==
  ASSUME NEW S, NEW seq \in Seq(S)
  PROVE  Members(seq) \subseteq S
BY DEF Members

\* A sequence whose numbers rise.
Rising(seq) == \A i, j \in DOMAIN seq : i < j => seq[i] < seq[j]

LEMMA RisingAppend ==
  ASSUME NEW seq \in Seq(Nat), NEW x \in Nat, Rising(seq), \A y \in Members(seq) : y < x
  PROVE  Rising(Append(seq, x))
<1>1. /\ DOMAIN seq = 1 .. Len(seq) /\ Len(seq) \in Nat
      /\ DOMAIN Append(seq, x) = 1 .. Len(seq) + 1
      /\ \A i \in 1 .. Len(seq) : Append(seq, x)[i] = seq[i] /\ seq[i] \in Members(seq)
      /\ Append(seq, x)[Len(seq) + 1] = x
  BY DEF Members
<1>2. \A i : i \in 1 .. Len(seq) + 1 => i \in 1 .. Len(seq) \/ i = Len(seq) + 1
  BY <1>1
<1>3. \A i, j \in 1 .. Len(seq) + 1 : i < j => i \in 1 .. Len(seq)
  BY <1>1
<1> QED BY <1>1, <1>2, <1>3 DEF Rising

LEMMA RisingTail ==
  ASSUME NEW seq \in Seq(Nat), seq # <<>>, Rising(seq)
  PROVE  Rising(Tail(seq)) /\ \A y \in Members(Tail(seq)) : Head(seq) < y
<1>1. /\ DOMAIN seq = 1 .. Len(seq) /\ Len(seq) \in Nat \ {0}
      /\ DOMAIN Tail(seq) = 1 .. Len(seq) - 1
      /\ \A i \in 1 .. Len(seq) - 1 : Tail(seq)[i] = seq[i + 1]
      /\ Head(seq) = seq[1]
  OBVIOUS
<1>2. \A i \in 1 .. Len(seq) - 1 : i + 1 \in 1 .. Len(seq) /\ 1 < i + 1
  BY <1>1
<1>3. 1 \in 1 .. Len(seq)
  BY <1>1
<1>4. \A i, j \in 1 .. Len(seq) - 1 : i < j => i + 1 < j + 1
  BY <1>1
<1> QED BY <1>1, <1>2, <1>3, <1>4 DEF Rising, Members

LEMMA AppendFacts ==
  ASSUME NEW S, NEW seq \in Seq(S), NEW x \in S
  PROVE  /\ Append(seq, x) \in Seq(S) /\ Len(seq) \in Nat
         /\ Len(Append(seq, x)) = Len(seq) + 1
         /\ DOMAIN seq = 1 .. Len(seq) /\ DOMAIN Append(seq, x) = 1 .. Len(seq) + 1
         /\ \A j \in 1 .. Len(seq) : Append(seq, x)[j] = seq[j]
         /\ Append(seq, x)[Len(seq) + 1] = x
OBVIOUS

LEMMA WiderSeq ==
  ASSUME NEW S, NEW T, S \subseteq T, NEW seq \in Seq(S)
  PROVE  seq \in Seq(T)
OBVIOUS

\* A sequence that repeats another from place a + 1 on to b is that slice of it.
LEMMA SliceIs ==
  ASSUME NEW S, NEW seq \in Seq(S), NEW a \in Nat, NEW b \in Nat, a <= b, b <= Len(seq),
         NEW h \in Seq(S), Len(h) = b - a, \A j \in DOMAIN h : h[j] = seq[a + j]
  PROVE  h = SubSeq(seq, a + 1, b)
<1>1. /\ Len(seq) \in Nat /\ DOMAIN h = 1 .. (b - a)
      /\ h = [j \in 1 .. (b - a) |-> h[j]]
  OBVIOUS
<1>2. SubSeq(seq, a + 1, b) = [j \in 1 .. (b - a) |-> seq[a + j]]
  BY <1>1
<1>3. \A j \in 1 .. (b - a) : h[j] = seq[a + j]
  BY <1>1
<1> QED BY <1>1, <1>2, <1>3

-----------------------------------------------------------------------------
(* Lesson 3.                                                               *)

InOrder(a, b) == \A x \in Members(a), y \in Members(b) : x < y

\* What a subscriber has handled, what is on its way to it and what has not been
\* sent follow each other in the order of publication.
OrderInv ==
  /\ Rising(outbox) /\ Len(outbox) <= Len(published)
  /\ \A s \in Subscribers :
       /\ Rising(inbox[s])
       /\ InOrder(received[s], inbox[s])
       /\ InOrder(received[s], outbox)
       /\ InOrder(inbox[s], outbox)

\* While nothing is disrupted, the outbox holds the newest messages, all of them.
OutboxInv ==
  disruptions = 0 =>
    \A i \in DOMAIN outbox : outbox[i] = Len(published) - Len(outbox) + i

PubSubInv == PubSubTypeOK /\ OrderInv /\ OutboxInv /\ SubscribersMissNothing

LEMMA PubSubInitial == PubSubInit => PubSubInv
<1> SUFFICES ASSUME PubSubInit PROVE PubSubInv
  OBVIOUS
<1>1. PubSubTypeOK
  <2>1. \A S : <<>> \in Seq(S)
    OBVIOUS
  <2>2. Len(published) = 0 /\ 0 \in 0 .. MaxDisruptions /\ 0 \in 0 .. MaxLeaves
    BY PubSubAssumption DEF PubSubInit
  <2>3. response \in [Posts -> PublishResponse]
    BY DEF PubSubInit, PublishResponse
  <2>4. inbox \in [Subscribers -> Seq(1 .. 0)] /\ received \in [Subscribers -> Seq(1 .. 0)]
    BY <2>1 DEF PubSubInit
  <2>5. since \in [Subscribers -> 0 .. 0]
    BY DEF PubSubInit
  <2> QED BY <2>1, <2>2, <2>3, <2>4, <2>5 DEF PubSubInit, PubSubTypeOK
<1>2. OrderInv /\ OutboxInv /\ SubscribersMissNothing
  BY DEF PubSubInit, OrderInv, OutboxInv, SubscribersMissNothing, Rising, InOrder, Members
<1> QED BY <1>1, <1>2 DEF PubSubInv

\* The envelope of a request is one.
LEMMA EnvelopeType ==
  ASSUME NEW r \in Posts
  PROVE  EnvelopeOf(r) \in AppEventEnvelope
BY DEF EnvelopeOf, AppEventEnvelope, TypeNames

LEMMA PublishStep ==
  ASSUME PubSubInv, NEW r \in Posts, Publish(r)
  PROVE  PubSubInv'
<1> DEFINE n == Len(published)
<1>a. /\ published \in Seq(AppEventEnvelope) /\ n \in Nat
      /\ outbox \in Seq(1 .. n) /\ Len(outbox) \in Nat
      /\ inbox \in [Subscribers -> Seq(1 .. n)] /\ received \in [Subscribers -> Seq(1 .. n)]
      /\ response \in [Posts -> PublishResponse]
  BY DEF PubSubInv, PubSubTypeOK
<1>b. UNCHANGED <<publishing, natsUp, subscriberVars, disruptions, leaves>>
  BY DEF Publish
<1>1. CASE UNCHANGED <<published, outbox>>
  <2>1. response' \in [Posts -> PublishResponse]
    BY <1>a DEF Publish, PublishResponse
  <2>2. PubSubTypeOK'
    BY <1>1, <1>b, <2>1 DEF PubSubInv, PubSubTypeOK, subscriberVars
  <2>3. OrderInv' /\ OutboxInv' /\ SubscribersMissNothing'
    BY <1>1, <1>b DEF PubSubInv, OrderInv, OutboxInv, SubscribersMissNothing,
                           subscriberVars
  <2> QED BY <2>2, <2>3 DEF PubSubInv
<1>2. CASE /\ published' = Append(published, EnvelopeOf(r))
           /\ outbox' = Append(outbox, n + 1)
           /\ response' = [response EXCEPT ![r] = "Event Published"]
  <2>1. published' \in Seq(AppEventEnvelope) /\ Len(published') = n + 1
    BY <1>2, <1>a, EnvelopeType, AppendFacts
  <2>2. /\ 1 .. n \subseteq 1 .. n + 1 /\ n + 1 \in 1 .. n + 1
        /\ 0 .. n \subseteq 0 .. n + 1 /\ 1 .. n \subseteq Nat
    BY <1>a
  <2>3. /\ outbox \in Seq(1 .. n + 1) /\ outbox \in Seq(Nat)
        /\ \A s \in Subscribers :
             /\ inbox[s] \in Seq(1 .. n + 1) /\ received[s] \in Seq(1 .. n + 1)
    BY <1>a, <2>2, WiderSeq
  <2>a. /\ outbox' = Append(outbox, n + 1)
        /\ n + 1 \in 1 .. n + 1 /\ outbox \in Seq(1 .. n + 1)
    BY <1>2, <2>2, <2>3
  <2>4. /\ outbox' \in Seq(1 .. n + 1) /\ Len(outbox') = Len(outbox) + 1
        /\ DOMAIN outbox = 1 .. Len(outbox) /\ DOMAIN outbox' = 1 .. Len(outbox) + 1
        /\ \A j \in 1 .. Len(outbox) : outbox'[j] = outbox[j]
        /\ outbox'[Len(outbox) + 1] = n + 1
    <3> HIDE DEF n
    <3> QED BY <2>a, AppendFacts
  <2>5. response' \in [Posts -> PublishResponse]
    BY <1>2, <1>a DEF PublishResponse
  <2>6. PubSubTypeOK'
    <3>1. since' \in [Subscribers -> 0 .. n + 1]
      BY <1>b, <2>2 DEF PubSubInv, PubSubTypeOK, subscriberVars
    <3>2. inbox' \in [Subscribers -> Seq(1 .. n + 1)]
          /\ received' \in [Subscribers -> Seq(1 .. n + 1)]
      BY <1>a, <1>b, <2>3 DEF subscriberVars
    <3> QED BY <1>b, <2>1, <2>4, <2>5, <3>1, <3>2
            DEF PubSubInv, PubSubTypeOK, subscriberVars
  <2>7. /\ \A y \in Members(outbox) : y < n + 1
        /\ \A s \in Subscribers : \A y \in Members(inbox[s]) \cup Members(received[s]) : y < n + 1
    BY <1>a, MembersType
  <2>8. Members(outbox') = Members(outbox) \cup {n + 1}
    BY <1>2, <1>a, MembersAppend
  <2>9. OrderInv'
    <3>1. Rising(outbox')
      <4>1. Rising(Append(outbox, n + 1))
        BY <1>a, <2>3, <2>7, RisingAppend DEF PubSubInv, OrderInv
      <4> QED BY <1>2, <4>1
    <3>2. Len(outbox') <= Len(published')
      BY <1>a, <2>1, <2>4 DEF PubSubInv, OrderInv
    <3> QED BY <1>b, <2>7, <2>8, <3>1, <3>2 DEF PubSubInv, OrderInv, InOrder, subscriberVars
  <2>10. OutboxInv'
    <3> SUFFICES ASSUME disruptions = 0, NEW i \in DOMAIN outbox'
                 PROVE  outbox'[i] = Len(published') - Len(outbox') + i
      BY <1>b DEF OutboxInv
    <3>1. /\ DOMAIN outbox = 1 .. Len(outbox) /\ DOMAIN outbox' = 1 .. Len(outbox) + 1
          /\ \A j \in 1 .. Len(outbox) : outbox'[j] = outbox[j]
          /\ outbox'[Len(outbox) + 1] = n + 1
      BY <2>4
    <3>2. \A j \in 1 .. Len(outbox) : outbox[j] = n - Len(outbox) + j
      BY <3>1 DEF PubSubInv, OutboxInv
    <3>3. i \in 1 .. Len(outbox) \/ i = Len(outbox) + 1
      BY <1>a, <3>1
    <3>4. CASE i \in 1 .. Len(outbox)
      BY <1>a, <2>1, <2>4, <3>1, <3>2, <3>4
    <3>5. CASE i = Len(outbox) + 1
      BY <1>a, <2>1, <2>4, <3>1, <3>5
    <3> QED BY <3>3, <3>4, <3>5
  <2>11. SubscribersMissNothing'
    <3> SUFFICES ASSUME disruptions = 0, NEW s \in Subscribers, subscribed[s],
                        NEW i \in since[s] + 1 .. n + 1
                 PROVE  i \in Members(received[s]) \cup Members(inbox[s]) \cup Members(outbox')
      BY <1>b, <2>1 DEF SubscribersMissNothing, subscriberVars
    <3>1. since[s] \in 0 .. n
      BY DEF PubSubInv, PubSubTypeOK
    <3>2. i = n + 1 \/ i \in since[s] + 1 .. n
      BY <1>a, <3>1
    <3> QED BY <2>8, <3>2 DEF PubSubInv, SubscribersMissNothing
  <2> QED BY <2>6, <2>9, <2>10, <2>11 DEF PubSubInv
<1> QED BY <1>1, <1>2 DEF Publish

\* The server takes the oldest message and gives it to every subscriber.
LEMMA DeliverStep ==
  ASSUME PubSubInv, Deliver
  PROVE  PubSubInv'
<1> DEFINE n == Len(published)
           m == Head(outbox)
<1>a. /\ n \in Nat /\ outbox \in Seq(1 .. n) /\ outbox \in Seq(Nat) /\ outbox # <<>>
      /\ inbox \in [Subscribers -> Seq(1 .. n)] /\ received \in [Subscribers -> Seq(1 .. n)]
      /\ outbox' = Tail(outbox) /\ Rising(outbox)
      /\ inbox' = [s \in Subscribers |->
                     IF subscribed[s] THEN Append(inbox[s], m) ELSE inbox[s]]
      /\ UNCHANGED <<published, response, publishing, natsUp, subscribed, since, received,
                     disruptions, leaves>>
  <2>1. 1 .. Len(published) \subseteq Nat
    BY DEF PubSubInv, PubSubTypeOK
  <2>2. outbox \in Seq(Nat)
    BY <2>1, WiderSeq DEF PubSubInv, PubSubTypeOK
  <2> QED BY <2>2 DEF Deliver, Sent, PubSubInv, PubSubTypeOK, OrderInv
<1>b. /\ m \in 1 .. n /\ Tail(outbox) \in Seq(1 .. n)
      /\ Members(outbox) = {m} \cup Members(outbox')
      /\ Len(outbox') = Len(outbox) - 1 /\ Len(outbox) \in Nat \ {0}
  BY <1>a, MembersTail
<1>c. Rising(outbox') /\ \A y \in Members(outbox') : m < y
  BY <1>a, RisingTail
<1>d. \A s \in Subscribers :
        /\ inbox'[s] \in Seq(1 .. n)
        /\ inbox'[s] = inbox[s] \/ inbox'[s] = Append(inbox[s], m)
        /\ subscribed[s] => inbox'[s] = Append(inbox[s], m)
        /\ Members(Append(inbox[s], m)) = Members(inbox[s]) \cup {m}
  <2> SUFFICES ASSUME NEW s \in Subscribers
               PROVE  /\ inbox'[s] \in Seq(1 .. n)
                      /\ inbox'[s] = inbox[s] \/ inbox'[s] = Append(inbox[s], m)
                      /\ subscribed[s] => inbox'[s] = Append(inbox[s], m)
                      /\ Members(Append(inbox[s], m)) = Members(inbox[s]) \cup {m}
    OBVIOUS
  <2>1. inbox[s] \in Seq(1 .. n)
    BY <1>a
  <2>2. inbox'[s] = IF subscribed[s] THEN Append(inbox[s], m) ELSE inbox[s]
    BY <1>a
  <2>3. m \in 1 .. n
    BY <1>b
  <2> HIDE DEF m, n
  <2>4. Members(Append(inbox[s], m)) = Members(inbox[s]) \cup {m}
    BY <2>1, MembersAppend
  <2>5. Append(inbox[s], m) \in Seq(1 .. n)
    BY <2>1, <2>3, AppendFacts
  <2> QED BY <2>1, <2>2, <2>4, <2>5
<1>1. PubSubTypeOK'
  <2>1. inbox' \in [Subscribers -> Seq(1 .. n)]
    BY <1>a, <1>d
  <2> QED BY <1>a, <1>b, <2>1 DEF PubSubInv, PubSubTypeOK
<1>2. OrderInv'
  <2>1. ASSUME NEW s \in Subscribers
        PROVE  /\ Rising(inbox'[s]) /\ InOrder(received[s], inbox'[s])
               /\ InOrder(received[s], outbox') /\ InOrder(inbox'[s], outbox')
    <3>1. /\ Rising(inbox[s]) /\ InOrder(received[s], inbox[s])
          /\ InOrder(received[s], outbox) /\ InOrder(inbox[s], outbox)
      BY DEF PubSubInv, OrderInv
    <3>2. Members(inbox'[s]) = Members(inbox[s]) \/ Members(inbox'[s]) = Members(inbox[s]) \cup {m}
      BY <1>d
    <3>3. Rising(Append(inbox[s], m))
      <4>1. inbox[s] \in Seq(Nat) /\ m \in Nat
        BY <1>a, <1>b, WiderSeq
      <4>2. \A y \in Members(inbox[s]) : y < m
        BY <1>b, <3>1 DEF InOrder
      <4> QED BY <3>1, <4>1, <4>2, RisingAppend
    <3>4. Rising(inbox'[s])
      BY <1>d, <3>1, <3>3
    <3> HIDE DEF m
    <3> QED BY <1>b, <1>c, <3>1, <3>2, <3>4 DEF InOrder
  <2>2. Len(outbox') <= Len(published')
    BY <1>a, <1>b DEF PubSubInv, OrderInv
  <2> QED BY <1>a, <1>c, <2>1, <2>2 DEF OrderInv
<1>3. OutboxInv'
  <2> SUFFICES ASSUME disruptions = 0, NEW i \in DOMAIN outbox'
               PROVE  outbox'[i] = n - Len(outbox') + i
    BY <1>a DEF OutboxInv
  <2>1. /\ DOMAIN outbox = 1 .. Len(outbox) /\ DOMAIN outbox' = 1 .. Len(outbox) - 1
        /\ outbox'[i] = outbox[i + 1] /\ i \in Nat /\ i + 1 \in DOMAIN outbox
    BY <1>a, <1>b
  <2>2. outbox[i + 1] = n - Len(outbox) + (i + 1)
    BY <2>1 DEF PubSubInv, OutboxInv
  <2> QED BY <1>a, <1>b, <2>1, <2>2
<1>4. SubscribersMissNothing'
  <2> SUFFICES ASSUME disruptions = 0, NEW s \in Subscribers, subscribed[s],
                      NEW i \in since[s] + 1 .. n
               PROVE  i \in Members(received[s]) \cup Members(inbox'[s]) \cup Members(outbox')
    BY <1>a DEF SubscribersMissNothing
  <2>1. i \in Members(received[s]) \cup Members(inbox[s]) \cup Members(outbox)
    BY DEF PubSubInv, SubscribersMissNothing
  <2>2. Members(inbox'[s]) = Members(inbox[s]) \cup {m}
    BY <1>d
  <2> HIDE DEF m
  <2> QED BY <1>b, <2>1, <2>2
<1> QED BY <1>1, <1>2, <1>3, <1>4 DEF PubSubInv

LEMMA NothingRises == Rising(<<>>) /\ Members(<<>>) = {}
BY MembersEmpty DEF Rising

\* The server stops: what it had and what the publisher's client had may be gone.
LEMMA NatsStopsStep ==
  ASSUME PubSubInv, NatsStops
  PROVE  PubSubInv'
<1> DEFINE n == Len(published)
<1>1. /\ disruptions' = disruptions + 1 /\ disruptions \in 0 .. MaxDisruptions
      /\ disruptions' \in 0 .. MaxDisruptions /\ disruptions' # 0
  BY PubSubAssumption DEF NatsStops, Disrupted, PubSubInv, PubSubTypeOK
<1>2. /\ inbox' = [s \in Subscribers |-> <<>>]
      /\ subscribed' = [s \in Subscribers |-> FALSE]
      /\ outbox' = outbox \/ outbox' = <<>>
      /\ UNCHANGED <<published, response, publishing, since, received, leaves>>
      /\ natsUp' = FALSE
  BY DEF NatsStops
<1>3. PubSubTypeOK'
  <2>1. \A S : <<>> \in Seq(S)
    OBVIOUS
  <2>2. outbox' \in Seq(1 .. n)
    BY <1>2, <2>1 DEF PubSubInv, PubSubTypeOK
  <2>3. inbox' \in [Subscribers -> Seq(1 .. n)]
    BY <1>2, <2>1
  <2> QED BY <1>1, <1>2, <2>2, <2>3 DEF PubSubInv, PubSubTypeOK
<1>4. OrderInv'
  <2>1. Len(<<>>) = 0 /\ n \in Nat
    BY DEF PubSubInv, PubSubTypeOK
  <2>2. Rising(outbox') /\ Len(outbox') <= Len(published')
    BY <1>2, <2>1, NothingRises DEF PubSubInv, OrderInv
  <2>3. ASSUME NEW s \in Subscribers
        PROVE  /\ Rising(inbox'[s]) /\ InOrder(received'[s], inbox'[s])
               /\ InOrder(received'[s], outbox') /\ InOrder(inbox'[s], outbox')
    <3>1. inbox'[s] = <<>> /\ InOrder(received[s], outbox)
      BY <1>2 DEF PubSubInv, OrderInv
    <3> QED BY <1>2, <3>1, NothingRises DEF InOrder
  <2> QED BY <2>2, <2>3 DEF OrderInv
<1> QED BY <1>1, <1>3, <1>4 DEF PubSubInv, OutboxInv, SubscribersMissNothing

LEMMA PublisherStopsStep ==
  ASSUME PubSubInv, PublisherStops
  PROVE  PubSubInv'
<1>1. /\ disruptions' = disruptions + 1 /\ disruptions \in 0 .. MaxDisruptions
      /\ disruptions' \in 0 .. MaxDisruptions /\ disruptions' # 0
  BY PubSubAssumption DEF PublisherStops, Disrupted, PubSubInv, PubSubTypeOK
<1>2. /\ outbox' = <<>> /\ publishing' = FALSE
      /\ UNCHANGED <<published, response, natsUp, inbox, subscribed, since, received, leaves>>
  BY DEF PublisherStops, subscriberVars
<1>3. PubSubTypeOK'
  <2>1. \A S : <<>> \in Seq(S)
    OBVIOUS
  <2> QED BY <1>1, <1>2, <2>1 DEF PubSubInv, PubSubTypeOK
<1>4. OrderInv'
  <2>1. Len(<<>>) = 0 /\ Len(published) \in Nat
    BY DEF PubSubInv, PubSubTypeOK
  <2> QED BY <1>2, <2>1, NothingRises DEF PubSubInv, OrderInv, InOrder
<1> QED BY <1>1, <1>3, <1>4 DEF PubSubInv, OutboxInv, SubscribersMissNothing

\* A subscriber joins: all that is published and not in the outbox is behind it.
LEMMA SubscribeStep ==
  ASSUME PubSubInv, NEW s \in Subscribers, Subscribe(s)
  PROVE  PubSubInv'
<1> DEFINE n == Len(published)
<1>1. /\ subscribed' = [subscribed EXCEPT ![s] = TRUE]
      /\ since' = [since EXCEPT ![s] = n - Len(outbox)]
      /\ UNCHANGED <<published, outbox, response, publishing, natsUp, inbox, received,
                     disruptions, leaves>>
  BY DEF Subscribe, publisherVars
<1>2. /\ n \in Nat /\ Len(outbox) \in Nat /\ Len(outbox) <= n
      /\ DOMAIN outbox = 1 .. Len(outbox)
  BY DEF PubSubInv, PubSubTypeOK, OrderInv
<1>3. n - Len(outbox) \in 0 .. n
  BY <1>2
<1>4. PubSubTypeOK'
  <2>1. since' \in [Subscribers -> 0 .. n]
    BY <1>1, <1>3 DEF PubSubInv, PubSubTypeOK
  <2>2. subscribed' \in [Subscribers -> BOOLEAN]
    BY <1>1 DEF PubSubInv, PubSubTypeOK
  <2> QED BY <1>1, <2>1, <2>2 DEF PubSubInv, PubSubTypeOK
<1>5. OrderInv' /\ OutboxInv'
  BY <1>1 DEF PubSubInv, OrderInv, OutboxInv
<1>6. SubscribersMissNothing'
  <2> SUFFICES ASSUME disruptions = 0, NEW q \in Subscribers, subscribed'[q],
                      NEW i \in since'[q] + 1 .. n
               PROVE  i \in Members(received[q]) \cup Members(inbox[q]) \cup Members(outbox)
    BY <1>1 DEF SubscribersMissNothing
  <2>1. CASE q = s
    <3>1. since'[q] = n - Len(outbox)
      BY <1>1, <2>1 DEF PubSubInv, PubSubTypeOK
    <3>2. i \in Nat /\ n - Len(outbox) + 1 <= i /\ i <= n
      BY <1>2, <3>1
    <3>3. i - (n - Len(outbox)) \in 1 .. Len(outbox)
      BY <1>2, <3>2
    <3>4. outbox[i - (n - Len(outbox))] = i
      BY <1>2, <3>2, <3>3 DEF PubSubInv, OutboxInv
    <3> QED BY <1>2, <3>3, <3>4 DEF Members
  <2>2. CASE q # s
    BY <1>1, <2>2 DEF PubSubInv, PubSubTypeOK, SubscribersMissNothing
  <2> QED BY <2>1, <2>2
<1> QED BY <1>4, <1>5, <1>6 DEF PubSubInv

\* A subscriber passes its oldest message on.
LEMMA HandleStep ==
  ASSUME PubSubInv, NEW s \in Subscribers, Handle(s, Append(received[s], NextMessage(s)))
  PROVE  PubSubInv'
<1> DEFINE n == Len(published)
           m == Head(inbox[s])
<1>1. /\ inbox[s] # <<>>
      /\ received' = [received EXCEPT ![s] = Append(received[s], m)]
      /\ inbox' = [inbox EXCEPT ![s] = Tail(inbox[s])]
      /\ UNCHANGED <<published, outbox, response, publishing, natsUp, subscribed, since,
                     disruptions, leaves>>
  BY DEF Handle, NextMessage, publisherVars
<1>2. /\ n \in Nat /\ inbox \in [Subscribers -> Seq(1 .. n)]
      /\ received \in [Subscribers -> Seq(1 .. n)]
      /\ inbox[s] \in Seq(1 .. n) /\ received[s] \in Seq(1 .. n)
  BY DEF PubSubInv, PubSubTypeOK
<1>3. /\ m \in 1 .. n /\ Tail(inbox[s]) \in Seq(1 .. n)
      /\ Members(inbox[s]) = {m} \cup Members(Tail(inbox[s]))
  BY <1>1, <1>2, MembersTail
<1>4. /\ Rising(Tail(inbox[s]))
      /\ \A y \in Members(Tail(inbox[s])) : m < y
  <2>1. inbox[s] \in Seq(Nat)
    BY <1>2, WiderSeq
  <2> QED BY <1>1, <2>1, RisingTail DEF PubSubInv, OrderInv
<1>5. /\ received'[s] = Append(received[s], m) /\ inbox'[s] = Tail(inbox[s])
      /\ \A q \in Subscribers \ {s} : received'[q] = received[q] /\ inbox'[q] = inbox[q]
  BY <1>1, <1>2
<1>6. /\ Append(received[s], m) \in Seq(1 .. n)
      /\ Members(Append(received[s], m)) = Members(received[s]) \cup {m}
  <2> HIDE DEF m, n
  <2> QED BY <1>2, <1>3, MembersAppend, AppendFacts
<1>7. PubSubTypeOK'
  <2>1. /\ inbox' \in [Subscribers -> Seq(1 .. n)]
        /\ received' \in [Subscribers -> Seq(1 .. n)]
    BY <1>1, <1>2, <1>3, <1>6
  <2> QED BY <1>1, <2>1 DEF PubSubInv, PubSubTypeOK
<1>8. OrderInv'
  <2>1. ASSUME NEW q \in Subscribers
        PROVE  /\ Rising(inbox'[q]) /\ InOrder(received'[q], inbox'[q])
               /\ InOrder(received'[q], outbox) /\ InOrder(inbox'[q], outbox)
    <3>1. /\ Rising(inbox[q]) /\ InOrder(received[q], inbox[q])
          /\ InOrder(received[q], outbox) /\ InOrder(inbox[q], outbox)
      BY DEF PubSubInv, OrderInv
    <3>2. CASE q = s
      <4> HIDE DEF m
      <4> QED BY <1>3, <1>4, <1>5, <1>6, <3>1, <3>2 DEF InOrder
    <3>3. CASE q # s
      BY <1>5, <3>1, <3>3
    <3> QED BY <3>2, <3>3
  <2> QED BY <1>1, <2>1 DEF PubSubInv, OrderInv
<1>9. SubscribersMissNothing'
  <2> SUFFICES ASSUME disruptions = 0, NEW q \in Subscribers, subscribed[q],
                      NEW i \in since[q] + 1 .. n
               PROVE  i \in Members(received'[q]) \cup Members(inbox'[q]) \cup Members(outbox)
    BY <1>1 DEF SubscribersMissNothing
  <2>1. i \in Members(received[q]) \cup Members(inbox[q]) \cup Members(outbox)
    BY DEF PubSubInv, SubscribersMissNothing
  <2>2. CASE q = s
    <3> HIDE DEF m
    <3> QED BY <1>3, <1>5, <1>6, <2>1, <2>2
  <2>3. CASE q # s
    BY <1>5, <2>1, <2>3
  <2> QED BY <2>2, <2>3
<1>10. OutboxInv'
  BY <1>1 DEF PubSubInv, OutboxInv
<1> QED BY <1>7, <1>8, <1>9, <1>10 DEF PubSubInv

LEMMA SubscriberStopsStep ==
  ASSUME PubSubInv, NEW s \in Subscribers, SubscriberStops(s)
  PROVE  PubSubInv'
<1>1. /\ subscribed' = [subscribed EXCEPT ![s] = FALSE]
      /\ inbox' = [inbox EXCEPT ![s] = <<>>]
      /\ leaves' = leaves + 1 /\ leaves < MaxLeaves
      /\ UNCHANGED <<published, outbox, response, publishing, natsUp, since, received,
                     disruptions>>
  BY DEF SubscriberStops, publisherVars
<1>2. /\ inbox'[s] = <<>> /\ ~ subscribed'[s]
      /\ \A q \in Subscribers \ {s} :
           inbox'[q] = inbox[q] /\ subscribed'[q] = subscribed[q]
  BY <1>1 DEF PubSubInv, PubSubTypeOK
<1>3. PubSubTypeOK'
  <2>1. \A S : <<>> \in Seq(S)
    OBVIOUS
  <2>2. inbox' \in [Subscribers -> Seq(1 .. Len(published))]
    BY <1>1, <2>1 DEF PubSubInv, PubSubTypeOK
  <2>3. subscribed' \in [Subscribers -> BOOLEAN]
    BY <1>1 DEF PubSubInv, PubSubTypeOK
  <2>4. leaves' \in 0 .. MaxLeaves
    BY <1>1, PubSubAssumption DEF PubSubInv, PubSubTypeOK
  <2> QED BY <1>1, <2>2, <2>3, <2>4 DEF PubSubInv, PubSubTypeOK
<1>4. OrderInv'
  <2>1. ASSUME NEW q \in Subscribers
        PROVE  /\ Rising(inbox'[q]) /\ InOrder(received[q], inbox'[q])
               /\ InOrder(received[q], outbox) /\ InOrder(inbox'[q], outbox)
    BY <1>2, NothingRises DEF PubSubInv, OrderInv, InOrder
  <2> QED BY <1>1, <2>1 DEF PubSubInv, OrderInv
<1>5. OutboxInv' /\ SubscribersMissNothing'
  BY <1>1, <1>2 DEF PubSubInv, OutboxInv, SubscribersMissNothing
<1> QED BY <1>3, <1>4, <1>5 DEF PubSubInv

\* The steps that touch neither messages nor subscriptions.
LEMMA QuietStep ==
  ASSUME PubSubInv, PublisherBootstrap \/ NatsStarts \/ UNCHANGED pubSubVars
  PROVE  PubSubInv'
<1>1. /\ UNCHANGED <<published, outbox, response, inbox, subscribed, since, received,
                     disruptions, leaves>>
      /\ publishing' \in BOOLEAN /\ natsUp' \in BOOLEAN
  BY DEF PubSubInv, PubSubTypeOK, PublisherBootstrap, NatsStarts, pubSubVars,
         publisherVars, subscriberVars
<1>2. PubSubTypeOK'
  BY <1>1 DEF PubSubInv, PubSubTypeOK
<1>3. OrderInv' /\ OutboxInv' /\ SubscribersMissNothing'
  BY <1>1 DEF PubSubInv, OrderInv, OutboxInv, SubscribersMissNothing
<1> QED BY <1>2, <1>3 DEF PubSubInv

\* Which messages a subscriber's controller handles, and how it starts.
LEMMA SubscriberActions ==
  /\ AuditController \/ AnalyticsController \/ PushController =>
       \E s \in Subscribers : Handle(s, Append(received[s], NextMessage(s)))
  /\ AuditBootstrap \/ AnalyticsBootstrap \/ PushBootstrap =>
       \E s \in Subscribers : Subscribe(s)
BY DEF AuditController, AnalyticsController, PushController, SaveToAuditLog, UpdateMetrics,
       SendPush, AuditBootstrap, AnalyticsBootstrap, PushBootstrap, Subscribers

LEMMA PubSubStep ==
  ASSUME PubSubInv, [PubSubNext]_pubSubVars
  PROVE  PubSubInv'
<1>1. CASE \E r \in Posts : PublisherController(r)
  BY <1>1, PublishStep DEF PublisherController
<1>2. CASE Deliver
  BY <1>2, DeliverStep
<1>3. CASE PublisherStops
  BY <1>3, PublisherStopsStep
<1>4. CASE NatsStops
  BY <1>4, NatsStopsStep
<1>5. CASE \E s \in Subscribers : Subscribe(s)
  BY <1>5, SubscribeStep
<1>6. CASE \E s \in Subscribers : Handle(s, Append(received[s], NextMessage(s)))
  BY <1>6, HandleStep
<1>7. CASE \E s \in Subscribers : SubscriberStops(s)
  BY <1>7, SubscriberStopsStep
<1>8. CASE PublisherBootstrap \/ NatsStarts \/ UNCHANGED pubSubVars
  BY <1>8, QuietStep
<1> QED BY <1>1, <1>2, <1>3, <1>4, <1>5, <1>6, <1>7, <1>8, SubscriberActions
       DEF PubSubNext, AllPublished

LEMMA PubSubInvariant == PubSubSpec => []PubSubInv
BY PubSubInitial, PubSubStep, PTL DEF PubSubSpec

\* Every variable of lesson 3 keeps its type: what is on its way to a subscriber,
\* and what it has handled, are messages that were published.
THEOREM PubSubTypes == PubSubSpec => []PubSubTypeOK
BY PubSubInvariant, PTL DEF PubSubInv

\* While neither the server nor the publisher stops, a subscriber misses nothing
\* that was published since it subscribed, whatever the other subscribers do.
THEOREM NothingMissed == PubSubSpec => []SubscribersMissNothing
BY PubSubInvariant, PTL DEF PubSubInv

\* Publishing emits one envelope, or answers an error.
LEMMA PublishEmits ==
  ASSUME PubSubInv, NEW r \in Posts, Publish(r)
  PROVE  Subject!Emit \/ UNCHANGED <<published, received>>
<1>1. received' = received
  BY DEF Publish, subscriberVars
<1>2. CASE published' = Append(published, EnvelopeOf(r))
  BY <1>1, <1>2, EnvelopeType DEF Subject!Emit
<1>3. CASE published' = published
  BY <1>1, <1>3
<1> QED BY <1>2, <1>3 DEF Publish

\* What a subscriber handles is published, and newer than all it has handled.
LEMMA HandleReceives ==
  ASSUME PubSubInv, NEW s \in Subscribers, Handle(s, Append(received[s], NextMessage(s)))
  PROVE  Subject!Receive(s)
<1> DEFINE n == Len(published)
           m == Head(inbox[s])
<1>1. /\ inbox[s] # <<>>
      /\ received' = [received EXCEPT ![s] = Append(received[s], m)]
      /\ UNCHANGED published
  BY DEF Handle, NextMessage, publisherVars
<1>2. /\ n \in Nat /\ inbox[s] \in Seq(1 .. n) /\ received[s] \in Seq(1 .. n)
  BY DEF PubSubInv, PubSubTypeOK
<1>3. m \in 1 .. n /\ m \in Members(inbox[s])
  BY <1>1, <1>2, MembersTail
<1>4. Subject!LastOf(received[s]) \in 0 .. n /\ Subject!LastOf(received[s]) < m
  <2>1. CASE received[s] = <<>>
    BY <1>2, <1>3, <2>1 DEF Subject!LastOf
  <2>2. CASE received[s] # <<>>
    <3>1. /\ Len(received[s]) \in DOMAIN received[s]
          /\ received[s][Len(received[s])] \in 1 .. n
      BY <1>2, <2>2
    <3>2. Subject!LastOf(received[s]) = received[s][Len(received[s])]
      BY <2>2 DEF Subject!LastOf
    <3>3. Subject!LastOf(received[s]) \in Members(received[s])
      BY <3>1, <3>2 DEF Members
    <3>4. InOrder(received[s], inbox[s])
      BY DEF PubSubInv, OrderInv
    <3> QED BY <1>2, <1>3, <3>1, <3>2, <3>3, <3>4 DEF InOrder
  <2> QED BY <2>1, <2>2
<1>5. m \in Subject!LastOf(received[s]) + 1 .. n
  BY <1>2, <1>3, <1>4
<1> QED BY <1>1, <1>5 DEF Subject!Receive

LEMMA PubSubStepEmits ==
  ASSUME PubSubInv, [PubSubNext]_pubSubVars
  PROVE  \/ Subject!Emit \/ \E s \in Subscribers : Subject!Receive(s)
         \/ UNCHANGED <<published, received>>
<1>1. CASE \E r \in Posts : PublisherController(r)
  BY <1>1, PublishEmits DEF PublisherController
<1>2. CASE \E s \in Subscribers : Handle(s, Append(received[s], NextMessage(s)))
  BY <1>2, HandleReceives
<1>3. CASE \/ Deliver \/ PublisherStops \/ NatsStops \/ NatsStarts \/ PublisherBootstrap
           \/ UNCHANGED pubSubVars
  BY <1>3 DEF Deliver, PublisherStops, NatsStops, NatsStarts, PublisherBootstrap,
              pubSubVars, publisherVars, subscriberVars
<1>4. CASE \E s \in Subscribers : Subscribe(s) \/ SubscriberStops(s)
  BY <1>4 DEF Subscribe, SubscriberStops, publisherVars
<1> QED BY <1>1, <1>2, <1>3, <1>4, SubscriberActions DEF PubSubNext, AllPublished

\* Lesson 3 is a subject without storage: every step of the publisher, the server
\* and the subscribers emits one envelope, delivers one that is newer than all its
\* subscriber has handled, or does neither.
THEOREM FansOut == PubSubSpec => ImplementsFanOut
<1>1. PubSubInit => Subject!Init
  BY DEF PubSubInit, Subject!Init
<1>2. PubSubInv /\ [PubSubNext]_pubSubVars
        => [Subject!Emit \/ \E s \in Subscribers : Subject!Receive(s)]_<<published, received>>
  BY PubSubStepEmits
<1> QED BY <1>1, <1>2, PubSubInvariant, PTL DEF PubSubSpec, ImplementsFanOut, Subject!Spec

-----------------------------------------------------------------------------
(* Lesson 2.                                                               *)

\* Where a group is on the topic, and what it has handled of it.
GroupInv(self, topic, lost) ==
  /\ self.since <= self.position /\ self.position <= Len(topic)
  /\ self.first <= self.since /\ (self.first = self.since \/ self.forgot)
  /\ self.committed # Never =>
       self.since <= self.committed /\ self.committed <= self.position
  /\ \A i \in self.since + 1 .. self.position :
       \E j \in DOMAIN self.handled : self.handled[j] = topic[i]
  /\ lost = 0 =>
       /\ Len(self.handled) = self.position - self.since
       /\ \A j \in DOMAIN self.handled : self.handled[j] = topic[self.since + j]
       /\ ~ self.forgot /\ (self.joined \/ self = NewGroup)

EventsInv == EventsTypeOK /\ \A g \in Groups : GroupInv(groups[g], orderEvents, losses)

LEMMA GroupFields ==
  ASSUME NEW self \in Group
  PROVE  /\ self.joined \in BOOLEAN /\ self.position \in Nat /\ self.since \in Nat
         /\ self.first \in Nat /\ self.forgot \in BOOLEAN
         /\ self.committed \in Nat \cup {Never} /\ self.handled \in Seq(PlacedOrder)
BY DEF Group

LEMMA NewGroupType == NewGroup \in Group
<1>1. <<>> \in Seq(PlacedOrder)
  OBVIOUS
<1> QED BY <1>1 DEF NewGroup, Group, Never

LEMMA TopicGrows ==
  ASSUME NEW self \in Group, NEW topic \in Seq(PlacedOrder), NEW e \in PlacedOrder,
         NEW lost, GroupInv(self, topic, lost)
  PROVE  GroupInv(self, Append(topic, e), lost)
<1>1. /\ self.since \in Nat /\ self.position \in Nat
      /\ DOMAIN self.handled = 1 .. Len(self.handled) /\ Len(self.handled) \in Nat
  <2>1. self.handled \in Seq(PlacedOrder)
    BY GroupFields
  <2> QED BY <2>1, GroupFields
<1>2. /\ Len(topic) \in Nat /\ Len(Append(topic, e)) = Len(topic) + 1
      /\ \A i \in 1 .. Len(topic) : Append(topic, e)[i] = topic[i]
  BY AppendFacts
<1>3. self.since <= self.position /\ self.position <= Len(topic)
  BY DEF GroupInv
<1>4. \A i \in self.since + 1 .. self.position : i \in 1 .. Len(topic)
  BY <1>1, <1>2, <1>3
<1>5. ASSUME lost = 0
      PROVE  \A j \in DOMAIN self.handled : self.since + j \in 1 .. Len(topic)
  <2>1. Len(self.handled) = self.position - self.since
    BY <1>5 DEF GroupInv
  <2> QED BY <1>1, <1>2, <1>3, <2>1
<1>6. self.position <= Len(Append(topic, e))
  BY <1>1, <1>2, <1>3
<1> QED BY <1>2, <1>3, <1>4, <1>5, <1>6 DEF GroupInv

\* After a loss only what the group has not skipped counts.
LEMMA AfterLoss ==
  ASSUME NEW self, NEW topic, NEW lost, NEW more, GroupInv(self, topic, lost), more # 0
  PROVE  GroupInv(self, topic, more)
BY DEF GroupInv

LEMMA GroupLeaves ==
  ASSUME NEW self \in Group, NEW topic, NEW lost, NEW more,
         GroupInv(self, topic, lost), more # 0
  PROVE  LET left == [self EXCEPT !.joined = FALSE,
                                  !.forgot = self.forgot \/ self.committed = Never]
         IN  left \in Group /\ GroupInv(left, topic, more)
<1> DEFINE left == [self EXCEPT !.joined = FALSE,
                                !.forgot = self.forgot \/ self.committed = Never]
<1>1. left \in Group
  BY DEF Group
<1>2. /\ left.position = self.position /\ left.since = self.since /\ left.first = self.first
      /\ left.committed = self.committed /\ left.handled = self.handled
      /\ self.forgot => left.forgot
  BY DEF Group
<1>3. GroupInv(left, topic, more)
  <2> HIDE DEF left
  <2> QED BY <1>2 DEF GroupInv
<1> QED BY <1>1, <1>3

\* A group comes back to its offset, or starts at the end.
LEMMA GroupComesBack ==
  ASSUME NEW self \in Group, NEW topic, NEW lost,
         GroupInv(self, topic, lost), self.committed # Never, ~ self.joined
  PROVE  LET back == [self EXCEPT !.joined = TRUE, !.position = self.committed]
         IN  back \in Group /\ GroupInv(back, topic, lost)
<1> DEFINE back == [self EXCEPT !.joined = TRUE, !.position = self.committed]
<1>1. self.committed \in Nat
  BY GroupFields
<1>2. back \in Group
  BY <1>1 DEF Group
<1>3. /\ back.position = self.committed /\ back.since = self.since
      /\ back.first = self.first /\ back.forgot = self.forgot
      /\ back.committed = self.committed /\ back.handled = self.handled /\ back.joined
  BY DEF Group
<1>4. self # NewGroup
  BY DEF NewGroup
<1>5. /\ self.since <= self.committed /\ self.committed <= self.position
      /\ self.position <= Len(topic) /\ lost # 0
  BY <1>4 DEF GroupInv
<1>6. self.since \in Nat /\ self.position \in Nat
  BY GroupFields
<1>7. \A i \in self.since + 1 .. self.committed : i \in self.since + 1 .. self.position
  BY <1>1, <1>5, <1>6
<1>8. GroupInv(back, topic, lost)
  <2>1. Len(topic) \in Int => self.committed <= Len(topic)
    BY <1>1, <1>5, <1>6
  <2> HIDE DEF back
  <2> QED BY <1>1, <1>3, <1>5, <1>6, <1>7, <2>1 DEF GroupInv
<1> QED BY <1>2, <1>8

LEMMA GroupStarts ==
  ASSUME NEW self \in Group, NEW topic \in Seq(PlacedOrder), NEW lost,
         GroupInv(self, topic, lost), self.committed = Never, ~ self.joined
  PROVE  LET end == Len(topic)
             new == [self EXCEPT !.joined = TRUE, !.position = end, !.since = end,
                                 !.first = IF self.forgot THEN self.first ELSE end]
         IN  new \in Group /\ GroupInv(new, topic, lost)
<1> DEFINE end == Len(topic)
           first == IF self.forgot THEN self.first ELSE end
           new == [self EXCEPT !.joined = TRUE, !.position = end, !.since = end, !.first = first]
<1>1. end \in Nat /\ first \in Nat /\ first <= end /\ (first = end \/ self.forgot)
  <2>1. /\ self.first \in Nat /\ self.since \in Nat /\ self.position \in Nat
        /\ self.first <= self.since /\ self.since <= self.position /\ self.position <= end
    BY GroupFields DEF GroupInv
  <2>2. self.first <= end
    BY <2>1
  <2> QED BY <2>1, <2>2
<1> HIDE DEF first
<1>2. new \in Group
  BY <1>1 DEF Group
<1>3. /\ new.position = end /\ new.since = end /\ new.first = first
      /\ new.forgot = self.forgot
      /\ new.committed = Never /\ new.handled = self.handled /\ new.joined
  BY DEF Group
<1>4. lost = 0 => self.handled = <<>> /\ ~ self.forgot
  BY DEF GroupInv, NewGroup
<1>5. GroupInv(new, topic, lost)
  <2>1. end <= end /\ end + 1 .. end = {} /\ end - end = 0
    BY <1>1
  <2>2. lost = 0 => Len(self.handled) = 0 /\ DOMAIN self.handled = {}
    BY <1>4
  <2> HIDE DEF new, end
  <2> QED BY <1>1, <1>3, <1>4, <2>1, <2>2 DEF GroupInv, end
<1> QED BY <1>2, <1>5 DEF first

\* The group handles the message at its position.
LEMMA GroupHandles ==
  ASSUME NEW self \in Group, NEW topic \in Seq(PlacedOrder), NEW lost,
         GroupInv(self, topic, lost), self.joined, self.position < Len(topic),
         NEW committed \in {self.committed, self.position + 1},
         NEW new, new = [self EXCEPT !.position = self.position + 1, !.committed = committed,
                                     !.handled = Append(self.handled, topic[self.position + 1])]
  PROVE  new \in Group /\ GroupInv(new, topic, lost)
<1> DEFINE p == self.position
           e == topic[p + 1]
<1>1. /\ p \in Nat /\ self.since \in Nat /\ self.committed \in Nat \cup {Never}
      /\ self.handled \in Seq(PlacedOrder)
  BY GroupFields
<1>2. p + 1 \in 1 .. Len(topic) /\ e \in PlacedOrder
  BY <1>1
<1>3. /\ Append(self.handled, e) \in Seq(PlacedOrder)
      /\ DOMAIN self.handled = 1 .. Len(self.handled) /\ Len(self.handled) \in Nat
      /\ DOMAIN Append(self.handled, e) = 1 .. Len(self.handled) + 1
      /\ Len(Append(self.handled, e)) = Len(self.handled) + 1
      /\ \A j \in 1 .. Len(self.handled) : Append(self.handled, e)[j] = self.handled[j]
      /\ Append(self.handled, e)[Len(self.handled) + 1] = e
  <2> HIDE DEF e
  <2> QED BY <1>1, <1>2, AppendFacts
<1>4. committed \in Nat \cup {Never}
  BY <1>1
<1>5. new \in Group
  <2>1. p + 1 \in Nat
    BY <1>1
  <2> QED BY <1>3, <1>4, <2>1 DEF Group
<1>6. /\ new.position = p + 1 /\ new.since = self.since /\ new.committed = committed
      /\ new.first = self.first /\ new.forgot = self.forgot
      /\ new.handled = Append(self.handled, e) /\ new.joined
  BY DEF Group
<1>7. /\ self.since <= p /\ self.since <= p + 1 /\ p + 1 <= Len(topic)
      /\ committed # Never => self.since <= committed /\ committed <= p + 1
  BY <1>1 DEF GroupInv, Never
<1>8. \A i \in self.since + 1 .. p + 1 :
        \E j \in DOMAIN Append(self.handled, e) : Append(self.handled, e)[j] = topic[i]
  <2> SUFFICES ASSUME NEW i \in self.since + 1 .. p + 1
               PROVE  \E j \in DOMAIN Append(self.handled, e) :
                        Append(self.handled, e)[j] = topic[i]
    OBVIOUS
  <2>1. CASE i = p + 1
    <3>1. Len(self.handled) + 1 \in DOMAIN Append(self.handled, e)
      BY <1>3
    <3> QED BY <1>3, <2>1, <3>1
  <2>2. CASE i \in self.since + 1 .. p
    <3>1. PICK j \in DOMAIN self.handled : self.handled[j] = topic[i]
      BY <2>2 DEF GroupInv
    <3>2. j \in DOMAIN Append(self.handled, e) /\ Append(self.handled, e)[j] = topic[i]
      BY <1>3, <3>1
    <3> QED BY <3>2
  <2> QED BY <1>1, <2>1, <2>2
<1>9. ASSUME lost = 0
      PROVE  /\ Len(self.handled) + 1 = (p + 1) - self.since
             /\ \A j \in 1 .. Len(self.handled) + 1 :
                  Append(self.handled, e)[j] = topic[self.since + j]
  <2>1. /\ Len(self.handled) = p - self.since
        /\ \A j \in 1 .. Len(self.handled) : self.handled[j] = topic[self.since + j]
    BY <1>3, <1>9 DEF GroupInv
  <2>2. self.since + (Len(self.handled) + 1) = p + 1 /\ Len(self.handled) + 1 = (p + 1) - self.since
    BY <1>1, <1>3, <2>1
  <2>3. \A j \in 1 .. Len(self.handled) + 1 :
          j \in 1 .. Len(self.handled) \/ j = Len(self.handled) + 1
    BY <1>3
  <2> QED BY <1>3, <2>1, <2>2, <2>3
<1>10. GroupInv(new, topic, lost)
  <2> HIDE DEF p, e
  <2> QED BY <1>3, <1>6, <1>7, <1>8, <1>9 DEF GroupInv
<1> QED BY <1>5, <1>10

\* One group changes, and nothing else but perhaps losses.
LEMMA OneGroup ==
  ASSUME EventsInv, NEW g \in Groups, NEW new \in Group,
         groups' = [groups EXCEPT ![g] = new],
         UNCHANGED <<ordered, placed, underWay, orderEvents>>,
         GroupInv(new, orderEvents, losses'),
         losses' = losses \/ (losses' # 0 /\ losses' \in 0 .. MaxLosses)
  PROVE  EventsInv'
<1>1. /\ groups' \in [Groups -> Group] /\ groups'[g] = new
      /\ \A q \in Groups \ {g} : groups'[q] = groups[q]
  BY DEF EventsInv, EventsTypeOK
<1>2. ASSUME NEW q \in Groups
      PROVE  GroupInv(groups'[q], orderEvents, losses')
  <2>1. GroupInv(groups[q], orderEvents, losses)
    BY DEF EventsInv
  <2>2. GroupInv(groups[q], orderEvents, losses')
    BY <2>1, AfterLoss
  <2> QED BY <1>1, <2>2
<1>3. EventsTypeOK'
  BY <1>1 DEF EventsInv, EventsTypeOK
<1> QED BY <1>2, <1>3 DEF EventsInv

LEMMA EventsInitial == EventsInit => EventsInv
<1> SUFFICES ASSUME EventsInit PROVE EventsInv
  OBVIOUS
<1>1. groups \in [Groups -> Group]
  BY NewGroupType DEF EventsInit
<1>2. /\ orderEvents = <<>> /\ losses = 0 /\ ordered = {} /\ placed = {} /\ underWay = {}
  BY DEF EventsInit
<1>3. EventsTypeOK
  <2>1. <<>> \in Seq({}) /\ 0 \in 0 .. MaxLosses
    BY EventDrivenAssumption
  <2> QED BY <1>1, <1>2, <2>1 DEF EventsTypeOK
<1>4. GroupInv(NewGroup, <<>>, 0)
  <2>1. /\ NewGroup.since = 0 /\ NewGroup.position = 0 /\ NewGroup.committed = Never
        /\ NewGroup.first = 0 /\ ~ NewGroup.forgot /\ NewGroup.handled = <<>>
    BY DEF NewGroup
  <2>2. Len(<<>>) = 0 /\ DOMAIN <<>> = {} /\ 0 + 1 .. 0 = {} /\ 0 - 0 = 0 /\ 0 <= 0
    OBVIOUS
  <2> QED BY <2>1, <2>2 DEF GroupInv
<1> QED BY <1>2, <1>3, <1>4 DEF EventsInit, EventsInv

LEMMA PlaceOrderStep ==
  ASSUME EventsInv, NEW p \in Purchases, PlaceOrder(p)
  PROVE  EventsInv'
<1>1. PICK id \in RandomIds :
        /\ ordered' = ordered \cup {[id |-> id, purchase |-> p]}
        /\ underWay' = underWay \cup {[id |-> id, purchase |-> p]}
        /\ placed' = placed \cup {[id |-> id, purchase |-> p]}
  BY DEF PlaceOrder
<1>2. [id |-> id, purchase |-> p] \in PlacedOrder
  BY DEF PlacedOrder
<1>3. UNCHANGED <<orderEvents, groups, losses>>
  BY DEF PlaceOrder
<1>4. orderEvents \in Seq(placed') /\ placed' \subseteq PlacedOrder
  <2>1. placed \subseteq placed'
    BY <1>1
  <2> QED BY <1>1, <1>2, <2>1, WiderSeq DEF EventsInv, EventsTypeOK
<1>5. EventsTypeOK'
  BY <1>1, <1>3, <1>4 DEF EventsInv, EventsTypeOK
<1> QED BY <1>3, <1>5 DEF EventsInv

LEMMA KafkaAppendStep ==
  ASSUME EventsInv, KafkaAppend
  PROVE  EventsInv'
<1>1. PICK e \in underWay :
        /\ orderEvents' = Append(orderEvents, e)
        /\ \/ underWay' = underWay \ {e} /\ UNCHANGED losses
           \/ losses < MaxLosses /\ losses' = losses + 1 /\ UNCHANGED underWay
  BY DEF KafkaAppend
<1>2. UNCHANGED <<ordered, placed, groups>>
  BY DEF KafkaAppend
<1>3. e \in placed /\ e \in PlacedOrder /\ orderEvents \in Seq(placed)
  BY DEF EventsInv, EventsTypeOK
<1>4. orderEvents \in Seq(PlacedOrder)
  BY <1>3, WiderSeq DEF EventsInv, EventsTypeOK
<1>5. losses' = losses \/ (losses' # 0 /\ losses' \in 0 .. MaxLosses)
  BY <1>1, EventDrivenAssumption DEF EventsInv, EventsTypeOK
<1>6. EventsTypeOK'
  <2>1. orderEvents' \in Seq(placed)
    BY <1>1, <1>3, AppendFacts
  <2>2. underWay' \subseteq placed
    BY <1>1 DEF EventsInv, EventsTypeOK
  <2>3. losses' \in 0 .. MaxLosses
    BY <1>5 DEF EventsInv, EventsTypeOK
  <2> QED BY <1>2, <2>1, <2>2, <2>3 DEF EventsInv, EventsTypeOK
<1>7. ASSUME NEW g \in Groups
      PROVE  GroupInv(groups[g], Append(orderEvents, e), losses')
  <2>1. groups[g] \in Group /\ GroupInv(groups[g], orderEvents, losses)
    BY DEF EventsInv, EventsTypeOK
  <2>2. GroupInv(groups[g], Append(orderEvents, e), losses)
    BY <1>3, <1>4, <2>1, TopicGrows
  <2> QED BY <1>5, <2>2, AfterLoss
<1> QED BY <1>1, <1>2, <1>6, <1>7 DEF EventsInv

\* An emit fails, or the order service stops.
LEMMA LossStep ==
  ASSUME EventsInv, GiveUp \/ OrderAppBootstrap
  PROVE  EventsInv'
<1>1. /\ losses' = losses + 1 /\ losses < MaxLosses
      /\ ordered' \subseteq ordered /\ underWay' \subseteq underWay
      /\ UNCHANGED <<placed, orderEvents, groups>>
  BY DEF GiveUp, OrderAppBootstrap
<1>2. losses' # 0 /\ losses' \in 0 .. MaxLosses
  BY <1>1, EventDrivenAssumption DEF EventsInv, EventsTypeOK
<1>3. EventsTypeOK'
  BY <1>1, <1>2 DEF EventsInv, EventsTypeOK
<1>4. \A g \in Groups : GroupInv(groups[g], orderEvents, losses')
  BY <1>2, AfterLoss DEF EventsInv
<1> QED BY <1>1, <1>3, <1>4 DEF EventsInv

LEMMA JoinStep ==
  ASSUME EventsInv, NEW g \in Groups, JoinGroup(g)
  PROVE  EventsInv'
<1> DEFINE self == groups[g]
           end == Len(orderEvents)
           back == [self EXCEPT !.joined = TRUE, !.position = self.committed]
           new == [self EXCEPT !.joined = TRUE, !.position = end, !.since = end,
                               !.first = IF self.forgot THEN self.first ELSE end]
<1>1. /\ self \in Group /\ GroupInv(self, orderEvents, losses) /\ ~ self.joined
      /\ orderEvents \in Seq(PlacedOrder)
  BY WiderSeq DEF EventsInv, EventsTypeOK, JoinGroup
<1>2. /\ groups' = [groups EXCEPT ![g] = IF self.committed # Never THEN back ELSE new]
      /\ UNCHANGED <<ordered, placed, underWay, orderEvents, losses>>
  BY DEF JoinGroup
<1>3. CASE self.committed # Never
  <2>1. back \in Group /\ GroupInv(back, orderEvents, losses)
    BY <1>1, <1>3, GroupComesBack
  <2>2. groups' = [groups EXCEPT ![g] = back]
    BY <1>2, <1>3
  <2> HIDE DEF back
  <2> QED BY <1>2, <2>1, <2>2, OneGroup
<1>4. CASE self.committed = Never
  <2>1. new \in Group /\ GroupInv(new, orderEvents, losses)
    BY <1>1, <1>4, GroupStarts
  <2>2. groups' = [groups EXCEPT ![g] = new]
    BY <1>2, <1>4
  <2> HIDE DEF new
  <2> QED BY <1>2, <2>1, <2>2, OneGroup
<1> QED BY <1>3, <1>4

LEMMA OrderCreatedStep ==
  ASSUME EventsInv, NEW g \in Groups,
         HandleOrderCreated(g, Append(groups[g].handled, NextEvent(g)))
  PROVE  EventsInv'
<1> DEFINE self == groups[g]
<1>1. /\ self \in Group /\ GroupInv(self, orderEvents, losses)
      /\ self.joined /\ self.position < Len(orderEvents)
      /\ orderEvents \in Seq(PlacedOrder)
  BY WiderSeq DEF EventsInv, EventsTypeOK, HandleOrderCreated
<1>2. UNCHANGED <<ordered, placed, underWay, orderEvents, losses>>
  BY DEF HandleOrderCreated
<1>3. PICK committed \in {self.committed, self.position + 1} :
        groups' = [groups EXCEPT ![g].position = self.position + 1, ![g].committed = committed,
                     ![g].handled = Append(self.handled, orderEvents[self.position + 1])]
  BY DEF HandleOrderCreated, NextEvent, EventsInv, EventsTypeOK
<1>4. PICK new :
        new = [self EXCEPT !.position = self.position + 1, !.committed = committed,
                           !.handled = Append(self.handled, orderEvents[self.position + 1])]
  OBVIOUS
<1>5. groups' = [groups EXCEPT ![g] = new]
  BY <1>3, <1>4 DEF EventsInv, EventsTypeOK, Group
<1>6. new \in Group /\ GroupInv(new, orderEvents, losses)
  BY <1>1, <1>4, GroupHandles
<1> QED BY <1>2, <1>5, <1>6, OneGroup

LEMMA GroupStopsStep ==
  ASSUME EventsInv, NEW g \in Groups, GroupStops(g)
  PROVE  EventsInv'
<1> DEFINE left == [groups[g] EXCEPT !.joined = FALSE,
                     !.forgot = groups[g].forgot \/ groups[g].committed = Never]
<1>1. /\ losses' = losses + 1 /\ losses < MaxLosses
      /\ groups' = [groups EXCEPT ![g] = left]
      /\ UNCHANGED <<ordered, placed, underWay, orderEvents>>
  BY DEF GroupStops, EventsInv, EventsTypeOK, Group
<1>2. losses' # 0 /\ losses' \in 0 .. MaxLosses
  BY <1>1, EventDrivenAssumption DEF EventsInv, EventsTypeOK
<1>3. groups[g] \in Group /\ GroupInv(groups[g], orderEvents, losses)
  BY DEF EventsInv, EventsTypeOK
<1>4. left \in Group /\ GroupInv(left, orderEvents, losses')
  BY <1>2, <1>3, GroupLeaves
<1> HIDE DEF left
<1> QED BY <1>1, <1>2, <1>4, OneGroup

\* How the two consumers start, and what their controllers handle.
LEMMA ConsumerActions ==
  /\ InventoryAppBootstrap \/ NotificationAppBootstrap => \E g \in Groups : JoinGroup(g)
  /\ InventoryAppController \/ NotificationAppController =>
       \E g \in Groups : HandleOrderCreated(g, Append(groups[g].handled, NextEvent(g)))
BY DEF InventoryAppBootstrap, NotificationAppBootstrap, InventoryAppController,
       NotificationAppController, UpdateStock, SendNotification, Groups

LEMMA EventsStep ==
  ASSUME EventsInv, [EventsNext]_eventVars
  PROVE  EventsInv'
<1>1. CASE \E p \in Purchases : OrderAppController(p)
  BY <1>1, PlaceOrderStep DEF OrderAppController
<1>2. CASE KafkaAppend
  BY <1>2, KafkaAppendStep
<1>3. CASE GiveUp \/ OrderAppBootstrap
  BY <1>3, LossStep
<1>4. CASE \E g \in Groups : JoinGroup(g)
  BY <1>4, JoinStep
<1>5. CASE \E g \in Groups : HandleOrderCreated(g, Append(groups[g].handled, NextEvent(g)))
  BY <1>5, OrderCreatedStep
<1>6. CASE \E g \in Groups : GroupStops(g)
  BY <1>6, GroupStopsStep
<1>7. CASE UNCHANGED eventVars
  BY <1>7 DEF EventsInv, EventsTypeOK, eventVars
<1> QED BY <1>1, <1>2, <1>3, <1>4, <1>5, <1>6, <1>7, ConsumerActions DEF EventsNext

LEMMA EventsInvariant == EventsSpec => []EventsInv
BY EventsInitial, EventsStep, PTL DEF EventsSpec

LEMMA InvSkipsNothing == EventsInv => GroupsSkipNothing
<1> SUFFICES ASSUME EventsInv, NEW g \in Groups, NEW self, self = groups[g]
             PROVE  /\ \A i \in self.first + 1 .. self.position :
                         orderEvents[i] \in HandledBy(g) \/ (self.forgot /\ i <= self.since)
                    /\ losses = 0 =>
                         self.handled = SubSeq(orderEvents, self.first + 1, self.position)
  BY DEF GroupsSkipNothing
<1>1. self \in Group /\ GroupInv(self, orderEvents, losses)
      /\ orderEvents \in Seq(PlacedOrder)
  BY WiderSeq DEF EventsInv, EventsTypeOK
<1>2. ASSUME NEW i \in self.first + 1 .. self.position
      PROVE  orderEvents[i] \in HandledBy(g) \/ (self.forgot /\ i <= self.since)
  <2>1. /\ self.first \in Nat /\ self.since \in Nat /\ self.position \in Nat
        /\ self.first = self.since \/ self.forgot
    BY <1>1, GroupFields DEF GroupInv
  <2>2. i \in self.since + 1 .. self.position \/ (self.forgot /\ i <= self.since)
    BY <1>2, <2>1
  <2>3. \A k \in self.since + 1 .. self.position : orderEvents[k] \in HandledBy(g)
    BY <1>1 DEF GroupInv, HandledBy
  <2> QED BY <2>2, <2>3
<1>3. ASSUME losses = 0
      PROVE  self.handled = SubSeq(orderEvents, self.first + 1, self.position)
  <2> DEFINE a == self.first
             b == self.position
             h == self.handled
  <2>1. /\ a \in Nat /\ b \in Nat /\ a <= b /\ b <= Len(orderEvents)
        /\ h \in Seq(PlacedOrder) /\ Len(h) = b - a
        /\ \A j \in DOMAIN h : h[j] = orderEvents[a + j]
    BY <1>1, <1>3, GroupFields DEF GroupInv
  <2> HIDE DEF a, b, h
  <2>2. h = SubSeq(orderEvents, a + 1, b)
    BY <1>1, <2>1, SliceIs
  <2> QED BY <2>2 DEF a, b, h
<1> QED BY <1>2, <1>3

\* Every variable of lesson 2 keeps its type: only events of orders that were
\* answered are under way or on the topic.
THEOREM EventsTypes == EventsSpec => []EventsTypeOK
BY EventsInvariant, PTL DEF EventsInv

\* However often a consumer group stops, it skips of the events since its first
\* start only those before its last start without an offset, and none at all if it
\* had committed before its first stop; without losses it handles each event once
\* and in order.
THEOREM NothingSkipped == EventsSpec => []GroupsSkipNothing
BY EventsInvariant, InvSkipsNothing, PTL
=============================================================================
