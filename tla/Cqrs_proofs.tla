----------------------------- MODULE Cqrs_proofs -----------------------------
(***************************************************************************)
(* Theorems about lesson 6, for any customers, clients and bounds: type    *)
(* correctness, the two safety promises of the projection, and the         *)
(* agreement of the models, as long as no index request outlives its       *)
(* handler.                                                                *)
(***************************************************************************)
EXTENDS CqrsProps, TLAPS

\* A save that updates has seen a row, and rows are never deleted.
UpdatesSeeRow ==
  \A k \in Clients : update[k].pc = "update" => customers[update[k].customer] # NoRow

LEMMA NoUpdateType == NoUpdate \in Update /\ NoUpdate.pc = "idle"
<1>1. PICK n \in Names, e \in Emails : TRUE
  BY CqrsAssumption
<1>2. [name |-> n, email |-> e] \in Profile
  BY DEF Profile
<1>3. (CHOOSE c \in Customers : TRUE) \in Customers /\ (CHOOSE p \in Profile : TRUE) \in Profile
  BY <1>2, CqrsAssumption
<1> QED
  BY <1>3 DEF NoUpdate, Update

\* The parts of an update.
LEMMA UpdateParts ==
  ASSUME NEW u \in Update
  PROVE  /\ u.customer \in Customers
         /\ u.profile \in Profile
         /\ [u EXCEPT !.pc = "publish"] \in Update
         /\ [customer |-> u.customer, profile |-> u.profile] \in Message
BY DEF Update, Message

\* A row that is updated stays a profile.
LEMMA WrittenType ==
  ASSUME NEW row \in Profile, NEW profile \in Profile, NEW changed
  PROVE  Written(row, profile, changed) \in Profile
BY DEF Written, Profile

\* Counting keeps the counters natural.
LEMMA CountersType ==
  ASSUME NEW c \in [{"updates", "overlaps", "write", "read", "late"} -> Nat],
         NEW what \in {"updates", "overlaps", "write", "read", "late"}, NEW n \in Nat
  PROVE  /\ [c EXCEPT ![what] = @ + 1] \in [{"updates", "overlaps", "write", "read", "late"} -> Nat]
         /\ [c EXCEPT ![what] = n] \in [{"updates", "overlaps", "write", "read", "late"} -> Nat]
<1>1. c[what] + 1 \in Nat
  OBVIOUS
<1> QED BY <1>1

\* An update that is dropped leaves the types.
LEMMA DroppedType ==
  ASSUME TypeOK, UpdatesSeeRow, Count("write", WriteFailures),
         \/ \E k \in Clients : update' = [update EXCEPT ![k] = NoUpdate]
         \/ update' = [k \in Clients |-> NoUpdate],
         UNCHANGED <<customers, published, readVars>>
  PROVE  TypeOK' /\ UpdatesSeeRow'
<1>1. update' \in [Clients -> Update] /\ UpdatesSeeRow'
  BY NoUpdateType DEF TypeOK, UpdatesSeeRow
<1>2. counts' \in [{"updates", "overlaps", "write", "read", "late"} -> Nat]
  BY CountersType DEF Count, TypeOK
<1> QED BY <1>1, <1>2 DEF TypeOK, readVars

\* Every step keeps the types.
LEMMA StepType ==
  ASSUME TypeOK, UpdatesSeeRow, [Next]_vars
  PROVE  TypeOK' /\ UpdatesSeeRow'
<1> USE CqrsAssumption, NoUpdateType DEF TypeOK, UpdatesSeeRow, Count, writeVars, readVars
<1>1. ASSUME NEW k \in Clients, Receive(k)
      PROVE  TypeOK' /\ UpdatesSeeRow'
  <2>1. PICK u \in Update : update' = [update EXCEPT ![k] = u] /\ u.pc = "load"
    <3>1. PICK c \in Customers, p \in Profile :
            update' = [update EXCEPT ![k] = [pc |-> "load", customer |-> c, profile |-> p,
                                             changed |-> {}]]
      BY <1>1 DEF Receive
    <3>2. [pc |-> "load", customer |-> c, profile |-> p, changed |-> {}] \in Update
      BY DEF Update
    <3> QED BY <3>1, <3>2
  <2>2. PICK n \in Nat : counts' = [counts EXCEPT !["updates"] = @ + 1, !["overlaps"] = n]
    <3>1. counts["overlaps"] \in Nat /\ counts["overlaps"] + 1 \in Nat
      OBVIOUS
    <3>2. PICK more \in BOOLEAN :
            counts' = [counts EXCEPT !["updates"] = @ + 1,
                                     !["overlaps"] = IF more THEN @ ELSE @ + 1]
      BY <1>1 DEF Receive
    <3>3. CASE more
      BY <3>1, <3>2, <3>3
    <3>4. CASE ~ more
      BY <3>1, <3>2, <3>4
    <3> QED BY <3>3, <3>4
  <2>3. counts' \in [{"updates", "overlaps", "write", "read", "late"} -> Nat]
    <3>1. PICK c : c = [counts EXCEPT !["updates"] = @ + 1]
      OBVIOUS
    <3>2. c \in [{"updates", "overlaps", "write", "read", "late"} -> Nat]
      BY <3>1, CountersType
    <3>3. counts' = [c EXCEPT !["overlaps"] = n]
      BY <2>2, <3>1
    <3> QED BY <3>2, <3>3, CountersType
  <2>4. update' \in [Clients -> Update] /\ UpdatesSeeRow'
    BY <1>1, <2>1 DEF Receive
  <2> QED BY <1>1, <2>3, <2>4 DEF Receive
<1>2. ASSUME NEW k \in Clients, Load(k)
      PROVE  TypeOK' /\ UpdatesSeeRow'
  <2>1. PICK self \in Update, changed \in SUBSET Columns, pc \in {"insert", "publish", "update"} :
          /\ self = update[k]
          /\ update' = [update EXCEPT ![k] = [self EXCEPT !.changed = changed, !.pc = pc]]
          /\ customers[self.customer] = NoRow => pc = "insert"
    BY <1>2 DEF Load
  <2>2. /\ [self EXCEPT !.changed = changed, !.pc = pc] \in Update
        /\ [self EXCEPT !.changed = changed, !.pc = pc].pc = pc
        /\ [self EXCEPT !.changed = changed, !.pc = pc].customer = self.customer
    BY DEF Update
  <2>3. update' \in [Clients -> Update] /\ UpdatesSeeRow'
    BY <1>2, <2>1, <2>2 DEF Load
  <2> QED BY <1>2, <2>3 DEF Load
<1>3. ASSUME NEW k \in Clients, InsertRow(k)
      PROVE  TypeOK' /\ UpdatesSeeRow'
  <2>1. PICK self \in Update : self = update[k]
    OBVIOUS
  <2>2. self.customer \in Customers /\ self.profile \in Profile /\ self.profile # NoRow
    BY UpdateParts
  <2>3. CASE customers[self.customer] = NoRow
    <3>1. /\ customers' = [customers EXCEPT ![self.customer] = self.profile]
          /\ update' = [update EXCEPT ![k] = [self EXCEPT !.pc = "publish"]]
      BY <1>3, <2>1, <2>3 DEF InsertRow
    <3>2. [self EXCEPT !.pc = "publish"] \in Update
      BY UpdateParts
    <3>3. customers' \in [Customers -> Profile \cup {NoRow}] /\ update' \in [Clients -> Update]
      BY <2>2, <3>1, <3>2
    <3>4. UpdatesSeeRow'
      BY <2>2, <3>1 DEF Update
    <3> QED BY <1>3, <3>3, <3>4 DEF InsertRow
  <2>4. CASE customers[self.customer] # NoRow
    <3>1. update' = [update EXCEPT ![k] = NoUpdate] /\ UNCHANGED customers
      BY <1>3, <2>1, <2>4 DEF InsertRow
    <3> QED BY <1>3, <3>1 DEF InsertRow
  <2> QED BY <2>3, <2>4
<1>4. ASSUME NEW k \in Clients, UpdateRow(k)
      PROVE  TypeOK' /\ UpdatesSeeRow'
  <2>1. PICK self \in Update : self = update[k]
    OBVIOUS
  <2>2. self.customer \in Customers /\ self.profile \in Profile
    BY UpdateParts
  <2>3. PICK row : row = Written(customers[self.customer], self.profile, self.changed)
    OBVIOUS
  <2>4. /\ customers' = [customers EXCEPT ![self.customer] = row]
        /\ update' = [update EXCEPT ![k] = [self EXCEPT !.pc = "publish"]]
    BY <1>4, <2>1, <2>3 DEF UpdateRow
  <2>5. customers[self.customer] \in Profile
    BY <1>4, <2>1, <2>2 DEF UpdateRow
  <2>6. row \in Profile /\ row # NoRow
    BY <2>2, <2>3, <2>5, WrittenType
  <2>7. [self EXCEPT !.pc = "publish"] \in Update
    BY UpdateParts
  <2>8. customers' \in [Customers -> Profile \cup {NoRow}] /\ update' \in [Clients -> Update]
    BY <2>4, <2>6, <2>7
  <2>9. UpdatesSeeRow'
    BY <2>2, <2>4, <2>6 DEF Update
  <2> QED BY <1>4, <2>8, <2>9 DEF UpdateRow
<1>5. ASSUME NEW k \in Clients, Publish(k)
      PROVE  TypeOK' /\ UpdatesSeeRow'
  <2>1. PICK m \in Message : published' = Append(published, m)
    BY <1>5, UpdateParts DEF Publish, HandleProfileEvent, PublishProfile
  <2>2. published' \in Seq(Message) /\ Len(published') = Len(published) + 1
    BY <2>1
  <2>3. update' \in [Clients -> Update] /\ UpdatesSeeRow'
    BY <1>5 DEF Publish
  <2>4. acked \in 0 .. Len(published') /\ late \subseteq 1 .. Len(published')
    BY <2>2
  <2>5. index \in [Customers -> 0 .. Len(published')]
    BY <2>2
  <2>6. upsert # "idle" => acked < Len(published')
    BY <2>2
  <2>7. UNCHANGED <<customers, acked, upsert, late, index, counts>>
    BY <1>5 DEF Publish
  <2> QED BY <2>2, <2>3, <2>4, <2>5, <2>6, <2>7
<1>6. ASSUME NEW k \in Clients, UpdateFails(k)
      PROVE  TypeOK' /\ UpdatesSeeRow'
  BY <1>6, DroppedType DEF UpdateFails
<1>14. CASE WriteBootstrap
  BY <1>14, DroppedType DEF WriteBootstrap
<1>7. CASE Deliver
  BY <1>7 DEF Deliver
<1>8. CASE IndexApplies
  <2>1. acked + 1 \in 1 .. Len(published)
    BY <1>8 DEF IndexApplies
  <2>2. published[acked + 1] \in Message
    BY <2>1
  <2>3. published[acked + 1].customer \in Customers
    BY <2>2 DEF Message
  <2>4. /\ index' = [index EXCEPT ![published[acked + 1].customer] = acked + 1]
        /\ upsert' \in {"idle", "sent", "applied"} /\ acked < Len(published)
        /\ UNCHANGED <<customers, update, published, acked, late, counts>>
    BY <1>8 DEF IndexApplies, Show
  <2>5. index' \in [Customers -> 0 .. Len(published)]
    <3>1. PICK c \in Customers, n \in 0 .. Len(published) : index' = [index EXCEPT ![c] = n]
      <4>1. acked + 1 \in 0 .. Len(published)
        BY <2>1
      <4> QED BY <2>3, <2>4, <4>1, Zenon
    <3> QED BY <3>1
  <2> QED BY <2>4, <2>5
<1>9. CASE Acknowledge
  BY <1>9 DEF Acknowledge
<1>10. CASE Requeue
  BY <1>10 DEF Requeue
<1>11. CASE ReadBootstrap
  <2>1. upsert' = "idle" /\ UNCHANGED <<customers, update, published, acked, index>>
    BY <1>11 DEF ReadBootstrap, OpenIndex
  <2>2. PICK what \in {"read", "late"} : counts' = [counts EXCEPT ![what] = @ + 1]
    BY <1>11 DEF ReadBootstrap
  <2>3. late' = late \/ (upsert = "sent" /\ late' = late \cup {acked + 1})
    BY <1>11 DEF ReadBootstrap
  <2>4. counts' \in [{"updates", "overlaps", "write", "read", "late"} -> Nat]
    <3>1. what \in {"updates", "overlaps", "write", "read", "late"}
      OBVIOUS
    <3> QED BY <2>2, <3>1, CountersType
  <2>5. upsert = "sent" => acked + 1 \in 1 .. Len(published)
    OBVIOUS
  <2>6. late' \subseteq 1 .. Len(published)
    BY <2>3, <2>5
  <2> QED BY <2>1, <2>4, <2>6
<1>12. CASE LateApplies
  <2>1. PICK n \in late : Show(n) /\ late' = late \ {n}
    BY <1>12 DEF LateApplies
  <2>2. n \in 0 .. Len(published) /\ published[n] \in Message
    OBVIOUS
  <2>3. published[n].customer \in Customers
    BY <2>2 DEF Message
  <2> QED BY <1>12, <2>1, <2>2, <2>3 DEF LateApplies, Show
<1>13. CASE UNCHANGED vars
  BY <1>13 DEF vars
<1> QED
  BY <1>1, <1>2, <1>3, <1>4, <1>5, <1>6, <1>7, <1>8, <1>9, <1>10, <1>11, <1>12, <1>13, <1>14
     DEF Next, AllQuiet, WriteModule, WriteController, UpsertCustomerHandler, Save,
         RmqController, HandleProfileUpdated

LEMMA TypeInvariant == Spec => [](TypeOK /\ UpdatesSeeRow)
<1>1. Init => TypeOK /\ UpdatesSeeRow
  BY NoUpdateType DEF Init, TypeOK, UpdatesSeeRow
<1> QED
  BY <1>1, StepType, PTL DEF Spec

\* The table, the updates under way, the queue and the index keep their types.
THEOREM TypeCorrect == Spec => []TypeOK
BY TypeInvariant, PTL

-----------------------------------------------------------------------------
(* The projection, when every index request ends before its handler does.  *)

\* No index request outlives its handler.
Punctual == MaxLate = 0

\* The index is never ahead of the message being handled, and shows it once it
\* has been applied.
IndexFollowsQueue ==
  /\ late = {}
  /\ \A c \in Customers : index[c] <= acked + 1
  /\ upsert = "applied" => index[published[acked + 1].customer] >= acked + 1

\* A step keeps the index behind the queue, and acknowledged messages shown.
LEMMA StepFollows ==
  ASSUME Punctual, TypeOK, IndexFollowsQueue, AckedAreShown, [Next]_vars
  PROVE  IndexFollowsQueue' /\ AckedAreShown'
<1> USE CqrsAssumption DEF TypeOK, IndexFollowsQueue, AckedAreShown, writeVars, readVars
<1>1. ASSUME NEW k \in Clients, Publish(k)
      PROVE  IndexFollowsQueue' /\ AckedAreShown'
  <2>1. PICK m \in Message : published' = Append(published, m)
    BY <1>1, UpdateParts DEF Publish, HandleProfileEvent, PublishProfile
  <2>2. \A n \in 1 .. Len(published) : published'[n] = published[n]
    BY <2>1
  <2>3. UNCHANGED <<acked, upsert, late, index>>
    BY <1>1 DEF Publish
  <2>4. upsert = "applied" => acked + 1 \in 1 .. Len(published)
    OBVIOUS
  <2>5. AckedAreShown'
    <3>1. ASSUME NEW i \in 1 .. acked
          PROVE  index'[published'[i].customer] >= i
      <4>1. published'[i] = published[i] /\ index' = index
        BY <2>2, <2>3
      <4>2. index[published[i].customer] >= i
        OBVIOUS
      <4> QED BY <4>1, <4>2, Zenon
    <3> QED BY <2>3, <3>1
  <2>6. IndexFollowsQueue'
    <3>1. upsert = "applied" => published'[acked + 1] = published[acked + 1]
      BY <2>2, <2>4
    <3> QED BY <2>3, <3>1
  <2> QED BY <2>5, <2>6
<1>2. CASE IndexApplies
  <2> DEFINE n == acked + 1
             c == published[n].customer
  <2>1. n \in 1 .. Len(published) /\ published[n] \in Message
    BY <1>2 DEF IndexApplies
  <2>2. c \in Customers
    BY <2>1 DEF Message
  <2>3. index' = [index EXCEPT ![c] = n] /\ UNCHANGED <<published, acked, late>>
    BY <1>2 DEF IndexApplies, Show
  <2>4. \A d \in Customers : index'[d] <= n /\ index'[d] >= index[d]
    BY <2>2, <2>3
  <2>5. index'[c] = n
    BY <2>2, <2>3
  <2>6. IndexFollowsQueue'
    BY <2>3, <2>4, <2>5
  <2>7. ASSUME NEW i \in 1 .. acked
        PROVE  index'[published[i].customer] >= i
    <3>1. published[i] \in Message
      OBVIOUS
    <3>2. published[i].customer \in Customers
      BY <3>1 DEF Message
    <3>3. index[published[i].customer] >= i
      OBVIOUS
    <3>4. published[i].customer = c \/ index'[published[i].customer] = index[published[i].customer]
      BY <2>3, <3>2
    <3>5. i \in Int /\ n \in Int /\ i <= n
      BY <2>1
    <3> HIDE DEF n, c
    <3> QED BY <2>5, <3>3, <3>4, <3>5
  <2> QED BY <2>3, <2>6, <2>7
<1>3. CASE Acknowledge
  <2>1. /\ upsert = "applied" /\ upsert' = "idle"
        /\ acked \in Nat /\ acked' = acked + 1
        /\ UNCHANGED <<published, late, index>>
    BY <1>3 DEF Acknowledge
  <2>2. ASSUME NEW i \in 1 .. acked'
        PROVE  index[published[i].customer] >= i
    BY <2>1
  <2>3. \A c \in Customers : index[c] \in Int /\ index[c] <= acked' + 1
    BY <2>1
  <2> QED BY <2>1, <2>2, <2>3
<1>4. CASE UNCHANGED <<published, acked, late, index>> /\ (upsert' = upsert \/ upsert' # "applied")
  BY <1>4
<1>5. ~ LateApplies
  BY DEF LateApplies
<1>6. ASSUME \/ WriteBootstrap
             \/ \E k \in Clients : \/ Receive(k) \/ Load(k) \/ InsertRow(k)
                                  \/ UpdateRow(k) \/ UpdateFails(k)
      PROVE  UNCHANGED <<published, acked, upsert, late, index>>
  BY <1>6 DEF Receive, Load, InsertRow, UpdateRow, UpdateFails, WriteBootstrap
<1>7. ASSUME Deliver \/ Requeue \/ ReadBootstrap \/ UNCHANGED vars
      PROVE  /\ UNCHANGED <<published, acked, late, index>>
             /\ upsert' = upsert \/ upsert' # "applied"
  BY <1>7 DEF Deliver, Requeue, ReadBootstrap, OpenIndex, Punctual, Count, vars
<1> QED
  BY <1>1, <1>2, <1>3, <1>4, <1>5, <1>6, <1>7
     DEF Next, AllQuiet, WriteModule, WriteController, UpsertCustomerHandler, Save,
         RmqController, HandleProfileUpdated

LEMMA ProjectionInvariant ==
  ASSUME Punctual
  PROVE  Spec => [](TypeOK /\ IndexFollowsQueue /\ AckedAreShown)
<1>1. Init => IndexFollowsQueue /\ AckedAreShown
  BY DEF Init, IndexFollowsQueue, AckedAreShown
<1> QED
  BY <1>1, TypeCorrect, StepFollows, PTL DEF Spec

\* A message leaves the queue only when the read model shows it or a later one
\* of its customer, however often it was delivered.
THEOREM AckedMessagesAreShown ==
  ASSUME Punctual
  PROVE  Spec => []AckedAreShown
BY ProjectionInvariant, PTL

\* A step is a step of the abstract projection or a stutter.
LEMMA StepProjects ==
  ASSUME TypeOK, IndexFollowsQueue, [Next]_vars
  PROVE  [ReadModel!Next]_<<published, index>>
<1> USE CqrsAssumption DEF TypeOK, IndexFollowsQueue, writeVars, readVars, ReadModel!Next
<1>1. ASSUME NEW k \in Clients, Publish(k)
      PROVE  ReadModel!Publish
  BY <1>1, UpdateParts DEF Publish, HandleProfileEvent, PublishProfile, ReadModel!Publish
<1>2. CASE IndexApplies
  <2> DEFINE n == acked + 1
             c == published[n].customer
  <2>1. n \in DOMAIN published /\ published[n] \in Message
    BY <1>2 DEF IndexApplies
  <2>2. c \in Customers
    BY <2>1 DEF Message
  <2>3. index' = [index EXCEPT ![c] = n] /\ UNCHANGED published
    BY <1>2 DEF IndexApplies, Show
  <2>4. CASE index[c] = n
    <3>1. index' = index
      BY <2>2, <2>3, <2>4
    <3> QED BY <2>3, <3>1
  <2>5. CASE n > index[c]
    BY <2>1, <2>3, <2>5 DEF ReadModel!Show
  <2>6. \A d \in Customers : index[d] <= n /\ index[d] \in Int
    OBVIOUS
  <2>7. index[c] <= n /\ index[c] \in Int /\ n \in Int
    <3> HIDE DEF c
    <3> QED BY <2>2, <2>6
  <2>8. index[c] = n \/ n > index[c]
    <3> HIDE DEF c, n
    <3> QED BY <2>7
  <2> QED BY <2>4, <2>5, <2>8, Zenon
<1>3. ASSUME \/ WriteBootstrap
             \/ \E k \in Clients : \/ Receive(k) \/ Load(k) \/ InsertRow(k)
                                  \/ UpdateRow(k) \/ UpdateFails(k)
      PROVE  UNCHANGED <<published, index>>
  BY <1>3 DEF Receive, Load, InsertRow, UpdateRow, UpdateFails, WriteBootstrap
<1>4. ASSUME Deliver \/ Acknowledge \/ Requeue \/ ReadBootstrap \/ UNCHANGED vars
      PROVE  UNCHANGED <<published, index>>
  BY <1>4 DEF Deliver, Acknowledge, Requeue, ReadBootstrap, OpenIndex, vars
<1>5. ~LateApplies
  BY DEF LateApplies
<1> QED
  BY <1>1, <1>2, <1>3, <1>4, <1>5
     DEF Next, AllQuiet, WriteModule, WriteController, UpsertCustomerHandler, Save,
         RmqController, HandleProfileUpdated

\* Every step is a step of the projection or leaves the read model alone: it
\* never shows an earlier message than before.
THEOREM SafeProjection ==
  ASSUME Punctual
  PROVE  Spec => ReadModel!Spec
<1>1. Init => ReadModel!Init
  BY DEF Init, ReadModel!Init
<1> QED
  BY <1>1, StepProjects, ProjectionInvariant, PTL DEF Spec, ReadModel!Spec

-----------------------------------------------------------------------------
(* The write side, when the updates of a customer come one after the other *)
(* and the write service does not fail; then both sides together.          *)

Sequential == counts.overlaps = 0 /\ counts.write = 0

\* No two updates of a customer are under way.
Alone ==
  \A j, k \in Clients :
    /\ update[j].pc # "idle" /\ update[k].pc # "idle"
    /\ update[j].customer = update[k].customer
    => j = k

\* What an update knows of its row from its last query.
Changed(row, profile) == {f \in Columns : row[f] # profile[f]}
Knows(u, row) ==
  /\ u.pc = "insert" => row = NoRow
  /\ u.pc = "update" => row # NoRow /\ u.changed = Changed(row, u.profile)
  /\ u.pc = "publish" => row = u.profile

\* It is still true.
UpdatesKnow == \A k \in Clients : Knows(update[k], customers[update[k].customer])

MessagesOf(c) == {n \in DOMAIN published : published[n].customer = c}

\* The last message of a customer has the row's profile.
LastIsRow(c) ==
  /\ MessagesOf(c) = {} => customers[c] = NoRow
  /\ \A n \in MessagesOf(c) :
       (\A m \in MessagesOf(c) : m <= n) => published[n].profile = customers[c]

Publishing(c) == \E k \in Clients : update[k].pc = "publish" /\ update[k].customer = c

\* It has, except between a save and its publication.
RowsArePublished == \A c \in Customers : Publishing(c) \/ LastIsRow(c)

SequentialInv == Sequential => Alone /\ UpdatesKnow /\ RowsArePublished

\* A step after which updates are sequential still leaves out the failures of
\* the write service, and receives no update beside another.
LEMMA StillSequential ==
  ASSUME TypeOK, Sequential', [Next]_vars
  PROVE  /\ Sequential
         /\ ~ WriteBootstrap /\ \A k \in Clients : ~ UpdateFails(k)
         /\ \A k \in Clients : Receive(k) =>
              \E c \in Customers, p \in Profile :
                /\ update' = [update EXCEPT ![k] = [pc |-> "load", customer |-> c, profile |-> p,
                                                    changed |-> {}]]
                /\ \A j \in Clients : update[j].pc # "idle" => update[j].customer # c
<1> USE DEF Sequential
<1>1. counts \in [{"updates", "overlaps", "write", "read", "late"} -> Nat]
  BY DEF TypeOK
<1>2. ~ WriteBootstrap /\ \A k \in Clients : ~ UpdateFails(k)
  <2>1. ~ Count("write", WriteFailures)
    BY <1>1 DEF Count
  <2> QED BY <2>1 DEF WriteBootstrap, UpdateFails
<1>3. ASSUME NEW k \in Clients, Receive(k)
      PROVE  /\ Sequential
             /\ \E c \in Customers, p \in Profile :
                  /\ update' = [update EXCEPT ![k] = [pc |-> "load", customer |-> c, profile |-> p,
                                                      changed |-> {}]]
                  /\ \A j \in Clients : update[j].pc # "idle" => update[j].customer # c
  <2>1. PICK c \in Customers, p \in Profile :
          /\ update' = [update EXCEPT ![k] = [pc |-> "load", customer |-> c, profile |-> p,
                                              changed |-> {}]]
          /\ counts' = [counts EXCEPT
               !["updates"] = @ + 1,
               !["overlaps"] = IF {j \in Clients : update[j].pc # "idle" /\ update[j].customer = c} = {}
                               THEN @ ELSE @ + 1]
    BY <1>3 DEF Receive
  <2>2. counts'["write"] = counts["write"]
    BY <1>1, <2>1
  <2>3. CASE {j \in Clients : update[j].pc # "idle" /\ update[j].customer = c} = {}
    <3>1. counts'["overlaps"] = counts["overlaps"]
      BY <1>1, <2>1, <2>3
    <3> QED BY <2>1, <2>2, <2>3, <3>1
  <2>4. CASE {j \in Clients : update[j].pc # "idle" /\ update[j].customer = c} # {}
    <3>1. counts'["overlaps"] = counts["overlaps"] + 1
      BY <1>1, <2>1, <2>4
    <3> QED BY <1>1, <3>1
  <2> QED BY <2>3, <2>4
<1>4. CASE UNCHANGED counts
  BY <1>2, <1>3, <1>4
<1>5. ASSUME NEW what \in {"read", "late"}, counts' = [counts EXCEPT ![what] = @ + 1]
      PROVE  Sequential
  BY <1>1, <1>5
<1>6. Requeue \/ ReadBootstrap => UNCHANGED counts \/ Sequential
  BY <1>5 DEF Requeue, ReadBootstrap, Count
<1>7. \/ UNCHANGED counts \/ Requeue \/ ReadBootstrap \/ WriteBootstrap
      \/ \E k \in Clients : Receive(k) \/ UpdateFails(k)
  BY DEF Next, AllQuiet, WriteModule, WriteController, UpsertCustomerHandler, Save,
         RmqController, HandleProfileUpdated, Load, InsertRow, UpdateRow, Publish,
         Deliver, IndexApplies, Acknowledge, LateApplies, vars
<1> QED BY <1>2, <1>3, <1>4, <1>6, <1>7

\* An update that goes on, or ends, meets no other one.
LEMMA StaysAlone ==
  ASSUME TypeOK, Alone, NEW k \in Clients, NEW u, update' = [update EXCEPT ![k] = u],
         u.pc # "idle" => update[k].pc # "idle" /\ u.customer = update[k].customer
  PROVE  Alone'
<1>1. \A j \in Clients : update'[j] = IF j = k THEN u ELSE update[j]
  BY DEF TypeOK
<1> QED BY <1>1 DEF Alone

\* A row that has the name and the email of a profile is that profile.
LEMMA SameProfile ==
  ASSUME NEW p \in Profile, NEW q \in Profile, \A f \in Columns : p[f] = q[f]
  PROVE  p = q
BY DEF Profile, Columns

\* What save writes is the profile of the command.
LEMMA WrittenIsProfile ==
  ASSUME NEW row \in Profile, NEW p \in Profile
  PROVE  Written(row, p, Changed(row, p)) = p
<1>1. Written(row, p, Changed(row, p)) \in Profile
  BY WrittenType
<1>2. \A f \in Columns : Written(row, p, Changed(row, p))[f] = p[f]
  BY DEF Written, Changed, Columns, Profile
<1> QED BY <1>1, <1>2, SameProfile

\* A step of an update that writes its row, of which nobody else knows anything.
LEMMA WriteKeeps ==
  ASSUME TypeOK, Alone, UpdatesKnow, RowsArePublished,
         NEW k \in Clients, update[k].pc # "idle",
         customers' = [customers EXCEPT ![update[k].customer] = update[k].profile],
         update' = [update EXCEPT ![k].pc = "publish"], UNCHANGED published
  PROVE  Alone' /\ UpdatesKnow' /\ RowsArePublished'
<1> DEFINE self == update[k]
           c == self.customer
           u == [self EXCEPT !.pc = "publish"]
<1>1. self \in Update /\ c \in Customers /\ update' = [update EXCEPT ![k] = u]
  BY UpdateParts DEF TypeOK
<1>2. u.pc = "publish" /\ u.customer = c /\ u.profile = self.profile
  BY <1>1 DEF Update
<1>3. \A j \in Clients : update'[j] = IF j = k THEN u ELSE update[j]
  BY <1>1 DEF TypeOK
<1>4. \A d \in Customers : customers'[d] = IF d = c THEN self.profile ELSE customers[d]
  BY <1>1 DEF TypeOK
<1>5. Alone'
  BY <1>1, <1>2, StaysAlone
<1>6. UpdatesKnow'
  <2>1. SUFFICES ASSUME NEW j \in Clients
                 PROVE  Knows(update'[j], customers'[update'[j].customer])
    BY DEF UpdatesKnow, Knows, Changed
  <2>2. CASE j = k
    <3>1. Knows(u, self.profile)
      BY <1>2 DEF Knows
    <3>2. update'[j] = u /\ customers'[u.customer] = self.profile
      BY <1>1, <1>2, <1>3, <1>4, <2>2
    <3> QED BY <3>1, <3>2
  <2>3. CASE update[j].pc = "idle" /\ j # k
    BY <1>3, <2>3 DEF Knows
  <2>4. CASE j # k /\ update[j].pc # "idle"
    <3>1. update[j].customer # c /\ update[j].customer \in Customers
      BY <2>4, UpdateParts DEF Alone, TypeOK
    <3>2. update'[j] = update[j] /\ customers'[update[j].customer] = customers[update[j].customer]
      BY <1>3, <1>4, <2>4, <3>1
    <3> QED BY <3>2 DEF UpdatesKnow
  <2> QED BY <2>2, <2>3, <2>4
<1>7. RowsArePublished'
  <2>1. SUFFICES ASSUME NEW d \in Customers PROVE Publishing(d)' \/ LastIsRow(d)'
    BY DEF RowsArePublished
  <2>2. CASE d = c
    BY <1>2, <1>3, <2>2 DEF Publishing
  <2>3. CASE d # c
    <3>1. Publishing(d) => Publishing(d)'
      BY <1>3, <2>3 DEF Publishing
    <3>2. LastIsRow(d) => LastIsRow(d)'
      BY <1>4, <2>3 DEF LastIsRow, MessagesOf
    <3> QED BY <3>1, <3>2 DEF RowsArePublished
  <2> QED BY <2>2, <2>3
<1> QED BY <1>5, <1>6, <1>7

\* A step that leaves rows and messages alone, and publishes nothing.
LEMMA QuietKeeps ==
  ASSUME TypeOK, UpdatesKnow, RowsArePublished, UNCHANGED <<customers, published>>,
         NEW k \in Clients, NEW u \in Update, update' = [update EXCEPT ![k] = u],
         update[k].pc # "publish", Knows(u, customers[u.customer])
  PROVE  UpdatesKnow' /\ RowsArePublished'
<1>1. \A j \in Clients : update'[j] = IF j = k THEN u ELSE update[j]
  BY DEF TypeOK
<1>2. UpdatesKnow'
  <2>1. SUFFICES ASSUME NEW j \in Clients
                 PROVE  Knows(update'[j], customers[update'[j].customer])
    BY DEF UpdatesKnow, Knows, Changed
  <2> QED BY <1>1 DEF UpdatesKnow
<1>3. ASSUME NEW c \in Customers
      PROVE  Publishing(c)' \/ LastIsRow(c)'
  <2>1. Publishing(c) => Publishing(c)'
    BY <1>1 DEF Publishing
  <2>2. LastIsRow(c) => LastIsRow(c)'
    BY DEF LastIsRow, MessagesOf
  <2> QED BY <2>1, <2>2 DEF RowsArePublished
<1> QED BY <1>2, <1>3 DEF RowsArePublished

\* The publication makes the profile of the row the customer's last.
LEMMA PublishKeeps ==
  ASSUME TypeOK, Alone, UpdatesKnow, RowsArePublished, NEW k \in Clients, Publish(k)
  PROVE  Alone' /\ UpdatesKnow' /\ RowsArePublished'
<1> DEFINE self == update[k]
           c == self.customer
           m == [customer |-> c, profile |-> self.profile]
           n == Len(published) + 1
<1>1. /\ self.pc = "publish" /\ self \in Update /\ c \in Customers /\ m \in Message
      /\ published' = Append(published, m) /\ UNCHANGED customers
      /\ update' = [update EXCEPT ![k] = NoUpdate]
  BY UpdateParts DEF Publish, HandleProfileEvent, PublishProfile, TypeOK
<1>2. NoUpdate.pc = "idle"
  BY NoUpdateType
<1>3. \A j \in Clients : update'[j] = IF j = k THEN NoUpdate ELSE update[j]
  BY <1>1 DEF TypeOK
<1>4. Alone'
  BY <1>1, <1>2, StaysAlone
<1>5. UpdatesKnow'
  <2>1. SUFFICES ASSUME NEW j \in Clients
                 PROVE  Knows(update'[j], customers[update'[j].customer])
    BY <1>1 DEF UpdatesKnow, Knows, Changed
  <2>2. CASE j = k
    BY <1>2, <1>3, <2>2 DEF Knows
  <2>3. CASE j # k
    BY <1>3, <2>3 DEF UpdatesKnow
  <2> QED BY <2>2, <2>3
<1>6. /\ published \in Seq(Message) /\ Len(published) \in Nat
      /\ DOMAIN published = 1 .. Len(published) /\ DOMAIN published' = 1 .. n
      /\ published'[n] = m
      /\ \A i \in DOMAIN published : published'[i] = published[i]
  BY <1>1 DEF TypeOK
<1>7. ASSUME NEW d \in Customers
      PROVE  Publishing(d)' \/ LastIsRow(d)'
  <2>1. CASE d = c
    <3>1. n \in MessagesOf(d)'
      BY <1>6, <2>1 DEF MessagesOf
    <3>2. \A i \in MessagesOf(d)' : i \in 1 .. n
      BY <1>6 DEF MessagesOf
    <3>3. customers[c] = self.profile
      BY <1>1 DEF UpdatesKnow, Knows
    <3>4. ASSUME NEW i \in MessagesOf(d)', \A j \in MessagesOf(d)' : j <= i
          PROVE  published'[i].profile = customers[d]
      <4>1. i = n
        BY <1>6, <3>1, <3>2, <3>4
      <4> QED BY <1>6, <2>1, <3>3, <4>1
    <3> QED BY <1>1, <3>1, <3>4 DEF LastIsRow
  <2>2. CASE d # c
    <3>1. MessagesOf(d)' = MessagesOf(d)
      BY <1>6, <2>2 DEF MessagesOf
    <3>2. \A i \in MessagesOf(d) : published'[i] = published[i]
      BY <1>6 DEF MessagesOf
    <3>3. Publishing(d) => Publishing(d)'
      BY <1>3, <2>2 DEF Publishing
    <3>4. LastIsRow(d) => LastIsRow(d)'
      BY <1>1, <3>1, <3>2 DEF LastIsRow
    <3> QED BY <3>3, <3>4 DEF RowsArePublished
  <2> QED BY <2>1, <2>2
<1> QED BY <1>4, <1>5, <1>7 DEF RowsArePublished

LEMMA StepSequential ==
  ASSUME TypeOK, SequentialInv, [Next]_vars
  PROVE  SequentialInv'
<1>1. SUFFICES ASSUME Sequential' PROVE Alone' /\ UpdatesKnow' /\ RowsArePublished'
  BY DEF SequentialInv
<1>2. /\ Alone /\ UpdatesKnow /\ RowsArePublished
      /\ ~ WriteBootstrap /\ \A k \in Clients : ~ UpdateFails(k)
  BY <1>1, StillSequential DEF SequentialInv
<1>3. ASSUME NEW k \in Clients, Receive(k)
      PROVE  Alone' /\ UpdatesKnow' /\ RowsArePublished'
  <2>1. PICK c \in Customers, p \in Profile :
          /\ update' = [update EXCEPT ![k] = [pc |-> "load", customer |-> c, profile |-> p,
                                              changed |-> {}]]
          /\ \A j \in Clients : update[j].pc # "idle" => update[j].customer # c
    BY <1>1, <1>3, StillSequential
  <2>2. update[k].pc = "idle" /\ UNCHANGED <<customers, published>>
    BY <1>3 DEF Receive
  <2> DEFINE u == [pc |-> "load", customer |-> c, profile |-> p, changed |-> {}]
  <2>3. u \in Update
    BY DEF Update
  <2>4. \A j \in Clients : update'[j] = IF j = k THEN u ELSE update[j]
    BY <2>1 DEF TypeOK
  <2>5. Alone'
    BY <1>2, <2>1, <2>4 DEF Alone
  <2>6. Knows(u, customers[u.customer])
    BY DEF Knows
  <2> QED BY <1>2, <2>1, <2>2, <2>3, <2>5, <2>6, QuietKeeps
<1>4. ASSUME NEW k \in Clients, Load(k)
      PROVE  Alone' /\ UpdatesKnow' /\ RowsArePublished'
  <2> DEFINE self == update[k]
             row == customers[self.customer]
             changed == IF row = NoRow THEN {} ELSE Changed(row, self.profile)
             pc == IF row = NoRow THEN "insert" ELSE IF changed = {} THEN "publish" ELSE "update"
             u == [self EXCEPT !.changed = changed, !.pc = pc]
  <2>1. self \in Update /\ self.pc = "load" /\ UNCHANGED <<customers, published>>
    BY <1>4 DEF Load, TypeOK
  <2>2. update' = [update EXCEPT ![k] = u]
    BY <1>4 DEF Load, Changed
  <2>3. u \in Update
    BY <2>1 DEF Update, Changed
  <2>4. /\ u.customer = self.customer /\ u.profile = self.profile
        /\ u.changed = changed /\ u.pc = pc
    BY <2>1 DEF Update
  <2>5. row = NoRow \/ (row \in Profile /\ self.profile \in Profile)
    BY <2>1, UpdateParts DEF TypeOK
  <2>6. row # NoRow /\ changed = {} => row = self.profile
    <3>1. row # NoRow /\ changed = {} => \A f \in Columns : row[f] = self.profile[f]
      BY DEF Changed
    <3> QED BY <2>5, <3>1, SameProfile
  <2>7. Knows(u, customers[u.customer])
    BY <2>4, <2>6 DEF Knows
  <2>8. Alone'
    BY <1>2, <2>1, <2>2, <2>4, StaysAlone
  <2> QED BY <1>2, <2>1, <2>2, <2>3, <2>7, <2>8, QuietKeeps
<1>5. ASSUME NEW k \in Clients, InsertRow(k)
      PROVE  Alone' /\ UpdatesKnow' /\ RowsArePublished'
  <2>1. update[k].pc = "insert" /\ customers[update[k].customer] = NoRow
    BY <1>2, <1>5 DEF InsertRow, UpdatesKnow, Knows
  <2>2. /\ customers' = [customers EXCEPT ![update[k].customer] = update[k].profile]
        /\ update' = [update EXCEPT ![k].pc = "publish"] /\ UNCHANGED published
    BY <1>5, <2>1 DEF InsertRow
  <2> QED BY <1>2, <2>1, <2>2, WriteKeeps
<1>6. ASSUME NEW k \in Clients, UpdateRow(k)
      PROVE  Alone' /\ UpdatesKnow' /\ RowsArePublished'
  <2> DEFINE self == update[k]
             row == customers[self.customer]
  <2>1. /\ self.pc = "update" /\ self \in Update /\ UNCHANGED published
        /\ customers' = [customers EXCEPT ![self.customer] =
                           Written(row, self.profile, self.changed)]
        /\ update' = [update EXCEPT ![k].pc = "publish"]
    BY <1>6 DEF UpdateRow, TypeOK
  <2>2. row # NoRow /\ self.changed = Changed(row, self.profile)
    BY <1>2, <2>1 DEF UpdatesKnow, Knows
  <2>3. row \in Profile /\ self.profile \in Profile
    BY <2>1, <2>2, UpdateParts DEF TypeOK
  <2>4. customers' = [customers EXCEPT ![self.customer] = self.profile]
    BY <2>1, <2>2, <2>3, WrittenIsProfile
  <2> QED BY <1>2, <2>1, <2>4, WriteKeeps
<1>7. CASE UNCHANGED <<customers, update, published>>
  BY <1>2, <1>7 DEF Alone, UpdatesKnow, Knows, Changed, RowsArePublished, Publishing, LastIsRow,
                    MessagesOf
<1>8. ASSUME \/ Deliver \/ IndexApplies \/ Acknowledge \/ Requeue \/ ReadBootstrap \/ LateApplies
             \/ UNCHANGED vars
      PROVE  UNCHANGED <<customers, update, published>>
  BY <1>8 DEF Deliver, IndexApplies, Acknowledge, Requeue, ReadBootstrap, LateApplies, vars, writeVars
<1> QED
  BY <1>2, <1>3, <1>4, <1>5, <1>6, <1>7, <1>8, PublishKeeps
     DEF Next, AllQuiet, WriteModule, WriteController, UpsertCustomerHandler, Save,
         RmqController, HandleProfileUpdated

\* The profile shown for a customer is one of the customer's messages.
ShowsOwn == \A c \in Customers : index[c] # 0 => index[c] \in MessagesOf(c)

LEMMA StepShowsOwn ==
  ASSUME TypeOK, ShowsOwn, [Next]_vars
  PROVE  ShowsOwn'
<1>1. ASSUME NEW k \in Clients, Publish(k)
      PROVE  ShowsOwn'
  <2>1. PICK m \in Message : published' = Append(published, m)
    BY <1>1, UpdateParts DEF Publish, HandleProfileEvent, PublishProfile, TypeOK
  <2>2. \A n \in DOMAIN published : n \in DOMAIN published' /\ published'[n] = published[n]
    BY <2>1 DEF TypeOK
  <2>3. UNCHANGED index
    BY <1>1 DEF Publish, readVars
  <2> QED BY <2>2, <2>3 DEF ShowsOwn, MessagesOf
<1>2. ASSUME NEW n \in DOMAIN published, Show(n), UNCHANGED published
      PROVE  ShowsOwn'
  BY <1>2 DEF Show, ShowsOwn, MessagesOf, TypeOK
<1>3. CASE IndexApplies
  <2>1. acked + 1 \in DOMAIN published
    BY <1>3 DEF IndexApplies, TypeOK
  <2> QED BY <1>2, <1>3, <2>1 DEF IndexApplies
<1>4. CASE LateApplies
  <2>1. late \subseteq DOMAIN published
    BY DEF TypeOK
  <2> QED BY <1>2, <1>4, <2>1 DEF LateApplies
<1>5. CASE UNCHANGED <<published, index>>
  BY <1>5 DEF ShowsOwn, MessagesOf
<1>6. ASSUME \/ WriteBootstrap
             \/ \E k \in Clients : \/ Receive(k) \/ Load(k) \/ InsertRow(k)
                                  \/ UpdateRow(k) \/ UpdateFails(k)
             \/ Deliver \/ Acknowledge \/ Requeue \/ ReadBootstrap \/ UNCHANGED vars
      PROVE  UNCHANGED <<published, index>>
  BY <1>6 DEF Receive, Load, InsertRow, UpdateRow, UpdateFails, WriteBootstrap, Deliver, Acknowledge,
              Requeue, ReadBootstrap, OpenIndex, vars, readVars
<1> QED
  BY <1>1, <1>3, <1>4, <1>5, <1>6
     DEF Next, AllQuiet, WriteModule, WriteController, UpsertCustomerHandler, Save,
         RmqController, HandleProfileUpdated

LEMMA SequentialInvariant == Spec => [](TypeOK /\ SequentialInv /\ ShowsOwn)
<1>1. Init => SequentialInv /\ ShowsOwn
  <2>1. SUFFICES ASSUME Init PROVE SequentialInv /\ ShowsOwn
    OBVIOUS
  <2>2. \A k \in Clients : update[k].pc = "idle"
    BY <2>1, NoUpdateType DEF Init
  <2>3. \A c \in Customers : LastIsRow(c)
    BY <2>1 DEF Init, LastIsRow, MessagesOf
  <2>4. Alone /\ UpdatesKnow
    BY <2>2 DEF Alone, UpdatesKnow, Knows
  <2>5. ShowsOwn
    BY <2>1 DEF Init, ShowsOwn
  <2> QED BY <2>3, <2>4, <2>5 DEF SequentialInv, RowsArePublished
<1> QED BY <1>1, TypeCorrect, StepSequential, StepShowsOwn, PTL DEF Spec

\* What the two sides' invariants say together when everything is quiet.
LEMMA SettledAgrees ==
  ASSUME TypeOK, AckedAreShown, ShowsOwn, RowsArePublished, Settled,
         NEW c \in Customers
  PROVE  Answer(c) = customers[c]
<1>1. LastIsRow(c)
  BY DEF Settled, RowsArePublished, Publishing
<1>2. \A n \in MessagesOf(c) : index[c] >= n
  BY DEF Settled, MessagesOf, AckedAreShown, TypeOK
<1>3. CASE index[c] = 0
  <2>1. MessagesOf(c) = {}
    BY <1>2, <1>3 DEF MessagesOf, TypeOK
  <2> QED BY <1>1, <1>3, <2>1 DEF LastIsRow, Answer, GetById
<1>4. CASE index[c] # 0
  <2>1. index[c] \in MessagesOf(c)
    BY <1>4 DEF ShowsOwn
  <2> QED BY <1>1, <1>2, <1>4, <2>1 DEF LastIsRow, Answer, GetById
<1> QED BY <1>3, <1>4

\* When the updates of a customer do not overlap and the write service does not
\* fail, the read model is the write model whenever everything is quiet.
THEOREM SequentialUpdatesAgree ==
  ASSUME Punctual
  PROVE  Spec => []SequentialModelsAgree
<1>1. TypeOK /\ AckedAreShown /\ SequentialInv /\ ShowsOwn
        => SequentialModelsAgree
  BY SettledAgrees DEF SequentialModelsAgree, ModelsAgree, SequentialInv, Sequential
<1> QED BY <1>1, ProjectionInvariant, SequentialInvariant, PTL
==============================================================================
