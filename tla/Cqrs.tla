-------------------------------- MODULE Cqrs ---------------------------------
(***************************************************************************)
(* Lesson 6, 6-cqrs-and-read-models (TypeScript): the write service over   *)
(* its Postgres table, one durable RabbitMQ queue, and the read service,   *)
(* which projects the messages into an Elasticsearch index.                *)
(*                                                                         *)
(* published holds every message there has been; the queue is what follows *)
(* the acked first ones.  One consumer with prefetch 1 reads it, and a     *)
(* message that is requeued goes back to its place, so the message being   *)
(* handled is always the first that is not acked.  The index holds, for    *)
(* each customer, the number of the message that it shows.                 *)
(***************************************************************************)
EXTENDS Integers, Sequences, FiniteSets

CONSTANTS
  Customers,
  Names, Emails,
  Clients,        \* clients that send one update after the other
  NoRow,          \* there is no such row
  MaxUpdates,     \* bound of the model: updates sent
  WriteFailures,  \* bound of the model: failures of the write service
  ReadFailures,   \* bound of the model: failures of the read service
  MaxLate         \* bound of the model: index requests that outlive their handler

Profile == [name : Names, email : Emails]

ASSUME CqrsAssumption ==
  /\ Customers # {} /\ Names # {} /\ Emails # {}
  /\ NoRow \notin Profile
  /\ {MaxUpdates, WriteFailures, ReadFailures, MaxLate} \subseteq Nat

VARIABLES
  customers,  \* write service: the customers table
  update,     \* write service: the update of each client
  published,  \* the messages, in the order they reached the broker
  acked,      \* how many messages have left the queue
  upsert,     \* read service: its handler
  late,       \* messages whose index request is under way without a handler
  index,      \* Elasticsearch: the message shown for each customer, or 0
  counts      \* updates, overlaps, failures and late requests so far

writeVars == <<customers, update>>
readVars == <<acked, upsert, late, index>>
vars == <<writeVars, published, readVars, counts>>

Message == [customer : Customers, profile : Profile]
Columns == {"name", "email"}
Update == [pc : {"idle", "load", "insert", "update", "publish"},
           customer : Customers, profile : Profile,
           changed : SUBSET Columns]   \* the columns save will write
NoUpdate == [pc |-> "idle", customer |-> CHOOSE c \in Customers : TRUE,
             profile |-> CHOOSE p \in Profile : TRUE, changed |-> {}]

Init ==
  /\ customers = [c \in Customers |-> NoRow]
  /\ update = [k \in Clients |-> NoUpdate]
  /\ published = <<>>
  /\ acked = 0
  /\ upsert = "idle"
  /\ late = {}
  /\ index = [c \in Customers |-> 0]
  /\ counts = [updates |-> 0, overlaps |-> 0, write |-> 0, read |-> 0, late |-> 0]

Count(what, bound) ==
  /\ counts[what] < bound
  /\ counts' = [counts EXCEPT ![what] = @ + 1]

-----------------------------------------------------------------------------
(* UpsertCustomerHandler.execute                                           *)

\* The request, and the findOne: whether it finds a row or not, the entity that
\* is saved has the name and the email of the command.  It may overlap with
\* updates of the same customer.
Receive(k) ==
  /\ update[k].pc = "idle"
  /\ counts.updates < MaxUpdates
  /\ \E c \in Customers, p \in Profile :
       LET beside == {j \in Clients : update[j].pc # "idle" /\ update[j].customer = c}
       IN  /\ update' = [update EXCEPT ![k] = [pc |-> "load", customer |-> c, profile |-> p,
                                               changed |-> {}]]
           /\ counts' = [counts EXCEPT !["updates"] = @ + 1,
                                       !["overlaps"] = IF beside = {} THEN @ ELSE @ + 1]
  /\ UNCHANGED <<customers, published, readVars>>

\* save compares the entity with the row it loads: it will insert it, or write
\* the columns that differ.
Load(k) ==
  LET self == update[k]
      row == customers[self.customer]
      changed == IF row = NoRow THEN {} ELSE {f \in Columns : row[f] # self.profile[f]}
  IN  /\ self.pc = "load"
      /\ update' = [update EXCEPT ![k] =
           [self EXCEPT !.changed = changed,
                        !.pc = IF row = NoRow THEN "insert"
                               ELSE IF changed = {} THEN "publish" ELSE "update"]]
      /\ UNCHANGED <<customers, published, readVars, counts>>

\* The primary key refuses a second insert, and with it the request.
InsertRow(k) ==
  LET self == update[k]
  IN  /\ self.pc = "insert"
      /\ IF customers[self.customer] = NoRow
         THEN /\ customers' = [customers EXCEPT ![self.customer] = self.profile]
              /\ update' = [update EXCEPT ![k].pc = "publish"]
         ELSE /\ update' = [update EXCEPT ![k] = NoUpdate]
              /\ UNCHANGED customers
      /\ UNCHANGED <<published, readVars, counts>>

Written(row, profile, changed) ==
  [name  |-> IF "name" \in changed THEN profile.name ELSE row.name,
   email |-> IF "email" \in changed THEN profile.email ELSE row.email]

\* Faulty: forgets the email of a customer that exists.
UpdateNameOnly(k) ==
  LET self == update[k]
  IN  /\ self.pc = "update"
      /\ customers' = [customers EXCEPT ![self.customer].name = self.profile.name]
      /\ update' = [update EXCEPT ![k].pc = "publish"]
      /\ UNCHANGED <<published, readVars, counts>>

UpdateRow(k) ==
  LET self == update[k]
  IN  /\ self.pc = "update"
      /\ customers' = [customers EXCEPT ![self.customer] =
                         Written(@, self.profile, self.changed)]
      /\ update' = [update EXCEPT ![k].pc = "publish"]
      /\ UNCHANGED <<published, readVars, counts>>

\* RmqEventPublisher.publishProfile: nobody waits for the broker.
PublishProfile(payload) == published' = Append(published, payload)

\* PublishCustomerProfileUpdatedHandler: the event has what the command had.
HandleProfileEvent(event) ==
  PublishProfile([customer |-> event.customer, profile |-> event.profile])

\* The event bus calls that handler, which emits, before publish returns.
Publish(k) ==
  /\ update[k].pc = "publish"
  /\ HandleProfileEvent(update[k])
  /\ update' = [update EXCEPT ![k] = NoUpdate]
  /\ UNCHANGED <<customers, readVars, counts>>

\* A query or the emit fails.
UpdateFails(k) ==
  /\ update[k].pc # "idle"
  /\ Count("write", WriteFailures)
  /\ update' = [update EXCEPT ![k] = NoUpdate]
  /\ UNCHANGED <<customers, published, readVars>>

\* The service stops and starts again: nothing of the updates is kept.
WriteBootstrap ==
  /\ \E k \in Clients : update[k].pc # "idle"
  /\ Count("write", WriteFailures)
  /\ update' = [k \in Clients |-> NoUpdate]
  /\ UNCHANGED <<customers, published, readVars>>

Save(k) == Load(k) \/ InsertRow(k) \/ UpdateRow(k) \/ Publish(k)
WriteController(k) == Receive(k)
UpsertCustomerHandler(k) == Receive(k) \/ Save(k)

\* The module's controller and handlers; its queue is durable and its messages
\* are persistent, so that published only grows.
WriteModule == \E k \in Clients : WriteController(k) \/ UpsertCustomerHandler(k)

-----------------------------------------------------------------------------
(* CustomerProfileRmqController.handleProfileUpdated                       *)

Show(n) == index' = [index EXCEPT ![published[n].customer] = n]

\* The broker delivers, and the handler sends the index request.
Deliver ==
  /\ upsert = "idle"
  /\ acked < Len(published)
  /\ upsert' = "sent"
  /\ UNCHANGED <<writeVars, published, acked, late, index, counts>>

IndexApplies ==
  /\ upsert = "sent"
  /\ Show(acked + 1)
  /\ upsert' = "applied"
  /\ UNCHANGED <<writeVars, published, acked, late, counts>>

\* Faulty: acknowledges and goes on as if it had not.
AckTwice ==
  /\ upsert = "applied"
  /\ acked' = acked + 1
  /\ UNCHANGED <<writeVars, published, upsert, late, index, counts>>

\* Faulty: acknowledges what is still to be delivered too.
AckAll ==
  /\ upsert = "applied"
  /\ acked' = Len(published)
  /\ upsert' = "idle"
  /\ UNCHANGED <<writeVars, published, late, index, counts>>

\* Faulty: forgets the acknowledgement.
NoAck ==
  /\ upsert = "applied"
  /\ upsert' = "idle"
  /\ UNCHANGED <<writeVars, published, acked, late, index, counts>>

Acknowledge ==
  /\ upsert = "applied"
  /\ acked' = acked + 1
  /\ upsert' = "idle"
  /\ UNCHANGED <<writeVars, published, late, index, counts>>

\* Faulty: nacks without requeue.
NackDrops ==
  /\ upsert # "idle"
  /\ Count("read", ReadFailures)
  /\ upsert' = "idle"
  /\ acked' = acked + 1
  /\ UNCHANGED <<writeVars, published, late, index>>

\* The request fails, or its answer is lost: the handler nacks, and the message
\* is requeued.
Requeue ==
  /\ upsert # "idle"
  /\ Count("read", ReadFailures)
  /\ upsert' = "idle"
  /\ UNCHANGED <<writeVars, published, acked, late, index>>

\* onModuleInit: an index that is there already is kept.
OpenIndex == UNCHANGED index

\* The service stops, or loses its channel, and starts again: the message is
\* requeued, and a request under way may still be applied.
ReadBootstrap ==
  /\ upsert # "idle"
  /\ \/ Count("read", ReadFailures) /\ UNCHANGED late
     \/ upsert = "sent" /\ Count("late", MaxLate) /\ late' = late \cup {acked + 1}
  /\ upsert' = "idle"
  /\ OpenIndex
  /\ UNCHANGED <<writeVars, published, acked>>

LateApplies ==
  /\ \E n \in late : Show(n) /\ late' = late \ {n}
  /\ UNCHANGED <<writeVars, published, acked, upsert, counts>>

HandleProfileUpdated == Deliver \/ IndexApplies \/ Acknowledge
RmqController == HandleProfileUpdated \/ Requeue

\* ElasticsearchService.getById: the profile shown, or NoRow.
GetById(c) == IF index[c] = 0 THEN NoRow ELSE published[index[c]].profile

\* Every update has been served and the queue is empty.
Settled ==
  /\ \A k \in Clients : update[k].pc = "idle"
  /\ acked = Len(published)
  /\ late = {}
AllQuiet == Settled /\ counts.updates = MaxUpdates /\ UNCHANGED vars

Next ==
  \/ WriteModule \/ WriteBootstrap \/ \E k \in Clients : UpdateFails(k)
  \/ RmqController \/ ReadBootstrap \/ LateApplies
  \/ AllQuiet

Spec == Init /\ [][Next]_vars

\* Every query is answered, and the broker delivers to a consumer that
\* reconnects.  Clients need not send anything.
Fairness ==
  /\ \A k \in Clients : WF_vars(Save(k))
  /\ WF_vars(HandleProfileUpdated)
  /\ WF_vars(LateApplies)

FairSpec == Spec /\ Fairness
=============================================================================
