----------------------------- MODULE CqrsProps -------------------------------
(***************************************************************************)
(* What lesson 6 promises, over the state of Cqrs.                         *)
(***************************************************************************)
EXTENDS Cqrs

\* Type invariant: the table, the updates under way, the queue and the index.
TypeOK ==
  /\ customers \in [Customers -> Profile \cup {NoRow}]
  /\ update \in [Clients -> Update]
  /\ published \in Seq(Message)
  /\ acked \in 0 .. Len(published)
  /\ upsert \in {"idle", "sent", "applied"}
  /\ upsert # "idle" => acked < Len(published)
  /\ late \subseteq 1 .. Len(published)
  /\ index \in [Customers -> 0 .. Len(published)]
  /\ counts \in [{"updates", "overlaps", "write", "read", "late"} -> Nat]

\* The read model shows every message that has left the queue, or a later one
\* of the same customer: "Ack only after the projection succeeds"
\* (customer-profile.rmq.controller.ts:47).
AckedAreShown ==
  \A n \in 1 .. acked : index[published[n].customer] >= n

\* What GET /customer/:id answers: the profile shown, or a 404.
Answer(c) == GetById(c)

\* When every update has been served and the queue is empty, the read model is
\* the write model: "read model hoi tu ve gia tri moi", the read model converges
\* to the new value (.e2e/typescript/flow-3-done.md:41).
ModelsAgree == Settled => \A c \in Customers : Answer(c) = customers[c]

\* That does hold, whatever the projection repeats, as long as the updates of a
\* customer do not overlap and the write service does not fail between its save
\* and its publication (UpsertCustomerHandler.execute).
SequentialModelsAgree == counts.overlaps = 0 /\ counts.write = 0 => ModelsAgree

\* Every message that reached the broker leaves the queue, however many of its
\* projections fail: "Nack with requeue so a transient failure is retried, not
\* lost" (customer-profile.rmq.controller.ts:51).
QueueDrains ==
  \A n \in 1 .. MaxUpdates : Len(published) >= n ~> acked >= n

\* The read side implements its promise: whatever is redelivered, the profile
\* shown never goes back to an earlier message, and the last one gets shown.
ReadModel == INSTANCE Projection
ImplementsProjection == ReadModel!FairSpec
=============================================================================
