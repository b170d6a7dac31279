---------------------------- MODULE MCEventStore -----------------------------
(***************************************************************************)
(* TLC instances of the event store.                                       *)
(***************************************************************************)
EXTENDS EventStoreProps, TLC

\* All accounts share one advisory lock key: the collision of two hashes.
SharedHash == [a \in Accounts |-> 7]

\* The requests are interchangeable.
RequestSymmetry == Permutations(Requests)
=============================================================================
