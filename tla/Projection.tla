----------------------------- MODULE Projection ------------------------------
(***************************************************************************)
(* What the read side of lesson 6 promises: the read model of a customer   *)
(* moves from one published message of that customer to a later one, never *)
(* back, and reaches the last one.                                         *)
(***************************************************************************)
EXTENDS Naturals, Sequences

CONSTANTS Customers, Message

VARIABLES published, index

Init ==
  /\ published = <<>>
  /\ index = [c \in Customers |-> 0]

Publish ==
  /\ \E m \in Message : published' = Append(published, m)
  /\ UNCHANGED index

Show ==
  /\ \E n \in DOMAIN published :
       LET c == published[n].customer
       IN  /\ n > index[c]
           /\ index' = [index EXCEPT ![c] = n]
  /\ UNCHANGED published

Next == Publish \/ Show

Spec == Init /\ [][Next]_<<published, index>>
FairSpec == Spec /\ WF_<<published, index>>(Show)
=============================================================================
