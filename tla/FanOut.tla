-------------------------------- MODULE FanOut --------------------------------
(***************************************************************************)
(* What a publish/subscribe subject without storage promises: at most once,*)
(* and in the order of publication.  A subscriber may miss any message; it *)
(* sees none twice and none after a later one.                             *)
(***************************************************************************)
EXTENDS Integers, Sequences

CONSTANTS Subscribers, Envelope
VARIABLES published, received

LastOf(seq) == IF seq = <<>> THEN 0 ELSE seq[Len(seq)]

Init == published = <<>> /\ received = [s \in Subscribers |-> <<>>]

Emit == (\E e \in Envelope : published' = Append(published, e)) /\ UNCHANGED received

\* received[s] holds the places of its messages in published.
Receive(s) ==
  /\ \E i \in LastOf(received[s]) + 1 .. Len(published) :
       received' = [received EXCEPT ![s] = Append(@, i)]
  /\ UNCHANGED published

Spec == Init /\ [][Emit \/ \E s \in Subscribers : Receive(s)]_<<published, received>>
=============================================================================
