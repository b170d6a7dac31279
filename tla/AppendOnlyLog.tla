---------------------------- MODULE AppendOnlyLog ----------------------------
(***************************************************************************)
(* What the events table promises its readers (7-event-sourcing/README.md: *)
(* "append-only event store"): one sequence of facts per account, which    *)
(* only ever grows at its end, one event at a time, and begins with the    *)
(* opening of the account, which never happens again.                      *)
(***************************************************************************)
EXTENDS Naturals, Sequences

CONSTANTS Accounts, Event

VARIABLE log    \* log[a] is the history of account a

IsOpening(event) == event.type = "AccountOpened"

Init == log = [a \in Accounts |-> <<>>]

Record(a, event) ==
  /\ IsOpening(event) <=> log[a] = <<>>
  /\ log' = [log EXCEPT ![a] = Append(@, event)]

Next == \E a \in Accounts, event \in Event : Record(a, event)

Spec == Init /\ [][Next]_log
=============================================================================
