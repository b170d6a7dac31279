-------------------------- MODULE AccountProjection --------------------------
(***************************************************************************)
(* The pure half of lesson 7 (7-event-sourcing): the account events, the   *)
(* AccountState they fold into, and the fold itself                        *)
(* (handlers/account-projection.ts).                                       *)
(*                                                                         *)
(* An event log is a function from versions to events: its domain is the   *)
(* set of versions that have a row, as the unique index on                 *)
(* (aggregate_id, version) makes of the events table.  Nothing here says   *)
(* that the versions are 1..n: that is earned by EventStore.               *)
(*                                                                         *)
(* Abstracted: the owner, the reason of a closing and the timestamps,      *)
(* which no decision of the service reads.                                 *)
(***************************************************************************)
EXTENDS Integers, FiniteSetsExt

EventTypes == {"AccountOpened", "MoneyDeposited", "MoneyWithdrawn", "AccountClosed"}

\* AccountDomainEvent.  "amount" is initialBalance, amount, or 0 for a closing.
Event == [type : EventTypes, amount : Nat]

\* AccountState.  The balance is an Int: nothing in the fold keeps it above 0.
AccountState == [balance : Int, status : {"open", "closed"}, version : Nat]

EmptyAccountState == [balance |-> 0, status |-> "open", version |-> 0]

\* applyEvent: the state after one more event.
ApplyEvent(state, event, version) ==
  [ version |-> version,
    status  |-> CASE event.type = "AccountOpened" -> "open"
                  [] event.type = "AccountClosed" -> "closed"
                  [] OTHER -> state.status,
    balance |-> CASE event.type = "AccountOpened"  -> event.amount
                  [] event.type = "MoneyDeposited" -> state.balance + event.amount
                  [] event.type = "MoneyWithdrawn" -> state.balance - event.amount
                  [] OTHER -> state.balance ]

\* MAX(version), 0 for a log without rows.
LastVersion(log) == Max(DOMAIN log \cup {0})

\* The loop over the rows of log with lo < version <= hi, in version order.
FoldRows(start, log, lo, hi) ==
  LET after[v \in lo .. hi] ==
        IF v = lo THEN start
        ELSE IF v \in DOMAIN log THEN ApplyEvent(after[v - 1], log[v], v)
        ELSE after[v - 1]
  IN  after[hi]

\* The part of a load that resumes from a snapshot (or from the empty state):
\* the rows newer than it are folded on top, in version order.
ReplayFrom(start, log) ==
  FoldRows(start, log, start.version, Max({start.version, LastVersion(log)}))

\* replayEvents over the rows up to a version.
ReplayTo(log, version) ==
  FoldRows(EmptyAccountState, log, 0, Min({version, LastVersion(log)}))

\* replayEvents over all rows.
ReplayEvents(log) == ReplayFrom(EmptyAccountState, log)
=============================================================================
