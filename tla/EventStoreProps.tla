--------------------------- MODULE EventStoreProps ---------------------------
(***************************************************************************)
(* What the event store of lesson 7 promises, over the state of            *)
(* EventStore.                                                             *)
(***************************************************************************)
EXTENDS EventStore

\* Type invariant: the tables hold well-formed rows and every task is in one
\* of the places between the awaits of account.service.ts.
TypeOK ==
  /\ DOMAIN events = Accounts
  /\ DOMAIN snapshots = Accounts
  /\ DOMAIN decided = Accounts
  /\ \A a \in Accounts :
       /\ events[a] \in [DOMAIN events[a] -> Event]
       /\ DOMAIN events[a] \subseteq Nat \ {0}
       /\ snapshots[a] \in [DOMAIN snapshots[a] -> AccountState]
       /\ DOMAIN snapshots[a] \subseteq Nat
       /\ decided[a] \in [DOMAIN decided[a] -> Nat]
  /\ task \in [Tasks -> Task]
  /\ locked \subseteq Requests

\* The versions of an account are 1..n without a hole, whatever appends race
\* or fail between reading MAX(version) and the commit (_appendEvent).
VersionsGapless ==
  \A a \in Accounts : DOMAIN events[a] = 1 .. LastVersion(events[a])

\* No request is ever refused by the unique index on (aggregate_id, version):
\* the advisory lock, also when two accounts share its key, keeps the version
\* an append has read free until it commits.
NoVersionConflict ==
  \A r \in Requests :
    task[Http(r)].status = "conflict" => task[Http(r)].op.kind = "snapshot"

\* Every saved snapshot is the replay of the log up to its version, although
\* it was computed from an older snapshot and two queries that other commits
\* may separate (takeSnapshot, _loadState).
SnapshotsAreReplays ==
  \A a \in Accounts : \A v \in DOMAIN snapshots[a] :
    /\ v \in DOMAIN events[a]
    /\ snapshots[a][v] = ReplayTo(events[a], v)

\* Every state a task has loaded, by a snapshot or by time travel, is the
\* replay of a prefix of the log, and stays one: the same version of an
\* account never shows two different states.
LoadsAreReplays ==
  \A t \in Tasks :
    LET log == events[task[t].op.acct]  state == task[t].state
    IN  /\ state.version <= LastVersion(log)
        /\ state = ReplayTo(log, state.version)

\* An answer with a state contains every event that was committed when its
\* (last) load began, up to the version asked for if it is a time travel, and
\* a command's answer contains the event of that command.
AnswersAreFresh ==
  \A t \in Tasks :
    LET self == task[t]
        due  == IF self.op.kind = "stateAt" THEN Min({self.op.arg, self.floor})
                ELSE Max({self.floor, self.version})
    IN  (self.status = "ok" /\ self.op.kind # "open") => self.state.version >= due

\* A command that was answered with success.
Answered(r) == task[Http(r)].status = "ok" /\ task[Http(r)].op.kind \in CommandKinds

\* Every command that was answered with success has its own event in the log,
\* whatever failed or raced: no answer before the commit, no event lost, no
\* event shared by two commands (openAccount .. closeAccount, _appendEvent).
AnsweredCommandsAreLogged ==
  \A q \in Requests : Answered(q) =>
    LET self == task[Http(q)]  log == events[self.op.acct]
    IN  /\ self.version \in DOMAIN log
        /\ log[self.version] = EventOf(self.op)
        /\ \A r \in Requests \ {q} :
             Answered(r) /\ task[Http(r)].op.acct = self.op.acct
               => task[Http(r)].version # self.version

\* What an event needs of the state before it: an opening is the first event,
\* any other finds the account opened and not closed, a withdrawal is covered.
LegalAfter(state, event) ==
  IF event.type = "AccountOpened" THEN state.version = 0
  ELSE /\ state.version > 0
       /\ state.status = "open"
       /\ event.type = "MoneyWithdrawn" => state.balance >= event.amount

\* Every event in the log was legal at the version its command was checked
\* against, which is older than the event (deposit, withdraw, closeAccount).
EventsWereLegalWhenChecked ==
  \A a \in Accounts : \A v \in DOMAIN events[a] :
    /\ decided[a][v] < v
    /\ LegalAfter(ReplayTo(events[a], decided[a][v]), events[a][v])

\* "Withdraw money -- validate balance, append" (account.service.ts:109): the
\* balance of an account never becomes negative.
NoOverdraft ==
  \A a \in Accounts : ReplayEvents(events[a]).balance >= 0

\* Once the snapshot job of a threshold version has ended without a failure,
\* a snapshot exists that lacks at most that one event: the job is started
\* before the commit and may load the state without it (_appendEvent).
AutoSnapshotLagsByOneAtMost ==
  \A r \in Requests :
    LET job == task[Job(r)]  append == task[Http(r)]
    IN  job.status \in {"ok", "conflict"}
          => \E v \in DOMAIN snapshots[job.op.acct] : v >= append.version - 1

\* The rows of an account, read as a sequence, are an append-only log: each
\* step appends at most one event at the end of one log, and nothing is ever
\* changed or removed (event-record.entity.ts, "NEVER update or delete").
Log == INSTANCE AppendOnlyLog WITH log <- events, Event <- RecordedEvent
ImplementsLog == Log!Spec

\* Every request is answered and every snapshot job ends: no transaction
\* keeps the advisory lock, no task waits for ever.
EveryTaskEnds ==
  \A t \in Tasks : (task[t].pc # "idle") ~> (task[t].pc = "done")
=============================================================================
