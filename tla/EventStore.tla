----------------------------- MODULE EventStore ------------------------------
(***************************************************************************)
(* Lesson 7, 7-event-sourcing/event-store-service: the account service as  *)
(* concurrent tasks over one Postgres database.                            *)
(*                                                                         *)
(* A task is one asynchronous computation of the Node process: an HTTP     *)
(* request, or the snapshot job that an append starts and does not await.  *)
(* Every await of the source is a point where the other tasks may run; the *)
(* code between two awaits is one action.                                  *)
(*                                                                         *)
(* events[a] and snapshots[a] are the COMMITTED rows of the two tables for *)
(* account a, keyed by version (the unique index of each table).  A row    *)
(* inserted by an open transaction is visible to nobody else, so it only   *)
(* appears in events at the commit.  The service holds no state of its     *)
(* own: when the process dies every unfinished task fails, and the restart *)
(* finds the tables as they are committed.                                 *)
(***************************************************************************)
EXTENDS AccountProjection, FiniteSets

CONSTANTS
  Accounts,           \* the account ids that openAccount may generate
  Requests,           \* HTTP requests, each served once
  Kinds,              \* the kinds of request the clients send
  InitialBalances,    \* initialBalance of OpenAccountCommand, @Min(0)
  Amounts,            \* amount of a deposit or a withdrawal, @IsPositive
  Versions,           \* the version asked of state-at/:version, any integer
  SNAPSHOT_THRESHOLD,
  MaxFailures,        \* bound of the model: no failure once so many tasks failed
  HashAggregateId     \* advisory lock key of an account; keys may collide

ASSUME InputsAssumption ==
  /\ InitialBalances \subseteq Nat
  /\ Amounts \subseteq Nat \ {0}
  /\ Versions \subseteq Int
  /\ Kinds \subseteq {"open", "deposit", "withdraw", "close",
                      "get", "log", "stateAt", "snapshot", "rebuild"}
ASSUME BoundsAssumption == SNAPSHOT_THRESHOLD \in Nat \ {0} /\ MaxFailures \in Nat
ASSUME HashAssumption == HashAggregateId \in [Accounts -> Int]
ASSUME AccountsAssumption == Accounts # {}

VARIABLES
  events,     \* events[a][v]: the committed event rows
  snapshots,  \* snapshots[a][v]: the account_snapshots rows
  task,       \* what each request and each snapshot job is doing
  locked,     \* requests whose transaction holds its advisory lock
  decided     \* history: decided[a][v] is the version of the state that
              \* event v was checked against

vars == <<events, snapshots, task, locked, decided>>

Http(r) == <<r, "http">>
Job(r) == <<r, "auto">>
Tasks == Requests \X {"http", "auto"}

CommandKinds == {"open", "deposit", "withdraw", "close"}
AllKinds == CommandKinds \cup {"get", "log", "stateAt", "snapshot", "rebuild"}

\* arg is initialBalance, amount or version; 0 when the request has none.
Operation == [kind : AllKinds, acct : Accounts, arg : Int]

Places == {"idle", "readSnapshot", "readEvents", "readLog", "append", "insert",
           "commit", "findSnapshot", "saveSnapshot", "listAccounts", "rebuild",
           "done"}
Statuses == {"pending", "ok", "rejected", "not_found", "conflict", "failed"}

Task == [ pc : Places, op : Operation,
          base : AccountState,     \* snapshot a load starts from
          state : AccountState,    \* the last state loaded
          version : Nat,           \* nextVersion of the append, 0 before it
          floor : Nat,             \* history: last version when the load began
          todo : SUBSET Accounts,  \* accounts a rebuild has not loaded yet
          status : Statuses ]

AnyOperation == [kind |-> "get", acct |-> CHOOSE a \in Accounts : TRUE, arg |-> 0]
IdleTask == [ pc |-> "idle", op |-> AnyOperation, base |-> EmptyAccountState,
              state |-> EmptyAccountState, version |-> 0, floor |-> 0,
              todo |-> {}, status |-> "pending" ]

\* A row added to a table keyed by version.
Insert(table, version, row) ==
  [v \in DOMAIN table \cup {version} |-> IF v = version THEN row ELSE table[v]]
NoRows == [v \in {} |-> EmptyAccountState]

Init ==
  /\ events = [a \in Accounts |-> NoRows]
  /\ snapshots = [a \in Accounts |-> NoRows]
  /\ task = [t \in Tasks |-> IdleTask]
  /\ locked = {}
  /\ decided = [a \in Accounts |-> NoRows]

-----------------------------------------------------------------------------
(* The arrival of a request: the controller's handlers.                    *)

Start(r, op, place) ==
  /\ task[Http(r)].pc = "idle"
  /\ op.kind \in Kinds
  /\ task' = [task EXCEPT ![Http(r)] = [IdleTask EXCEPT !.pc = place, !.op = op]]
  /\ UNCHANGED <<events, snapshots, locked, decided>>

\* openAccount draws a random account id: nobody has used it before.
Unused(a) ==
  /\ DOMAIN events[a] = {}
  /\ \A t \in Tasks : task[t].op.kind = "open" => task[t].op.acct # a

OpenAccount(r) ==
  \E a \in Accounts, n \in InitialBalances :
    /\ Unused(a)
    /\ Start(r, [kind |-> "open", acct |-> a, arg |-> n], "append")

\* Deposit, withdraw, close, GET accounts/:id and POST snapshots begin by
\* loading the state; the id in the path may be one that does not exist.
LoadAccount(r) ==
  \E a \in Accounts :
    \/ \E kind \in {"deposit", "withdraw"}, n \in Amounts :
         Start(r, [kind |-> kind, acct |-> a, arg |-> n], "readSnapshot")
    \/ \E kind \in {"close", "get", "snapshot"} :
         Start(r, [kind |-> kind, acct |-> a, arg |-> 0], "readSnapshot")

AskLog(r) ==
  \E a \in Accounts : Start(r, [kind |-> "log", acct |-> a, arg |-> 0], "readLog")

AskStateAt(r) ==
  \E a \in Accounts, v \in Versions :
    Start(r, [kind |-> "stateAt", acct |-> a, arg |-> v], "readLog")

AskRebuild(r) ==
  Start(r, [AnyOperation EXCEPT !.kind = "rebuild"], "listAccounts")

AccountController(r) ==
  OpenAccount(r) \/ LoadAccount(r) \/ AskLog(r) \/ AskStateAt(r) \/ AskRebuild(r)

-----------------------------------------------------------------------------
(* _loadState: the latest snapshot, then the events, in two queries.       *)

LatestSnapshot(a) ==
  IF DOMAIN snapshots[a] = {} THEN EmptyAccountState
  ELSE snapshots[a][Max(DOMAIN snapshots[a])]

ReadSnapshot(t) ==
  LET a == task[t].op.acct
  IN  /\ task[t].pc = "readSnapshot"
      /\ task' = [task EXCEPT ![t].pc = "readEvents",
                              ![t].base = LatestSnapshot(a),
                              ![t].floor = LastVersion(events[a])]
      /\ UNCHANGED <<events, snapshots, locked, decided>>

\* Faulty: only the balance is checked.
RefusesOverdraftsOnly(op, state) == op.kind = "withdraw" /\ state.balance < op.arg

\* The checks of deposit, withdraw and closeAccount on the loaded state.
Refuses(op, state) ==
  \/ state.status = "closed"
  \/ op.kind = "withdraw" /\ state.balance < op.arg

\* Where a task goes once its state is loaded.
Answer(self, status) ==
  [self EXCEPT !.pc = "done", !.status = status, !.base = EmptyAccountState]
\* Faulty: a refused command loads again until it can be accepted.
AfterLoadRetries(self) ==
  CASE self.op.kind = "get" \/ self.version > 0 -> Answer(self, "ok")
    [] self.op.kind = "snapshot" -> [self EXCEPT !.pc = "findSnapshot"]
    [] self.op.kind = "rebuild"  -> [self EXCEPT !.pc = "rebuild"]
    [] OTHER -> [self EXCEPT !.pc = IF Refuses(self.op, self.state) THEN "readSnapshot"
                                    ELSE "append"]
AfterLoad(self) ==
  CASE self.op.kind = "get" \/ self.version > 0 -> Answer(self, "ok")
    [] self.op.kind = "snapshot" -> [self EXCEPT !.pc = "findSnapshot"]
    [] self.op.kind = "rebuild"  -> [self EXCEPT !.pc = "rebuild"]
    [] OTHER -> IF Refuses(self.op, self.state) THEN Answer(self, "rejected")
                ELSE [self EXCEPT !.pc = "append"]

\* Faulty: the events after the snapshot are folded onto the state that the
\* task loaded before its own append.
ReadEventsOntoOldState(t) ==
  LET self  == task[t]
      log   == events[self.op.acct]
      start == IF self.state.version = 0 THEN self.base ELSE self.state
  IN  /\ self.pc = "readEvents"
      /\ task' = [task EXCEPT ![t] =
                    IF DOMAIN log = {} /\ self.base.version = 0
                    THEN Answer(self, "not_found")
                    ELSE AfterLoad([self EXCEPT
                           !.state = FoldRows(start, log, self.base.version, LastVersion(log)),
                           !.base = EmptyAccountState])]
      /\ UNCHANGED <<events, snapshots, locked, decided>>

ReadEvents(t) ==
  LET self == task[t]
      log  == events[self.op.acct]
  IN  /\ self.pc = "readEvents"
      /\ task' = [task EXCEPT ![t] =
                    IF DOMAIN log = {} /\ self.base.version = 0
                    THEN Answer(self, "not_found")
                    ELSE AfterLoad([self EXCEPT !.state = ReplayFrom(self.base, log),
                                                !.base = EmptyAccountState])]
      /\ UNCHANGED <<events, snapshots, locked, decided>>

\* getStateAtVersion and getEventLog: one query, the slice up to the version
\* or all rows, no snapshot.  The rows that GET events answers with are
\* recorded by the state they fold into.
Wanted(op, log) == IF op.kind = "log" THEN LastVersion(log) ELSE op.arg

ReadLog(t) ==
  LET self == task[t]
      log  == events[self.op.acct]
      last == Wanted(self.op, log)
  IN  /\ self.pc = "readLog"
      /\ task' = [task EXCEPT ![t] =
                    IF \A v \in DOMAIN log : v > last
                    THEN Answer(self, "not_found")
                    ELSE Answer([self EXCEPT !.state = ReplayTo(log, last),
                                             !.floor = LastVersion(log)], "ok")]
      /\ UNCHANGED <<events, snapshots, locked, decided>>

\* rebuildAllProjections lists the accounts once, then loads one at a time.
ListAccounts(t) ==
  /\ task[t].pc = "listAccounts"
  /\ task' = [task EXCEPT ![t].pc = "rebuild",
                          ![t].todo = {a \in Accounts : DOMAIN events[a] # {}}]
  /\ UNCHANGED <<events, snapshots, locked, decided>>

RebuildNext(t) ==
  /\ task[t].pc = "rebuild"
  /\ \/ \E a \in task[t].todo :
          task' = [task EXCEPT ![t].pc = "readSnapshot", ![t].op.acct = a,
                               ![t].todo = @ \ {a},
                               ![t].state = EmptyAccountState, ![t].floor = 0]
     \/ /\ task[t].todo = {}
        /\ task' = [task EXCEPT ![t] = Answer(@, "ok")]
  /\ UNCHANGED <<events, snapshots, locked, decided>>

-----------------------------------------------------------------------------
(* _appendEvent: one transaction under an advisory lock.                   *)

EventOf(op) ==
  CASE op.kind = "open"     -> [type |-> "AccountOpened", amount |-> op.arg]
    [] op.kind = "deposit"  -> [type |-> "MoneyDeposited", amount |-> op.arg]
    [] op.kind = "withdraw" -> [type |-> "MoneyWithdrawn", amount |-> op.arg]
    [] op.kind = "close"    -> [type |-> "AccountClosed", amount |-> 0]

\* The events the commands of this instance can append.
RecordedEvent == [type : EventTypes, amount : InitialBalances \cup Amounts \cup {0}]

\* Faulty: no lock is taken.
NoLock(a) == TRUE

\* pg_advisory_xact_lock waits while another transaction holds the same key.
LockFree(a) ==
  \A r \in locked : HashAggregateId[task[Http(r)].op.acct] # HashAggregateId[a]

\* Faulty: MAX(version) without the increment.
SameVersion(a) == LastVersion(events[a])

\* Faulty: a sequence, which a rollback does not take back.
VersionFromSequence(a) == 1 + Cardinality({r \in Requests : task[Http(r)].version > 0})

\* Faulty: MAX(version) over the rows of all aggregates.
VersionOfAllAggregates(a) == Max({LastVersion(events[b]) : b \in Accounts}) + 1

NextVersion(a) == LastVersion(events[a]) + 1

LockAndReadVersion(r) ==
  LET self == task[Http(r)]
  IN  /\ self.pc = "append"
      /\ LockFree(self.op.acct)
      /\ locked' = locked \cup {r}
      /\ task' = [task EXCEPT ![Http(r)].pc = "insert",
                              ![Http(r)].version = NextVersion(self.op.acct)]
      /\ UNCHANGED <<events, snapshots, decided>>

\* The unique index makes an insert wait for a transaction that has inserted
\* the same version and not finished, and refuses a version that is committed.
InsertWaits(r) ==
  \E q \in Requests \ {r} :
    LET mine == task[Http(r)]  theirs == task[Http(q)]
    IN  /\ theirs.pc = "commit"
        /\ theirs.op.acct = mine.op.acct
        /\ theirs.version = mine.version

\* The insert, and the snapshot job that is started before the commit.
StartAutoSnapshot(r) ==
  LET self == task[Http(r)]
  IN  IF self.version % SNAPSHOT_THRESHOLD = 0
      THEN [IdleTask EXCEPT !.pc = "readSnapshot",
                            !.op = [kind |-> "snapshot", acct |-> self.op.acct,
                                    arg |-> 0]]
      ELSE task[Job(r)]

InsertEvent(r) ==
  LET self == task[Http(r)]
      duplicate == self.version \in DOMAIN events[self.op.acct]
  IN  /\ self.pc = "insert"
      /\ ~ InsertWaits(r)
      /\ task' = IF duplicate
                 THEN [task EXCEPT ![Http(r)] = Answer(self, "conflict")]
                 ELSE [task EXCEPT ![Http(r)].pc = "commit",
                                   ![Job(r)] = StartAutoSnapshot(r)]
      /\ locked' = IF duplicate THEN locked \ {r} ELSE locked
      /\ UNCHANGED <<events, snapshots, decided>>

\* Faulty: the command answers with the state it loaded before the append.
CommitWithoutReload(r) ==
  LET self == task[Http(r)]
      a    == self.op.acct
  IN  /\ self.pc = "commit"
      /\ events' = [events EXCEPT ![a] = Insert(@, self.version, EventOf(self.op))]
      /\ decided' = [decided EXCEPT ![a] = Insert(@, self.version, self.state.version)]
      /\ locked' = locked \ {r}
      /\ task' = [task EXCEPT ![Http(r)] = Answer(self, "ok")]
      /\ UNCHANGED snapshots

\* The commit publishes the row and frees the lock.  openAccount answers with
\* the id; the other commands load the state again for their answer.
CommitEvent(r) ==
  LET self == task[Http(r)]
      a    == self.op.acct
  IN  /\ self.pc = "commit"
      /\ events' = [events EXCEPT ![a] = Insert(@, self.version, EventOf(self.op))]
      /\ decided' = [decided EXCEPT ![a] = Insert(@, self.version, self.state.version)]
      /\ locked' = locked \ {r}
      /\ task' = [task EXCEPT ![Http(r)] =
                    IF self.op.kind = "open" THEN Answer(self, "ok")
                    ELSE [self EXCEPT !.pc = "readSnapshot"]]
      /\ UNCHANGED snapshots

-----------------------------------------------------------------------------
(* takeSnapshot after its load, for POST snapshots and for the auto job.   *)

\* Faulty: only multiples of the threshold are saved.
FindSnapshotAtThreshold(t) ==
  LET self == task[t]
  IN  /\ self.pc = "findSnapshot"
      /\ task' = [task EXCEPT ![t] =
                    IF self.state.version % SNAPSHOT_THRESHOLD # 0
                    THEN Answer(self, "ok")
                    ELSE [self EXCEPT !.pc = "saveSnapshot"]]
      /\ UNCHANGED <<events, snapshots, locked, decided>>

FindSnapshot(t) ==
  LET self == task[t]
  IN  /\ self.pc = "findSnapshot"
      /\ task' = [task EXCEPT ![t] =
                    IF self.state.version \in DOMAIN snapshots[self.op.acct]
                    THEN Answer(self, "ok")
                    ELSE [self EXCEPT !.pc = "saveSnapshot"]]
      /\ UNCHANGED <<events, snapshots, locked, decided>>

\* Faulty: the row gets the current version of the account, not the version
\* of the state it holds.
SaveSnapshotAsCurrent(t) ==
  LET self == task[t]
      a    == self.op.acct
      v    == LastVersion(events[a])
  IN  /\ self.pc = "saveSnapshot"
      /\ \/ /\ v \notin DOMAIN snapshots[a]
            /\ snapshots' = [snapshots EXCEPT ![a] = Insert(@, v, self.state)]
            /\ task' = [task EXCEPT ![t] = Answer(@, "ok")]
         \/ /\ v \in DOMAIN snapshots[a]
            /\ task' = [task EXCEPT ![t] = Answer(@, "conflict")]
            /\ UNCHANGED snapshots
      /\ UNCHANGED <<events, locked, decided>>

\* The save, unless another task has saved that version since the findOne.
SaveSnapshot(t) ==
  LET self == task[t]
      a    == self.op.acct
  IN  /\ self.pc = "saveSnapshot"
      /\ \/ /\ self.state.version \notin DOMAIN snapshots[a]
            /\ snapshots' = [snapshots EXCEPT ![a] = Insert(@, self.state.version, self.state)]
            /\ task' = [task EXCEPT ![t] = Answer(@, "ok")]
         \/ /\ self.state.version \in DOMAIN snapshots[a]
            /\ task' = [task EXCEPT ![t] = Answer(@, "conflict")]
            /\ UNCHANGED snapshots
      /\ UNCHANGED <<events, locked, decided>>

-----------------------------------------------------------------------------
(* A query fails, the connection breaks or the process dies: the task ends *)
(* without an answer and Postgres rolls its open transaction back.         *)

Unfinished == {t \in Tasks : task[t].pc \notin {"idle", "done"}}

\* Faulty: the error of a task is caught, logged and answered like a success.
StopUnnoticed(self) == Answer(self, "ok")

Stop(self) == Answer(self, "failed")

Fail(stopped) ==
  /\ stopped # {}
  /\ Cardinality({t \in Tasks : task[t].status = "failed"}) < MaxFailures
  /\ task' = [t \in Tasks |-> IF t \in stopped THEN Stop(task[t]) ELSE task[t]]
  /\ locked' = {r \in locked : Http(r) \notin stopped}
  /\ UNCHANGED <<events, snapshots, decided>>

TaskFails == \E t \in Unfinished : Fail({t})

\* The process dies and is started again: nobody waits for the old tasks.
Bootstrap == Fail(Unfinished)

\* Every request has been served: nothing is left to do.
AllServed ==
  /\ \A t \in Tasks : task[t].pc \in {"idle", "done"}
  /\ \A r \in Requests : task[Http(r)].pc = "done"
  /\ UNCHANGED vars

AppendEvent(r) == LockAndReadVersion(r) \/ InsertEvent(r) \/ CommitEvent(r)

Load(t) == ReadSnapshot(t) \/ ReadEvents(t)

RebuildAll(t) == ListAccounts(t) \/ RebuildNext(t)

TakeSnapshot(t) == FindSnapshot(t) \/ SaveSnapshot(t)

AccountService(t) == Load(t) \/ ReadLog(t) \/ RebuildAll(t) \/ TakeSnapshot(t)

Next ==
  \/ \E r \in Requests : AccountController(r) \/ AppendEvent(r)
  \/ \E t \in Tasks : AccountService(t)
  \/ TaskFails
  \/ Bootstrap
  \/ AllServed

Spec == Init /\ [][Next]_vars

\* The Node event loop runs every task whose query has returned, and Postgres
\* hands a freed lock to a waiting transaction.  Nothing obliges a client to
\* send a request or a query to fail.
Fairness ==
  /\ \A r \in Requests : SF_vars(AppendEvent(r))
  /\ \A t \in Tasks : WF_vars(AccountService(t))

FairSpec == Spec /\ Fairness
=============================================================================
