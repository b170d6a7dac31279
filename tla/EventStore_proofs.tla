-------------------------- MODULE EventStore_proofs --------------------------
(***************************************************************************)
(* Theorems about the event store of lesson 7, for any number of requests  *)
(* and accounts, any hash, any threshold and any number of failures.       *)
(***************************************************************************)
EXTENDS EventStoreProps, AccountProjection_proofs, SequenceTheorems

(* Facts about logs.                                                       *)

\* The rows of a well-formed log: events at the versions 1 .. n.
IsLog(log) ==
  /\ LastVersion(log) \in Nat
  /\ DOMAIN log = 1 .. LastVersion(log)
  /\ log \in [DOMAIN log -> Event]

\* A state is what the log gives at the version of the state.
Replayed(log, state) ==
  /\ state.version <= LastVersion(log)
  /\ state = ReplayTo(log, state.version)

\* ReplayTo on a well-formed log.
LEMMA ReplayToIsFold ==
  ASSUME NEW log, IsLog(log), NEW v \in Nat, v <= LastVersion(log)
  PROVE  ReplayTo(log, v) = FoldRows(EmptyAccountState, log, 0, v)
<1>1. Min({v, LastVersion(log)}) = v
  BY MinOfTwo DEF IsLog
<1> QED BY <1>1 DEF ReplayTo

\* The state before any event is the replay of no event.
LEMMA EmptyIsReplayed ==
  ASSUME NEW log, IsLog(log)
  PROVE  EmptyAccountState \in AccountState /\ Replayed(log, EmptyAccountState)
<1>1. EmptyAccountState \in AccountState /\ EmptyAccountState.version = 0
  BY DEF EmptyAccountState, AccountState
<1>2. ReplayTo(log, 0) = FoldRows(EmptyAccountState, log, 0, 0)
  BY ReplayToIsFold DEF IsLog
<1>3. FoldRows(EmptyAccountState, log, 0, 0) = EmptyAccountState
  BY FoldEmpty
<1> QED BY <1>1, <1>2, <1>3 DEF Replayed, IsLog

\* The replay up to an existing version is a state with that version.
LEMMA ReplayToType ==
  ASSUME NEW log, IsLog(log), NEW v \in Nat, v <= LastVersion(log)
  PROVE  /\ ReplayTo(log, v) \in AccountState
         /\ ReplayTo(log, v).version = v
         /\ Replayed(log, ReplayTo(log, v))
<1>1. EmptyAccountState \in AccountState /\ EmptyAccountState.version = 0
  BY DEF EmptyAccountState, AccountState
<1>2. 0 + 1 .. v \subseteq DOMAIN log /\ \A w \in DOMAIN log : log[w] \in Event
  BY DEF IsLog
<1>3. /\ FoldRows(EmptyAccountState, log, 0, v) \in AccountState
      /\ FoldRows(EmptyAccountState, log, 0, v).version = v
  BY <1>1, <1>2, FoldType
<1> QED BY <1>3, ReplayToIsFold DEF Replayed

\* A load from any snapshot that is a replay gives the replay of all events.
LEMMA LoadIsReplay ==
  ASSUME NEW log, IsLog(log), NEW base \in AccountState, Replayed(log, base)
  PROVE  ReplayFrom(base, log) = ReplayTo(log, LastVersion(log))
<1> DEFINE n == LastVersion(log)
<1>1. n \in Nat /\ base.version \in Nat /\ base.version <= n
  BY DEF IsLog, Replayed, AccountState
<1>2. Max({base.version, n}) = n
  BY <1>1, MaxOfTwo
<1>3. base = FoldRows(EmptyAccountState, log, 0, base.version)
  BY <1>1, ReplayToIsFold DEF Replayed
<1>4. FoldRows(base, log, base.version, n) = FoldRows(EmptyAccountState, log, 0, n)
  BY <1>1, <1>3, FoldResumes
<1>5. ReplayTo(log, n) = FoldRows(EmptyAccountState, log, 0, n)
  BY <1>1, ReplayToIsFold
<1> QED BY <1>2, <1>4, <1>5 DEF ReplayFrom

\* Appending the next version keeps the log well formed and every state that
\* the log gave before.
LEMMA InsertNext ==
  ASSUME NEW log, IsLog(log), NEW event \in Event
  PROVE  LET new == Insert(log, LastVersion(log) + 1, event)
         IN  /\ IsLog(new)
             /\ LastVersion(new) = LastVersion(log) + 1
             /\ new[LastVersion(log) + 1] = event
             /\ \A v \in DOMAIN log : new[v] = log[v]
             /\ \A v \in 0 .. LastVersion(log) : ReplayTo(new, v) = ReplayTo(log, v)
<1> DEFINE n == LastVersion(log)
           new == Insert(log, n + 1, event)
<1>1. n \in Nat /\ DOMAIN log = 1 .. n /\ \A v \in 1 .. n : log[v] \in Event
  BY DEF IsLog
<1>2. DOMAIN new = 1 .. n + 1
  BY <1>1 DEF Insert
<1>3. new[n + 1] = event /\ \A v \in 1 .. n : new[v] = log[v]
  BY <1>1 DEF Insert
<1>4. LastVersion(new) = n + 1
  BY <1>1, <1>2, LastVersionOfRange
<1>5. IsLog(new)
  <2>1. new = [v \in 1 .. n + 1 |-> new[v]]
    BY <1>2 DEF Insert
  <2>2. \A v \in 1 .. n + 1 : new[v] \in Event
    BY <1>1, <1>3
  <2> HIDE DEF new
  <2> QED BY <1>1, <1>2, <1>4, <2>1, <2>2 DEF IsLog
<1>6. ASSUME NEW v \in 0 .. n
      PROVE  ReplayTo(new, v) = ReplayTo(log, v)
  <2> HIDE DEF new
  <2>1. SameRows(new, log, 0, v)
    BY <1>1, <1>2, <1>3 DEF SameRows
  <2>2. FoldRows(EmptyAccountState, new, 0, v) = FoldRows(EmptyAccountState, log, 0, v)
    BY <1>1, <2>1, FoldSameRows
  <2>3. ReplayTo(new, v) = FoldRows(EmptyAccountState, new, 0, v)
    BY <1>1, <1>4, <1>5, ReplayToIsFold
  <2>4. ReplayTo(log, v) = FoldRows(EmptyAccountState, log, 0, v)
    BY <1>1, ReplayToIsFold
  <2> QED BY <2>2, <2>3, <2>4
<1> HIDE DEF new, n
<1>7. /\ IsLog(new)
      /\ LastVersion(new) = n + 1
      /\ new[n + 1] = event
      /\ \A v \in DOMAIN log : new[v] = log[v]
      /\ \A v \in 0 .. n : ReplayTo(new, v) = ReplayTo(log, v)
  BY <1>1, <1>3, <1>4, <1>5, <1>6
<1> QED BY <1>7 DEF new, n

\* A set of versions that is not empty has a greatest one.
LEMMA MaxExists ==
  ASSUME NEW n \in Nat, NEW S \in SUBSET (1 .. n), S # {}
  PROVE  Max(S) \in S
<1> DEFINE T == {k \in Nat : \A U \in SUBSET (1 .. k) :
                               U # {} => \E x \in U : \A y \in U : x >= y}
<1>1. 0 \in T
  <2>1. 1 .. 0 = {}
    OBVIOUS
  <2>2. \A U \in SUBSET (1 .. 0) : U = {}
    BY <2>1
  <2> QED BY <2>2
<1>2. ASSUME NEW k \in Nat, k \in T
      PROVE  k + 1 \in T
  <2>1. SUFFICES ASSUME NEW U \in SUBSET (1 .. k + 1), U # {}
                 PROVE  \E x \in U : \A y \in U : x >= y
    OBVIOUS
  <2>2. CASE k + 1 \in U
    BY <2>2
  <2>3. CASE k + 1 \notin U
    <3>1. U \in SUBSET (1 .. k)
      BY <2>3
    <3> QED BY <1>2, <2>1, <3>1
  <2> QED BY <2>2, <2>3
<1>3. \A k \in Nat : k \in T
  <2> HIDE DEF T
  <2> QED BY <1>1, <1>2, SetInduction
<1>4. \E x \in S : \A y \in S : x >= y
  BY <1>3
<1> QED BY <1>4 DEF Max

-----------------------------------------------------------------------------
(* The inductive invariant.  The tables alone are not inductive: that the  *)
(* next row is legal and gets the next version depends on what the task    *)
(* that inserts it has read, and that depends on the lock it holds.        *)

InTransaction(self) == self.pc \in {"insert", "commit"}
Loading(self) == self.pc \in {"readSnapshot", "readEvents"}

\* Where a task can be, given what it was asked to do.
ControlInv(t, self) ==
  /\ self.pc \in {"append", "insert", "commit"} => self.op.kind \in CommandKinds
  /\ self.op.kind \in CommandKinds => t = Http(t[1])
  /\ self.pc \in {"findSnapshot", "saveSnapshot"} =>
       self.op.kind = "snapshot" /\ self.state.version > 0
  /\ Loading(self) => self.op.kind \notin {"open", "log", "stateAt"}
  /\ self.pc = "readLog" => self.op.kind \in {"log", "stateAt"}
  /\ self.pc \in {"listAccounts", "rebuild"} => self.op.kind = "rebuild"
  /\ self.op.kind \in {"open", "deposit", "withdraw"} => self.op.arg \in Nat
  /\ self.pc # "readEvents" => self.base = EmptyAccountState
  /\ self.status # "pending" => self.pc = "done"
  /\ self.status = "conflict" => self.op.kind = "snapshot"

\* A transaction holds its lock, and nobody else does.
HoldsLock(t, self) == InTransaction(self) <=> (t = Http(t[1]) /\ t[1] \in locked)

\* What a task has read of its account.
ReadInv(self) ==
  LET log == events[self.op.acct]
  IN  /\ Replayed(log, self.base)
      /\ Replayed(log, self.state)
      /\ self.floor <= LastVersion(log)
      /\ InTransaction(self) => self.version = LastVersion(log) + 1
      /\ Loading(self) => self.version <= LastVersion(log)
      /\ self.op.kind \notin CommandKinds => self.version = 0
      /\ self.pc \in {"append", "insert", "commit"} =>
           LegalAfter(self.state, EventOf(self.op))

\* What a task answers with.
Due(self) ==
  IF self.op.kind = "stateAt" THEN Min({self.op.arg, self.floor})
  ELSE Max({self.floor, self.version})
AnswerInv(self) ==
  /\ self.pc \in {"listAccounts", "rebuild", "findSnapshot", "saveSnapshot"} =>
       self.state.version >= self.floor
  /\ (self.status = "ok" /\ self.op.kind # "open") => self.state.version >= Due(self)

TaskInv(t, self) ==
  /\ self \in Task
  /\ ControlInv(t, self)
  /\ HoldsLock(t, self)
  /\ ReadInv(self)
  /\ AnswerInv(self)

LogsInv == DOMAIN events = Accounts /\ \A a \in Accounts : IsLog(events[a])

SnapshotsInv ==
  /\ DOMAIN snapshots = Accounts
  /\ \A a \in Accounts : \A v \in DOMAIN snapshots[a] :
       /\ v \in DOMAIN events[a]
       /\ snapshots[a][v] \in AccountState
       /\ snapshots[a][v].version = v
       /\ Replayed(events[a], snapshots[a][v])
  /\ \A a \in Accounts : snapshots[a] = [v \in DOMAIN snapshots[a] |-> snapshots[a][v]]

DecidedInv ==
  /\ DOMAIN decided = Accounts
  /\ \A a \in Accounts :
       /\ DOMAIN decided[a] = DOMAIN events[a]
       /\ decided[a] \in [DOMAIN decided[a] -> Nat]
       /\ \A v \in DOMAIN events[a] :
            /\ decided[a][v] < v
            /\ LegalAfter(ReplayTo(events[a], decided[a][v]), events[a][v])

\* Two open transactions never share a lock key.
LocksInv ==
  /\ locked \subseteq Requests
  /\ \A q, r \in locked :
       q # r => HashAggregateId[task[Http(q)].op.acct]
                  # HashAggregateId[task[Http(r)].op.acct]

TasksInv ==
  /\ task = [t \in Tasks |-> task[t]]
  /\ \A t \in Tasks : TaskInv(t, task[t])

IInv == LogsInv /\ SnapshotsInv /\ DecidedInv /\ LocksInv /\ TasksInv

-----------------------------------------------------------------------------
(* The initial states.                                                     *)

LEMMA NoRowsIsLog == IsLog(NoRows) /\ LastVersion(NoRows) = 0
<1>1. DOMAIN NoRows = 1 .. 0
  BY DEF NoRows
<1>2. LastVersion(NoRows) = 0
  BY <1>1, LastVersionOfRange
<1>3. NoRows = [v \in 1 .. 0 |-> NoRows[v]]
  BY <1>1 DEF NoRows
<1> QED BY <1>1, <1>2, <1>3 DEF IsLog

LEMMA InitIInv == Init => IInv
<1> SUFFICES ASSUME Init PROVE IInv
  OBVIOUS
<1>1. LogsInv
  BY NoRowsIsLog DEF Init, LogsInv
<1>2. SnapshotsInv
  BY DEF Init, SnapshotsInv, NoRows
<1>3. DecidedInv
  BY DEF Init, DecidedInv, NoRows
<1>4. LocksInv
  BY DEF Init, LocksInv
<1>5. TasksInv
  <2>1. task = [t \in Tasks |-> task[t]]
    BY DEF Init
  <2>2. ASSUME NEW t \in Tasks
        PROVE  TaskInv(t, task[t])
    <3> DEFINE self == task[t]
               a == self.op.acct
    <3>1. self = IdleTask
      BY DEF Init
    <3>2. a \in Accounts /\ AnyOperation \in Operation
      BY <3>1, AccountsAssumption DEF IdleTask, AnyOperation, Operation, AllKinds
    <3>3. EmptyAccountState \in AccountState /\ Replayed(events[a], EmptyAccountState)
      BY <1>1, <3>2, EmptyIsReplayed DEF LogsInv
    <3>4. self \in Task
      BY <3>1, <3>2, <3>3 DEF IdleTask, Task, Places, Statuses
    <3>5. ControlInv(t, self)
      BY <3>1 DEF ControlInv, IdleTask, Loading, AnyOperation, CommandKinds
    <3>6. HoldsLock(t, self)
      BY <3>1 DEF HoldsLock, IdleTask, InTransaction, Init
    <3>7. ReadInv(self)
      <4>1. LastVersion(events[a]) = 0
        BY <3>2, NoRowsIsLog DEF Init
      <4> QED BY <3>1, <3>3, <4>1 DEF ReadInv, IdleTask, InTransaction, Loading
    <3>8. AnswerInv(self)
      BY <3>1 DEF AnswerInv, IdleTask
    <3> QED BY <3>4, <3>5, <3>6, <3>7, <3>8 DEF TaskInv
  <2> QED BY <2>1, <2>2 DEF TasksInv
<1> QED BY <1>1, <1>2, <1>3, <1>4, <1>5 DEF IInv

-----------------------------------------------------------------------------
(* Every request is two tasks.                                             *)

LEMMA TaskNames ==
  /\ \A r \in Requests : /\ Http(r) \in Tasks /\ Http(r)[1] = r
                         /\ Job(r) \in Tasks /\ Job(r)[1] = r
  /\ \A q, r : Http(q) # Job(r)
  /\ \A q, r : Http(q) = Http(r) => q = r
  /\ \A t \in Tasks : t[1] \in Requests
BY DEF Http, Job, Tasks

(* Steps of one task that leave the tables and the locks alone.            *)

LEMMA StepTasks ==
  ASSUME IInv, task' = [u \in Tasks |-> task'[u]],
         UNCHANGED <<events, snapshots, locked, decided>>,
         \A u \in Tasks :
           /\ TaskInv(u, task'[u])
           /\ (u = Http(u[1]) /\ u[1] \in locked) => task'[u].op.acct = task[u].op.acct
  PROVE  IInv'
<1>1. LogsInv' /\ DecidedInv'
  BY DEF IInv, LogsInv, DecidedInv
<1>2. SnapshotsInv'
  BY DEF IInv, SnapshotsInv, Replayed
<1>3. \A r \in locked : task'[Http(r)].op.acct = task[Http(r)].op.acct
  BY TaskNames DEF IInv, LocksInv
<1>4. LocksInv'
  BY <1>3 DEF IInv, LocksInv
<1>5. TasksInv'
  <2>1. ASSUME NEW u \in Tasks
        PROVE  TaskInv(u, task[u])'
    <3>1. TaskInv(u, task'[u])
      OBVIOUS
    <3> QED BY <3>1 DEF TaskInv, ControlInv, HoldsLock, ReadInv, AnswerInv,
                        Loading, InTransaction, Due
  <2> QED BY <2>1 DEF TasksInv
<1> QED BY <1>1, <1>2, <1>4, <1>5 DEF IInv

LEMMA StepOneTask ==
  ASSUME IInv, NEW t \in Tasks, NEW new,
         task' = [task EXCEPT ![t] = new],
         UNCHANGED <<events, snapshots, locked, decided>>,
         TaskInv(t, new),
         \/ new.op.acct = task[t].op.acct
         \/ ~ (t = Http(t[1]) /\ t[1] \in locked)
  PROVE  IInv'
<1>1. task' = [u \in Tasks |-> IF u = t THEN new ELSE task[u]]
  BY DEF IInv, TasksInv
<1>2. \A u \in Tasks : TaskInv(u, task[u])
  BY DEF IInv, TasksInv
<1>3. ASSUME NEW u \in Tasks
      PROVE  /\ TaskInv(u, task'[u])
             /\ (u = Http(u[1]) /\ u[1] \in locked) => task'[u].op.acct = task[u].op.acct
  <2>1. CASE u = t
    BY <1>1, <2>1
  <2>2. CASE u # t
    BY <1>1, <1>2, <2>2
  <2> QED BY <2>1, <2>2
<1> QED BY <1>1, <1>3, StepTasks

\* What the invariant says of the account a task works on.
LEMMA TaskFacts ==
  ASSUME IInv, NEW t \in Tasks
  PROVE  /\ task[t] \in Task
         /\ TaskInv(t, task[t])
         /\ task[t].op.acct \in Accounts
         /\ IsLog(events[task[t].op.acct])
         /\ LastVersion(events[task[t].op.acct]) \in Nat
BY DEF IInv, TasksInv, LogsInv, TaskInv, Task, Operation, IsLog

\* An answer ends a task that is in no transaction.
LEMMA AnswerInvariant ==
  ASSUME NEW t \in Tasks, NEW self, TaskInv(t, self), IsLog(events[self.op.acct]),
         ~ InTransaction(self), NEW status \in Statuses,
         status = "conflict" => self.op.kind = "snapshot",
         (status = "ok" /\ self.op.kind # "open") => self.state.version >= Due(self)
  PROVE  TaskInv(t, Answer(self, status)) /\ Answer(self, status).op = self.op
<1> DEFINE new == Answer(self, status)
           a == self.op.acct
<1>1. self \in Task /\ new = [self EXCEPT !.pc = "done", !.status = status,
                                         !.base = EmptyAccountState]
  BY DEF TaskInv, Answer
<1>2. EmptyAccountState \in AccountState /\ Replayed(events[a], EmptyAccountState)
  BY EmptyIsReplayed
<1>3. /\ new \in Task /\ new.op = self.op /\ new.pc = "done" /\ new.status = status
      /\ new.base = EmptyAccountState /\ new.state = self.state
      /\ new.version = self.version /\ new.floor = self.floor
  BY <1>1, <1>2 DEF Task, Places
<1> HIDE DEF new
<1>4. ControlInv(t, new)
  BY <1>3 DEF TaskInv, ControlInv, Loading
<1>5. HoldsLock(t, new)
  BY <1>3 DEF TaskInv, HoldsLock, InTransaction
<1>6. ReadInv(new)
  BY <1>2, <1>3 DEF TaskInv, ReadInv, InTransaction, Loading
<1>7. AnswerInv(new)
  BY <1>3 DEF TaskInv, AnswerInv, Due
<1> QED BY <1>3, <1>4, <1>5, <1>6, <1>7 DEF TaskInv, new

\* A request that arrives.
LEMMA StartInvariant ==
  ASSUME IInv, NEW r \in Requests, NEW op \in Operation, NEW place \in Places,
         Start(r, op, place),
         \/ place = "append" /\ op.kind = "open"
         \/ place = "readSnapshot" /\ op.kind \notin {"open", "log", "stateAt"}
         \/ place = "readLog" /\ op.kind \in {"log", "stateAt"}
         \/ place = "listAccounts" /\ op.kind = "rebuild",
         op.kind \in {"open", "deposit", "withdraw"} => op.arg \in Nat
  PROVE  IInv'
<1> DEFINE new == [IdleTask EXCEPT !.pc = place, !.op = op]
           a == op.acct
<1>1. /\ Http(r) \in Tasks /\ Http(r)[1] = r
      /\ task[Http(r)].pc = "idle"
      /\ task' = [task EXCEPT ![Http(r)] = new]
      /\ UNCHANGED <<events, snapshots, locked, decided>>
  BY TaskNames DEF Start
<1>2. r \notin locked
  BY <1>1, TaskFacts DEF TaskInv, HoldsLock, InTransaction
<1>3. a \in Accounts /\ op.kind \in AllKinds /\ IsLog(events[a]) /\ LastVersion(events[a]) \in Nat
  BY DEF Operation, IInv, LogsInv, IsLog
<1>4. EmptyAccountState \in AccountState /\ Replayed(events[a], EmptyAccountState)
  BY <1>3, EmptyIsReplayed
<1>5. /\ new \in Task /\ new.op = op /\ new.pc = place /\ new.status = "pending"
      /\ new.base = EmptyAccountState /\ new.state = EmptyAccountState
      /\ new.version = 0 /\ new.floor = 0
  BY <1>4 DEF IdleTask, Task, Places, Statuses
<1> HIDE DEF new
<1>6. ControlInv(Http(r), new)
  BY <1>1, <1>5 DEF ControlInv, Loading, CommandKinds
<1>7. HoldsLock(Http(r), new)
  BY <1>1, <1>2, <1>5 DEF HoldsLock, InTransaction
<1>8. ReadInv(new)
  <2>1. place = "append" => LegalAfter(new.state, EventOf(new.op))
    BY <1>5 DEF LegalAfter, EventOf, EmptyAccountState
  <2> QED BY <1>3, <1>4, <1>5, <2>1 DEF ReadInv, InTransaction, Loading
<1>9. AnswerInv(new)
  BY <1>5 DEF AnswerInv, EmptyAccountState
<1>10. TaskInv(Http(r), new)
  BY <1>5, <1>6, <1>7, <1>8, <1>9 DEF TaskInv
<1> QED BY <1>1, <1>2, <1>10, StepOneTask

LEMMA ControllerInvariant ==
  ASSUME IInv, NEW r \in Requests, AccountController(r)
  PROVE  IInv'
<1>1. CASE OpenAccount(r)
  <2>1. PICK a \in Accounts, n \in InitialBalances :
          Start(r, [kind |-> "open", acct |-> a, arg |-> n], "append")
    BY <1>1 DEF OpenAccount
  <2>2. n \in Nat
    BY InputsAssumption
  <2> QED BY <2>1, <2>2, StartInvariant DEF Operation, AllKinds, CommandKinds, Places
<1>2. CASE LoadAccount(r)
  <2>1. ASSUME NEW a \in Accounts, NEW kind \in {"deposit", "withdraw"}, NEW n \in Amounts,
               Start(r, [kind |-> kind, acct |-> a, arg |-> n], "readSnapshot")
        PROVE  IInv'
    <3>1. n \in Nat
      BY InputsAssumption
    <3> QED BY <2>1, <3>1, StartInvariant DEF Operation, AllKinds, CommandKinds, Places
  <2>2. ASSUME NEW a \in Accounts, NEW kind \in {"close", "get", "snapshot"},
               Start(r, [kind |-> kind, acct |-> a, arg |-> 0], "readSnapshot")
        PROVE  IInv'
    BY <2>2, StartInvariant DEF Operation, AllKinds, CommandKinds, Places
  <2> QED BY <1>2, <2>1, <2>2 DEF LoadAccount
<1>3. CASE AskStateAt(r)
  <2>1. PICK a \in Accounts, v \in Versions :
          Start(r, [kind |-> "stateAt", acct |-> a, arg |-> v], "readLog")
    BY <1>3 DEF AskStateAt
  <2>2. v \in Int
    BY InputsAssumption
  <2> QED BY <2>1, <2>2, StartInvariant DEF Operation, AllKinds, CommandKinds, Places
<1>4. CASE AskRebuild(r)
  <2> DEFINE op == [AnyOperation EXCEPT !.kind = "rebuild"]
  <2>1. op \in Operation /\ op.kind = "rebuild"
    <3>1. (CHOOSE a \in Accounts : TRUE) \in Accounts
      BY AccountsAssumption
    <3>2. AnyOperation \in Operation
      BY <3>1 DEF AnyOperation, Operation, AllKinds, CommandKinds
    <3> QED BY <3>2 DEF Operation, AllKinds, CommandKinds
  <2>2. Start(r, op, "listAccounts")
    BY <1>4 DEF AskRebuild
  <2> HIDE DEF op
  <2> QED BY <2>1, <2>2, StartInvariant DEF Places
<1>5. CASE AskLog(r)
  <2>1. PICK a \in Accounts : Start(r, [kind |-> "log", acct |-> a, arg |-> 0], "readLog")
    BY <1>5 DEF AskLog
  <2> QED BY <2>1, StartInvariant DEF Operation, AllKinds, CommandKinds, Places
<1> QED BY <1>1, <1>2, <1>3, <1>4, <1>5 DEF AccountController

-----------------------------------------------------------------------------
(* The steps of a load.                                                    *)

\* The latest snapshot is a replay of the log, like every snapshot.
LEMMA LatestIsReplayed ==
  ASSUME IInv, NEW a \in Accounts
  PROVE  LatestSnapshot(a) \in AccountState /\ Replayed(events[a], LatestSnapshot(a))
<1> DEFINE n == LastVersion(events[a])
<1>1. IsLog(events[a]) /\ n \in Nat /\ DOMAIN events[a] = 1 .. n
  BY DEF IInv, LogsInv, IsLog
<1>2. CASE DOMAIN snapshots[a] = {}
  BY <1>1, <1>2, EmptyIsReplayed DEF LatestSnapshot
<1>3. CASE DOMAIN snapshots[a] # {}
  <2>1. DOMAIN snapshots[a] \subseteq 1 .. n
    BY <1>1 DEF IInv, SnapshotsInv
  <2>2. Max(DOMAIN snapshots[a]) \in DOMAIN snapshots[a]
    BY <1>1, <1>3, <2>1, MaxExists
  <2> QED BY <1>3, <2>2 DEF LatestSnapshot, IInv, SnapshotsInv
<1> QED BY <1>2, <1>3

LEMMA ReadSnapshotInvariant ==
  ASSUME IInv, NEW t \in Tasks, ReadSnapshot(t)
  PROVE  IInv'
<1> DEFINE self == task[t]
           a == self.op.acct
           new == [self EXCEPT !.pc = "readEvents", !.base = LatestSnapshot(a),
                               !.floor = LastVersion(events[a])]
<1>1. /\ self \in Task /\ TaskInv(t, self) /\ a \in Accounts
      /\ IsLog(events[a]) /\ LastVersion(events[a]) \in Nat
  BY TaskFacts
<1>2. LatestSnapshot(a) \in AccountState /\ Replayed(events[a], LatestSnapshot(a))
  BY <1>1, LatestIsReplayed
<1>3. self.pc = "readSnapshot" /\ task' = [task EXCEPT ![t] = new]
  BY <1>1 DEF ReadSnapshot, Task
<1>4. /\ new \in Task /\ new.op = self.op /\ new.pc = "readEvents"
      /\ new.base = LatestSnapshot(a) /\ new.state = self.state
      /\ new.version = self.version /\ new.floor = LastVersion(events[a])
      /\ new.status = self.status
  BY <1>1, <1>2 DEF Task, Places
<1> HIDE DEF new
<1>5. ControlInv(t, new)
  BY <1>1, <1>3, <1>4 DEF TaskInv, ControlInv, Loading
<1>6. HoldsLock(t, new)
  BY <1>1, <1>3, <1>4 DEF TaskInv, HoldsLock, InTransaction
<1>7. ReadInv(new)
  BY <1>1, <1>2, <1>3, <1>4 DEF TaskInv, ReadInv, InTransaction, Loading
<1>8. AnswerInv(new)
  BY <1>1, <1>3, <1>4 DEF TaskInv, AnswerInv, ControlInv
<1>9. TaskInv(t, new)
  BY <1>4, <1>5, <1>6, <1>7, <1>8 DEF TaskInv
<1> QED BY <1>3, <1>4, <1>9, StepOneTask DEF ReadSnapshot

\* The state of a load that found the account.
LEMMA LoadedState ==
  ASSUME NEW log, IsLog(log), NEW base \in AccountState, Replayed(log, base),
         ~ (DOMAIN log = {} /\ base.version = 0)
  PROVE  /\ ReplayFrom(base, log) \in AccountState
         /\ Replayed(log, ReplayFrom(base, log))
         /\ ReplayFrom(base, log).version = LastVersion(log)
         /\ LastVersion(log) > 0
<1>1. LastVersion(log) \in Nat /\ LastVersion(log) <= LastVersion(log)
  BY DEF IsLog
<1>2. ReplayFrom(base, log) = ReplayTo(log, LastVersion(log))
  BY LoadIsReplay
<1>3. LastVersion(log) > 0
  BY <1>1 DEF IsLog, Replayed, AccountState
<1> QED BY <1>1, <1>2, <1>3, ReplayToType

\* An operation that is not refused is legal after the state it was checked on.
LEMMA NotRefusedIsLegal ==
  ASSUME NEW state \in AccountState, state.version > 0, NEW op \in Operation,
         op.kind \in {"deposit", "withdraw", "close"}, ~ Refuses(op, state)
  PROVE  LegalAfter(state, EventOf(op))
BY DEF Refuses, LegalAfter, EventOf, AccountState, Operation

LEMMA ReadEventsInvariant ==
  ASSUME IInv, NEW t \in Tasks, ReadEvents(t)
  PROVE  IInv'
<1> DEFINE self == task[t]
           a == self.op.acct
           log == events[a]
           loaded == [self EXCEPT !.state = ReplayFrom(self.base, log),
                                  !.base = EmptyAccountState]
<1>1. /\ self \in Task /\ TaskInv(t, self) /\ a \in Accounts
      /\ IsLog(log) /\ LastVersion(log) \in Nat
      /\ self.base \in AccountState /\ Replayed(log, self.base)
  BY TaskFacts DEF Task, TaskInv, ReadInv
<1>2. self.pc = "readEvents" /\ UNCHANGED <<events, snapshots, locked, decided>>
  BY DEF ReadEvents
<1>3. CASE DOMAIN log = {} /\ self.base.version = 0
  <2>1. task' = [task EXCEPT ![t] = Answer(self, "not_found")]
    BY <1>3 DEF ReadEvents
  <2>2. TaskInv(t, Answer(self, "not_found")) /\ Answer(self, "not_found").op = self.op
    BY <1>1, <1>2, AnswerInvariant DEF InTransaction, Statuses
  <2> QED BY <1>2, <2>1, <2>2, StepOneTask
<1>4. CASE ~ (DOMAIN log = {} /\ self.base.version = 0)
  <2>1. task' = [task EXCEPT ![t] = AfterLoad(loaded)]
    BY <1>4 DEF ReadEvents
  <2>2. /\ ReplayFrom(self.base, log) \in AccountState
        /\ Replayed(log, ReplayFrom(self.base, log))
        /\ ReplayFrom(self.base, log).version = LastVersion(log)
        /\ LastVersion(log) > 0
    BY <1>1, <1>4, LoadedState
  <2>3. EmptyAccountState \in AccountState /\ Replayed(log, EmptyAccountState)
    BY <1>1, EmptyIsReplayed
  <2>4. /\ loaded \in Task /\ loaded.op = self.op /\ loaded.pc = "readEvents"
        /\ loaded.state = ReplayFrom(self.base, log) /\ loaded.base = EmptyAccountState
        /\ loaded.version = self.version /\ loaded.floor = self.floor
        /\ loaded.status = self.status
    BY <1>1, <1>2, <2>2, <2>3 DEF Task
  <2> HIDE DEF loaded
  <2>5. TaskInv(t, loaded)
    <3>1. ControlInv(t, loaded) /\ HoldsLock(t, loaded) /\ AnswerInv(loaded)
      BY <1>1, <1>2, <2>4 DEF TaskInv, ControlInv, HoldsLock, AnswerInv, InTransaction, Loading
    <3>2. ReadInv(loaded)
      BY <1>1, <1>2, <2>2, <2>3, <2>4 DEF TaskInv, ReadInv, InTransaction, Loading
    <3> QED BY <2>4, <3>1, <3>2 DEF TaskInv
  <2>6. loaded.state.version >= loaded.floor /\ loaded.state.version >= loaded.version
    BY <1>1, <1>2, <2>2, <2>4 DEF TaskInv, ReadInv, Loading, Task
  <2>7. TaskInv(t, AfterLoad(loaded)) /\ AfterLoad(loaded).op = self.op
    <3>1. CASE AfterLoad(loaded) = Answer(loaded, "ok")
      <4>1. loaded.op.kind # "stateAt"
        BY <2>5, <2>4 DEF TaskInv, ControlInv, Loading
      <4>2. loaded.state.version >= Due(loaded)
        BY <2>4, <2>6, <4>1, MaxOfTwo DEF Due, Task
      <4> QED BY <1>1, <2>4, <2>5, <3>1, <4>2, AnswerInvariant DEF InTransaction, Statuses
    <3>2. CASE AfterLoad(loaded) = Answer(loaded, "rejected")
      BY <1>1, <2>4, <2>5, <3>2, AnswerInvariant DEF InTransaction, Statuses
    <3>3. ASSUME NEW place \in {"findSnapshot", "rebuild", "append"},
                 AfterLoad(loaded) = [loaded EXCEPT !.pc = place],
                 \/ place = "findSnapshot" /\ loaded.op.kind = "snapshot"
                 \/ place = "rebuild" /\ loaded.op.kind = "rebuild"
                 \/ /\ place = "append" /\ t = Http(t[1])
                    /\ loaded.op.kind \in {"deposit", "withdraw", "close"}
                    /\ ~ Refuses(loaded.op, loaded.state)
          PROVE  TaskInv(t, AfterLoad(loaded)) /\ AfterLoad(loaded).op = self.op
      <4> DEFINE new == [loaded EXCEPT !.pc = place]
      <4>1. /\ new \in Task /\ new.op = self.op /\ new.pc = place
            /\ new.state = loaded.state /\ new.base = loaded.base
            /\ new.version = loaded.version /\ new.floor = loaded.floor
            /\ new.status = loaded.status
        BY <2>4 DEF Task, Places
      <4> HIDE DEF new
      <4>2. loaded.state \in AccountState /\ loaded.op \in Operation /\ loaded.state.version > 0
        BY <2>2, <2>4 DEF Task
      <4>3. ControlInv(t, new)
        BY <2>4, <2>5, <3>3, <4>1, <4>2 DEF TaskInv, ControlInv, Loading, CommandKinds
      <4>4. HoldsLock(t, new)
        BY <2>4, <2>5, <4>1 DEF TaskInv, HoldsLock, InTransaction
      <4>5. ReadInv(new)
        <5>1. place = "append" => LegalAfter(new.state, EventOf(new.op))
          BY <2>4, <3>3, <4>1, <4>2, NotRefusedIsLegal
        <5> QED BY <2>4, <2>5, <4>1, <5>1 DEF TaskInv, ReadInv, InTransaction, Loading
      <4>6. AnswerInv(new)
        BY <2>4, <2>5, <2>6, <4>1 DEF TaskInv, AnswerInv, Due, ControlInv
      <4>7. TaskInv(t, new)
        BY <4>1, <4>3, <4>4, <4>5, <4>6 DEF TaskInv
      <4> QED BY <3>3, <4>1, <4>7 DEF new
    <3>4. loaded.op.kind \in {"deposit", "withdraw", "close"} /\ loaded.version = 0 => t = Http(t[1])
      BY <2>4, <2>5 DEF TaskInv, ControlInv, CommandKinds
    <3>5. loaded.op.kind \in {"deposit", "withdraw", "close", "get", "snapshot", "rebuild"}
      BY <2>4, <2>5 DEF TaskInv, ControlInv, Loading, Task, Operation, AllKinds, CommandKinds
    <3>6. CASE loaded.op.kind = "get" \/ loaded.version > 0
      <4>1. loaded.op.kind \in {"snapshot", "rebuild"} => loaded.version = 0
        BY <2>4, <2>5 DEF TaskInv, ReadInv, CommandKinds
      <4>2. AfterLoad(loaded) = Answer(loaded, "ok")
        BY <2>4, <3>6, <4>1 DEF AfterLoad, Task
      <4> QED BY <3>1, <4>2
    <3>7. CASE ~ (loaded.op.kind = "get" \/ loaded.version > 0)
      <4>1. loaded.version = 0
        BY <2>4, <3>7 DEF Task
      <4>2. CASE loaded.op.kind \in {"snapshot", "rebuild"}
        BY <3>3, <3>7, <4>2 DEF AfterLoad
      <4>3. CASE loaded.op.kind \in {"deposit", "withdraw", "close"}
        <5>1. AfterLoad(loaded) = IF Refuses(loaded.op, loaded.state)
                                  THEN Answer(loaded, "rejected")
                                  ELSE [loaded EXCEPT !.pc = "append"]
          BY <3>7, <4>3 DEF AfterLoad
        <5> QED BY <3>2, <3>3, <3>4, <4>1, <4>3, <5>1
      <4> QED BY <3>5, <3>7, <4>2, <4>3
    <3> QED BY <3>6, <3>7
  <2> QED BY <1>2, <2>1, <2>7, StepOneTask
<1> QED BY <1>3, <1>4

\* GET events and a time travel read one slice of the log.
LEMMA ReadLogInvariant ==
  ASSUME IInv, NEW t \in Tasks, ReadLog(t)
  PROVE  IInv'
<1> DEFINE self == task[t]
           a == self.op.acct
           log == events[a]
           n == LastVersion(log)
           arg == Wanted(self.op, log)
           read == [self EXCEPT !.state = ReplayTo(log, arg), !.floor = n]
<1>1. /\ self \in Task /\ TaskInv(t, self) /\ a \in Accounts /\ arg \in Int
      /\ IsLog(log) /\ n \in Nat /\ DOMAIN log = 1 .. n
  <2>1. self \in Task /\ TaskInv(t, self) /\ a \in Accounts /\ IsLog(log) /\ n \in Nat
    BY TaskFacts
  <2>2. self.op.arg \in Int
    BY <2>1 DEF Task, Operation
  <2>3. arg \in Int
    BY <2>1, <2>2 DEF Wanted
  <2> QED BY <2>1, <2>3 DEF IsLog
<1>2. self.pc = "readLog" /\ UNCHANGED <<events, snapshots, locked, decided>>
  BY DEF ReadLog
<1>3. CASE \A v \in DOMAIN log : v > arg
  <2>1. task' = [task EXCEPT ![t] = Answer(self, "not_found")]
    BY <1>3 DEF ReadLog
  <2>2. TaskInv(t, Answer(self, "not_found")) /\ Answer(self, "not_found").op = self.op
    BY <1>1, <1>2, AnswerInvariant DEF InTransaction, Statuses
  <2> QED BY <1>2, <2>1, <2>2, StepOneTask
<1>4. CASE ~ \A v \in DOMAIN log : v > arg
  <2> DEFINE m == Min({arg, n})
  <2>1. task' = [task EXCEPT ![t] = Answer(read, "ok")]
    BY <1>4 DEF ReadLog
  <2>2. m \in Nat /\ m <= n
    BY <1>1, <1>4, MinOfTwo
  <2>3. ReplayTo(log, arg) = ReplayTo(log, m)
    BY <1>1, <2>2, ReplayToIsFold DEF ReplayTo
  <2> HIDE DEF m
  <2>4. /\ ReplayTo(log, arg) \in AccountState
        /\ ReplayTo(log, arg).version = m
        /\ Replayed(log, ReplayTo(log, arg))
    BY <1>1, <2>2, <2>3, ReplayToType
  <2>5. /\ read \in Task /\ read.op = self.op /\ read.pc = "readLog"
        /\ read.state = ReplayTo(log, arg) /\ read.base = self.base
        /\ read.version = self.version /\ read.floor = n /\ read.status = self.status
    BY <1>1, <1>2, <2>4 DEF Task
  <2> HIDE DEF read
  <2>6. TaskInv(t, read)
    <3>1. ControlInv(t, read)
      BY <1>1, <1>2, <2>5 DEF TaskInv, ControlInv, Loading
    <3>2. HoldsLock(t, read)
      BY <1>1, <1>2, <2>5 DEF TaskInv, HoldsLock, InTransaction
    <3>3. ReadInv(read)
      <4>1. /\ ~ InTransaction(read) /\ ~ Loading(read)
            /\ read.pc \notin {"append", "insert", "commit"}
        BY <2>5 DEF InTransaction, Loading
      <4>2. /\ Replayed(events[self.op.acct], self.base)
            /\ self.op.kind \notin CommandKinds => self.version = 0
        BY <1>1 DEF TaskInv, ReadInv
      <4>3. read.floor <= LastVersion(events[read.op.acct])
        BY <1>1, <2>5
      <4>4. /\ Replayed(events[read.op.acct], read.base)
            /\ Replayed(events[read.op.acct], read.state)
        <5> HIDE DEF arg
        <5> QED BY <2>4, <2>5, <4>2
      <4> HIDE DEF self
      <4> QED BY <2>5, <4>1, <4>2, <4>3, <4>4 DEF ReadInv
    <3>4. AnswerInv(read)
      BY <1>1, <1>2, <2>5 DEF TaskInv, AnswerInv, ControlInv
    <3> QED BY <2>5, <3>1, <3>2, <3>3, <3>4 DEF TaskInv
  <2>7. read.state.version >= Due(read)
    <3>1. CASE self.op.kind = "stateAt"
      <4>1. Due(read) = m
        BY <2>5, <3>1 DEF Due, Wanted, m
      <4> QED BY <2>2, <2>4, <2>5, <4>1
    <3>2. CASE self.op.kind = "log"
      <4>1. read.version = 0 /\ read.floor = n /\ m = Min({n, n})
        BY <1>1, <2>5, <3>2 DEF TaskInv, ReadInv, CommandKinds, Wanted, m
      <4>2. Due(read) = n /\ m = n
        BY <1>1, <2>5, <3>2, <4>1, MaxOfTwo, MinOfTwo DEF Due
      <4> QED BY <2>2, <2>4, <2>5, <4>2
    <3> QED BY <1>1, <1>2, <3>1, <3>2 DEF TaskInv, ControlInv
  <2>8. TaskInv(t, Answer(read, "ok")) /\ Answer(read, "ok").op = self.op
    BY <1>1, <2>5, <2>6, <2>7, AnswerInvariant DEF InTransaction, Statuses
  <2> QED BY <1>2, <2>1, <2>8, StepOneTask
<1> QED BY <1>3, <1>4

-----------------------------------------------------------------------------
(* The steps of a rebuild.                                                 *)

LEMMA ListAccountsInvariant ==
  ASSUME IInv, NEW t \in Tasks, ListAccounts(t)
  PROVE  IInv'
<1> DEFINE self == task[t]
           new == [self EXCEPT !.pc = "rebuild",
                               !.todo = {a \in Accounts : DOMAIN events[a] # {}}]
<1>1. self \in Task /\ TaskInv(t, self)
  BY TaskFacts
<1>2. /\ self.pc = "listAccounts" /\ task' = [task EXCEPT ![t] = new]
      /\ UNCHANGED <<events, snapshots, locked, decided>>
  BY <1>1 DEF ListAccounts, Task
<1>3. /\ new \in Task /\ new.op = self.op /\ new.pc = "rebuild"
      /\ new.state = self.state /\ new.base = self.base
      /\ new.version = self.version /\ new.floor = self.floor
      /\ new.status = self.status
  BY <1>1 DEF Task, Places
<1> HIDE DEF new
<1>4. ControlInv(t, new)
  BY <1>1, <1>2, <1>3 DEF TaskInv, ControlInv, Loading
<1>5. HoldsLock(t, new)
  BY <1>1, <1>2, <1>3 DEF TaskInv, HoldsLock, InTransaction
<1>6. ReadInv(new)
  BY <1>1, <1>2, <1>3 DEF TaskInv, ReadInv, InTransaction, Loading
<1>7. AnswerInv(new)
  BY <1>1, <1>2, <1>3 DEF TaskInv, AnswerInv, ControlInv
<1>8. TaskInv(t, new)
  BY <1>3, <1>4, <1>5, <1>6, <1>7 DEF TaskInv
<1> QED BY <1>2, <1>3, <1>8, StepOneTask

LEMMA RebuildNextInvariant ==
  ASSUME IInv, NEW t \in Tasks, RebuildNext(t)
  PROVE  IInv'
<1> DEFINE self == task[t]
<1>1. self \in Task /\ TaskInv(t, self) /\ IsLog(events[self.op.acct])
  BY TaskFacts
<1>2. self.pc = "rebuild" /\ UNCHANGED <<events, snapshots, locked, decided>>
  BY DEF RebuildNext
<1>3. self.op.kind = "rebuild" /\ self.version = 0 /\ self.base = EmptyAccountState
  BY <1>1, <1>2 DEF TaskInv, ControlInv, ReadInv, CommandKinds
<1>4. ASSUME NEW a \in self.todo,
             task' = [task EXCEPT ![t].pc = "readSnapshot", ![t].op.acct = a,
                                  ![t].todo = @ \ {a},
                                  ![t].state = EmptyAccountState, ![t].floor = 0]
      PROVE  IInv'
  <2> DEFINE new == [self EXCEPT !.pc = "readSnapshot", !.op.acct = a, !.todo = @ \ {a},
                                 !.state = EmptyAccountState, !.floor = 0]
  <2>1. /\ a \in Accounts /\ IsLog(events[a]) /\ LastVersion(events[a]) \in Nat
        /\ EmptyAccountState \in AccountState /\ Replayed(events[a], EmptyAccountState)
    BY <1>1, EmptyIsReplayed DEF Task, IInv, LogsInv, IsLog
  <2>2. task' = [task EXCEPT ![t] = new]
    BY <1>1, <1>4 DEF Task
  <2>3. /\ new \in Task /\ new.op.acct = a /\ new.op.kind = "rebuild"
        /\ new.op.arg = self.op.arg /\ new.pc = "readSnapshot"
        /\ new.state = EmptyAccountState /\ new.base = self.base
        /\ new.version = self.version /\ new.floor = 0 /\ new.status = self.status
    BY <1>1, <1>3, <2>1 DEF Task, Places, Operation
  <2> HIDE DEF new
  <2>4. ControlInv(t, new)
    BY <1>1, <1>2, <1>3, <2>3 DEF TaskInv, ControlInv, Loading, CommandKinds
  <2>5. HoldsLock(t, new)
    BY <1>1, <1>2, <2>3 DEF TaskInv, HoldsLock, InTransaction
  <2>6. ReadInv(new)
    BY <1>3, <2>1, <2>3 DEF ReadInv, InTransaction, Loading
  <2>7. AnswerInv(new)
    BY <1>1, <1>2, <2>3 DEF TaskInv, ControlInv, AnswerInv
  <2>8. TaskInv(t, new)
    BY <2>3, <2>4, <2>5, <2>6, <2>7 DEF TaskInv
  <2>9. ~ (t = Http(t[1]) /\ t[1] \in locked)
    BY <1>1, <1>2 DEF TaskInv, HoldsLock, InTransaction
  <2> QED BY <1>2, <2>2, <2>8, <2>9, StepOneTask
<1>5. CASE task' = [task EXCEPT ![t] = Answer(@, "ok")]
  <2>1. task' = [task EXCEPT ![t] = Answer(self, "ok")]
    BY <1>5
  <2>2. self.state.version >= Due(self)
    <3>1. self.floor \in Nat /\ self.state.version >= self.floor
      BY <1>1, <1>2 DEF TaskInv, AnswerInv, Task
    <3> QED BY <1>3, <3>1, MaxOfTwo DEF Due
  <2>3. TaskInv(t, Answer(self, "ok")) /\ Answer(self, "ok").op = self.op
    BY <1>1, <1>2, <2>2, AnswerInvariant DEF InTransaction, Statuses
  <2> QED BY <1>2, <2>1, <2>3, StepOneTask
<1> QED BY <1>4, <1>5 DEF RebuildNext

-----------------------------------------------------------------------------
(* The steps of takeSnapshot.                                              *)

\* A task that looks for its snapshot or saves it may answer.
LEMMA SnapshotAnswer ==
  ASSUME IInv, NEW t \in Tasks, task[t].pc \in {"findSnapshot", "saveSnapshot"},
         NEW status \in {"ok", "conflict"}
  PROVE  /\ TaskInv(t, Answer(task[t], status))
         /\ Answer(task[t], status).op = task[t].op
<1> DEFINE self == task[t]
<1>1. self \in Task /\ TaskInv(t, self) /\ IsLog(events[self.op.acct])
  BY TaskFacts
<1>2. self.op.kind = "snapshot" /\ self.version = 0
  BY <1>1 DEF TaskInv, ControlInv, ReadInv, CommandKinds
<1>3. self.state.version >= self.floor /\ self.floor \in Nat
  BY <1>1 DEF TaskInv, AnswerInv, Task
<1>4. self.state.version >= Due(self)
  BY <1>2, <1>3, MaxOfTwo DEF Due
<1> QED BY <1>1, <1>2, <1>4, AnswerInvariant DEF InTransaction, Statuses

LEMMA FindSnapshotInvariant ==
  ASSUME IInv, NEW t \in Tasks, FindSnapshot(t)
  PROVE  IInv'
<1> DEFINE self == task[t]
           new == [self EXCEPT !.pc = "saveSnapshot"]
<1>1. self \in Task /\ TaskInv(t, self)
  BY TaskFacts
<1>2. self.pc = "findSnapshot" /\ UNCHANGED <<events, snapshots, locked, decided>>
  BY DEF FindSnapshot
<1>3. CASE task' = [task EXCEPT ![t] = Answer(self, "ok")]
  BY <1>2, <1>3, SnapshotAnswer, StepOneTask
<1>4. CASE task' = [task EXCEPT ![t] = new]
  <2>1. /\ new \in Task /\ new.op = self.op /\ new.pc = "saveSnapshot"
        /\ new.state = self.state /\ new.base = self.base
        /\ new.version = self.version /\ new.floor = self.floor
        /\ new.status = self.status
    BY <1>1 DEF Task, Places
  <2> HIDE DEF new
  <2>2. ControlInv(t, new)
    BY <1>1, <1>2, <2>1 DEF TaskInv, ControlInv, Loading
  <2>3. HoldsLock(t, new)
    BY <1>1, <1>2, <2>1 DEF TaskInv, HoldsLock, InTransaction
  <2>4. ReadInv(new)
    BY <1>1, <1>2, <2>1 DEF TaskInv, ReadInv, InTransaction, Loading
  <2>5. AnswerInv(new)
    BY <1>1, <1>2, <2>1 DEF TaskInv, AnswerInv, ControlInv
  <2>6. TaskInv(t, new)
    BY <2>1, <2>2, <2>3, <2>4, <2>5 DEF TaskInv
  <2> QED BY <1>2, <1>4, <2>1, <2>6, StepOneTask
<1> QED BY <1>3, <1>4 DEF FindSnapshot

\* What is saved is a replay, because what was loaded is one.
LEMMA SaveSnapshotInvariant ==
  ASSUME IInv, NEW t \in Tasks, SaveSnapshot(t)
  PROVE  IInv'
<1> DEFINE self == task[t]
           a == self.op.acct
           state == self.state
<1>1. /\ self \in Task /\ TaskInv(t, self) /\ a \in Accounts
      /\ IsLog(events[a]) /\ LastVersion(events[a]) \in Nat
  BY TaskFacts
<1>2. self.pc = "saveSnapshot" /\ UNCHANGED <<events, locked, decided>>
  BY DEF SaveSnapshot
<1>3. \A status \in {"ok", "conflict"} :
        /\ TaskInv(t, Answer(self, status))
        /\ Answer(self, status).op = self.op
  BY <1>2, SnapshotAnswer
<1>4. CASE /\ state.version \in DOMAIN snapshots[a]
           /\ task' = [task EXCEPT ![t] = Answer(@, "conflict")]
           /\ UNCHANGED snapshots
  BY <1>2, <1>3, <1>4, StepOneTask
<1>5. CASE /\ state.version \notin DOMAIN snapshots[a]
           /\ snapshots' = [snapshots EXCEPT ![a] = Insert(@, state.version, state)]
           /\ task' = [task EXCEPT ![t] = Answer(@, "ok")]
  <2> DEFINE new == Answer(self, "ok")
             row == Insert(snapshots[a], state.version, state)
  <2>1. task' = [u \in Tasks |-> IF u = t THEN new ELSE task[u]]
    BY <1>5 DEF IInv, TasksInv
  <2>2. TaskInv(t, new) /\ new.op = self.op
    BY <1>3
  <2> HIDE DEF new
  <2>3. \A u \in Tasks : TaskInv(u, task'[u]) /\ task'[u].op.acct = task[u].op.acct
    BY <2>1, <2>2 DEF IInv, TasksInv
  <2>4. LogsInv' /\ DecidedInv'
    BY <1>2 DEF IInv, LogsInv, DecidedInv
  <2>5. LocksInv'
    <3>1. \A r \in locked : task'[Http(r)].op.acct = task[Http(r)].op.acct
      BY <2>3, TaskNames DEF IInv, LocksInv
    <3> QED BY <1>2, <3>1 DEF IInv, LocksInv
  <2>6. TasksInv'
    <3>1. ASSUME NEW u \in Tasks
          PROVE  TaskInv(u, task[u])'
      BY <1>2, <2>3 DEF TaskInv, ControlInv, HoldsLock, ReadInv, AnswerInv,
                        Loading, InTransaction, Due
    <3> QED BY <2>1, <3>1 DEF TasksInv
  <2>7. state \in AccountState /\ state.version \in DOMAIN events[a] /\ Replayed(events[a], state)
    <3>1. state \in AccountState /\ Replayed(events[a], state) /\ state.version > 0
      BY <1>1, <1>2 DEF TaskInv, ReadInv, ControlInv, Task
    <3>2. state.version <= LastVersion(events[a]) /\ state.version \in Nat
      BY <3>1 DEF Replayed, AccountState
    <3> QED BY <1>1, <3>1, <3>2 DEF IsLog
  <2>8. /\ DOMAIN row = DOMAIN snapshots[a] \cup {state.version}
        /\ \A v \in DOMAIN row : row[v] = IF v = state.version THEN state ELSE snapshots[a][v]
        /\ row = [v \in DOMAIN row |-> row[v]]
    BY DEF Insert
  <2>9. snapshots' = [b \in Accounts |-> IF b = a THEN row ELSE snapshots[b]]
    <3>1. DOMAIN snapshots = Accounts
      BY DEF IInv, SnapshotsInv
    <3> QED BY <1>5, <3>1
  <2> HIDE DEF row, state
  <2>10. SnapshotsInv'
    <3>1. ASSUME NEW b \in Accounts, NEW v \in DOMAIN snapshots'[b]
          PROVE  /\ v \in DOMAIN events[b]
                 /\ snapshots'[b][v] \in AccountState
                 /\ snapshots'[b][v].version = v
                 /\ Replayed(events[b], snapshots'[b][v])
      <4>1. CASE b = a /\ v = state.version
        <5>1. snapshots'[b][v] = state
          BY <2>8, <2>9, <4>1
        <5> QED BY <2>7, <4>1, <5>1
      <4>2. CASE ~ (b = a /\ v = state.version)
        <5>1. v \in DOMAIN snapshots[b] /\ snapshots'[b][v] = snapshots[b][v]
          BY <2>8, <2>9, <4>2
        <5> QED BY <5>1 DEF IInv, SnapshotsInv
      <4> QED BY <4>1, <4>2
    <3>2. ASSUME NEW b \in Accounts
          PROVE  snapshots'[b] = [v \in DOMAIN snapshots'[b] |-> snapshots'[b][v]]
      BY <2>8, <2>9 DEF IInv, SnapshotsInv
    <3>3. DOMAIN snapshots' = Accounts
      BY <2>9
    <3> QED BY <1>2, <3>1, <3>2, <3>3 DEF SnapshotsInv, Replayed
  <2> QED BY <2>4, <2>5, <2>6, <2>10 DEF IInv
<1> QED BY <1>4, <1>5 DEF SaveSnapshot

-----------------------------------------------------------------------------
(* The steps of an append.                                                 *)

\* A request takes its lock or gives it back.
LEMMA StepLock ==
  ASSUME IInv, NEW r \in Requests, NEW new,
         task' = [task EXCEPT ![Http(r)] = new],
         UNCHANGED <<events, snapshots, decided>>,
         locked' \in {locked \cup {r}, locked \ {r}},
         new \in Task, new.op = task[Http(r)].op,
         ControlInv(Http(r), new), ReadInv(new), AnswerInv(new),
         InTransaction(new) <=> r \in locked',
         r \in locked' => r \in locked \/ LockFree(new.op.acct)
  PROVE  IInv'
<1>1. task' = [u \in Tasks |-> IF u = Http(r) THEN new ELSE task[u]]
  BY DEF IInv, TasksInv
<1>2. LogsInv' /\ DecidedInv'
  BY DEF IInv, LogsInv, DecidedInv
<1>3. SnapshotsInv'
  BY DEF IInv, SnapshotsInv, Replayed
<1>4. Http(r) \in Tasks /\ Http(r)[1] = r
  BY TaskNames
<1>5. LocksInv'
  <2>1. locked \subseteq Requests /\ locked' \subseteq Requests
    BY DEF IInv, LocksInv
  <2>2. \A q \in Requests : task'[Http(q)].op = task[Http(q)].op
    BY <1>1, TaskNames
  <2>3. r \in locked' /\ r \notin locked =>
          \A q \in locked : HashAggregateId[task[Http(q)].op.acct]
                              # HashAggregateId[task[Http(r)].op.acct]
    BY DEF LockFree
  <2>4. ASSUME NEW p \in locked', NEW q \in locked', p # q
        PROVE  HashAggregateId[task[Http(p)].op.acct] # HashAggregateId[task[Http(q)].op.acct]
    <3>1. CASE p \in locked /\ q \in locked
      BY <2>4, <3>1 DEF IInv, LocksInv
    <3>2. CASE ~ (p \in locked /\ q \in locked)
      BY <2>3, <2>4, <3>2
    <3> QED BY <3>1, <3>2
  <2> QED BY <2>1, <2>2, <2>4 DEF LocksInv
<1>6. TasksInv'
  <2>1. ASSUME NEW u \in Tasks
        PROVE  TaskInv(u, task[u])'
    <3>1. CASE u = Http(r)
      <4>1. task'[u] = new
        BY <1>1, <3>1
      <4>2. HoldsLock(u, task[u])'
        BY <1>4, <3>1, <4>1 DEF HoldsLock, InTransaction
      <4>3. ControlInv(u, task[u])' /\ AnswerInv(task[u])'
        BY <3>1, <4>1 DEF ControlInv, AnswerInv, Loading, Due
      <4>4. ReadInv(task[u])'
        BY <3>1, <4>1 DEF ReadInv, InTransaction, Loading
      <4> QED BY <3>1, <4>1, <4>2, <4>3, <4>4 DEF TaskInv
    <3>2. CASE u # Http(r)
      <4>1. task'[u] = task[u] /\ TaskInv(u, task[u])
        BY <1>1, <3>2 DEF IInv, TasksInv
      <4>2. HoldsLock(u, task[u])'
        <5>1. u = Http(u[1]) => u[1] # r
          BY <3>2
        <5> QED BY <4>1, <5>1 DEF TaskInv, HoldsLock, InTransaction
      <4>3. ControlInv(u, task[u])' /\ AnswerInv(task[u])'
        BY <4>1 DEF TaskInv, ControlInv, AnswerInv, Loading, Due
      <4>4. ReadInv(task[u])'
        <5>1. ReadInv(task[u])
          BY <4>1 DEF TaskInv
        <5> QED BY <4>1, <5>1 DEF ReadInv, InTransaction, Loading
      <4> QED BY <4>1, <4>2, <4>3, <4>4 DEF TaskInv
    <3> QED BY <3>1, <3>2
  <2> QED BY <1>1, <2>1 DEF TasksInv
<1> QED BY <1>2, <1>3, <1>5, <1>6 DEF IInv

LEMMA LockAndReadVersionInvariant ==
  ASSUME IInv, NEW r \in Requests, LockAndReadVersion(r)
  PROVE  IInv'
<1> DEFINE t == Http(r)
           self == task[t]
           a == self.op.acct
           new == [self EXCEPT !.pc = "insert", !.version = NextVersion(a)]
<1>1. /\ t \in Tasks /\ t[1] = r /\ self \in Task /\ TaskInv(t, self) /\ a \in Accounts
      /\ IsLog(events[a]) /\ LastVersion(events[a]) \in Nat
  BY TaskNames, TaskFacts
<1>2. /\ self.pc = "append" /\ LockFree(a) /\ locked' = locked \cup {r}
      /\ task' = [task EXCEPT ![t] = new] /\ UNCHANGED <<events, snapshots, decided>>
  BY <1>1 DEF LockAndReadVersion, Task
<1>3. /\ new \in Task /\ new.op = self.op /\ new.pc = "insert"
      /\ new.state = self.state /\ new.base = self.base
      /\ new.version = LastVersion(events[a]) + 1 /\ new.floor = self.floor
      /\ new.status = self.status
  <2>1. NextVersion(a) = LastVersion(events[a]) + 1 /\ NextVersion(a) \in Nat
    BY <1>1 DEF NextVersion
  <2> QED BY <1>1, <2>1 DEF Task, Places
<1> HIDE DEF new
<1>4. ControlInv(t, new)
  BY <1>1, <1>2, <1>3 DEF TaskInv, ControlInv, Loading
<1>5. ReadInv(new)
  BY <1>1, <1>2, <1>3 DEF TaskInv, ReadInv, ControlInv, InTransaction, Loading
<1>6. AnswerInv(new)
  BY <1>1, <1>2, <1>3 DEF TaskInv, AnswerInv, ControlInv
<1>7. InTransaction(new) /\ r \in locked'
  BY <1>2, <1>3 DEF InTransaction
<1> QED BY <1>1, <1>2, <1>3, <1>4, <1>5, <1>6, <1>7, StepLock

\* The version that the transaction has read is still free: the insert is
\* never refused, and never waits for another one.
LEMMA VersionStaysFree ==
  ASSUME IInv, NEW r \in Requests, InTransaction(task[Http(r)])
  PROVE  task[Http(r)].version \notin DOMAIN events[task[Http(r)].op.acct]
<1> DEFINE self == task[Http(r)]
           log == events[self.op.acct]
<1>1. TaskInv(Http(r), self) /\ IsLog(log)
  BY TaskNames, TaskFacts
<1>2. self.version = LastVersion(log) + 1
  BY <1>1 DEF TaskInv, ReadInv
<1>3. LastVersion(log) \in Nat /\ DOMAIN log = 1 .. LastVersion(log)
  BY <1>1 DEF IsLog
<1> QED BY <1>2, <1>3

LEMMA InsertEventInvariant ==
  ASSUME IInv, NEW r \in Requests, InsertEvent(r)
  PROVE  IInv'
<1> DEFINE t == Http(r)
           self == task[t]
           a == self.op.acct
           new == [self EXCEPT !.pc = "commit"]
           job == StartAutoSnapshot(r)
<1>1. /\ t \in Tasks /\ t[1] = r /\ self \in Task /\ TaskInv(t, self) /\ a \in Accounts
      /\ IsLog(events[a]) /\ LastVersion(events[a]) \in Nat
      /\ Job(r) \in Tasks /\ Job(r) # t /\ Job(r)[1] = r /\ Job(r) # Http(Job(r)[1])
  BY TaskNames, TaskFacts
<1>2. self.pc = "insert"
  BY DEF InsertEvent
<1>3. self.version \notin DOMAIN events[a]
  BY <1>2, VersionStaysFree DEF InTransaction
<1>4. /\ task' = [task EXCEPT ![t].pc = "commit", ![Job(r)] = job]
      /\ UNCHANGED <<events, snapshots, locked, decided>>
  BY <1>3 DEF InsertEvent
<1>5. task' = [u \in Tasks |-> IF u = Job(r) THEN job ELSE IF u = t THEN new ELSE task[u]]
  BY <1>1, <1>4 DEF IInv, TasksInv, Task
<1>6. TaskInv(t, new) /\ new.op = self.op
  <2>1. /\ new \in Task /\ new.op = self.op /\ new.pc = "commit"
        /\ new.state = self.state /\ new.base = self.base
        /\ new.version = self.version /\ new.floor = self.floor
        /\ new.status = self.status
    BY <1>1 DEF Task, Places
  <2> HIDE DEF new
  <2>2. ControlInv(t, new)
    BY <1>1, <1>2, <2>1 DEF TaskInv, ControlInv, Loading
  <2>3. HoldsLock(t, new)
    BY <1>1, <1>2, <2>1 DEF TaskInv, HoldsLock, InTransaction
  <2>4. ReadInv(new)
    BY <1>1, <1>2, <2>1 DEF TaskInv, ReadInv, InTransaction, Loading
  <2>5. AnswerInv(new)
    BY <1>1, <1>2, <2>1 DEF TaskInv, AnswerInv, ControlInv
  <2> QED BY <2>1, <2>2, <2>3, <2>4, <2>5 DEF TaskInv
<1>7. TaskInv(Job(r), job)
  <2> DEFINE op == [kind |-> "snapshot", acct |-> a, arg |-> 0]
             started == [IdleTask EXCEPT !.pc = "readSnapshot", !.op = op]
  <2>1. TaskInv(Job(r), task[Job(r)])
    BY <1>1, TaskFacts
  <2>2. TaskInv(Job(r), started)
    <3>1. EmptyAccountState \in AccountState /\ Replayed(events[a], EmptyAccountState)
      BY <1>1, EmptyIsReplayed
    <3>2. op \in Operation /\ op.kind = "snapshot" /\ op.acct = a
      BY <1>1 DEF Operation, AllKinds
    <3> HIDE DEF op
    <3>3. /\ started \in Task /\ started.op = op /\ started.pc = "readSnapshot"
          /\ started.state = EmptyAccountState /\ started.base = EmptyAccountState
          /\ started.version = 0 /\ started.floor = 0 /\ started.status = "pending"
      BY <3>1, <3>2 DEF IdleTask, Task, Places, Statuses
    <3> HIDE DEF started
    <3>4. ControlInv(Job(r), started)
      BY <3>2, <3>3 DEF ControlInv, Loading, CommandKinds
    <3>5. HoldsLock(Job(r), started)
      BY <1>1, <3>3 DEF HoldsLock, InTransaction
    <3>6. ReadInv(started)
      BY <1>1, <3>1, <3>2, <3>3 DEF ReadInv, InTransaction, Loading
    <3>7. AnswerInv(started)
      BY <3>3 DEF AnswerInv
    <3> QED BY <3>3, <3>4, <3>5, <3>6, <3>7 DEF TaskInv
  <2>3. job = started \/ job = task[Job(r)]
    BY DEF StartAutoSnapshot
  <2> QED BY <2>1, <2>2, <2>3
<1> HIDE DEF new, job
<1>8. ASSUME NEW u \in Tasks
      PROVE  /\ TaskInv(u, task'[u])
             /\ (u = Http(u[1]) /\ u[1] \in locked) => task'[u].op.acct = task[u].op.acct
  <2>1. CASE u = Job(r)
    BY <1>1, <1>5, <1>7, <2>1
  <2>2. CASE u = t
    BY <1>1, <1>5, <1>6, <2>2
  <2>3. CASE u # Job(r) /\ u # t
    BY <1>5, <2>3 DEF IInv, TasksInv
  <2> QED BY <2>1, <2>2, <2>3
<1> QED BY <1>4, <1>5, <1>8, StepTasks

\* A state that a log gives is given by the log with one more event.
LEMMA ReplayedAfterInsert ==
  ASSUME NEW log, IsLog(log), NEW event \in Event,
         NEW state \in AccountState, Replayed(log, state)
  PROVE  Replayed(Insert(log, LastVersion(log) + 1, event), state)
<1> DEFINE n == LastVersion(log)
           new == Insert(log, n + 1, event)
<1>1. n \in Nat /\ state.version \in Nat /\ state.version <= n
  BY DEF IsLog, Replayed, AccountState
<1>2. LastVersion(new) = n + 1 /\ \A v \in 0 .. n : ReplayTo(new, v) = ReplayTo(log, v)
  BY InsertNext
<1> HIDE DEF new, n
<1>3. Replayed(new, state)
  BY <1>1, <1>2 DEF Replayed, n
<1> QED BY <1>3 DEF new, n

\* What a commit does to the logs of all accounts.
LEMMA CommitGrowsOneLog ==
  ASSUME IInv, NEW r \in Requests, CommitEvent(r)
  PROVE  LET self == task[Http(r)]
             a    == self.op.acct
             n    == LastVersion(events[a])
         IN  /\ EventOf(self.op) \in Event
             /\ self.version = n + 1
             /\ events' = [b \in Accounts |-> IF b = a THEN Insert(events[a], n + 1, EventOf(self.op))
                                              ELSE events[b]]
             /\ \A b \in Accounts :
                  /\ IsLog(events'[b])
                  /\ DOMAIN events[b] \subseteq DOMAIN events'[b]
                  /\ LastVersion(events[b]) <= LastVersion(events'[b])
                  /\ \A v \in DOMAIN events[b] : events'[b][v] = events[b][v]
                  /\ \A state \in AccountState :
                       Replayed(events[b], state) => Replayed(events'[b], state)
<1> DEFINE self == task[Http(r)]
           a == self.op.acct
           n == LastVersion(events[a])
           event == EventOf(self.op)
           new == Insert(events[a], n + 1, event)
<1>1. /\ self \in Task /\ TaskInv(Http(r), self) /\ a \in Accounts
      /\ IsLog(events[a]) /\ n \in Nat
  BY TaskNames, TaskFacts
<1>2. self.pc = "commit"
  BY DEF CommitEvent
<1>3. event \in Event
  BY <1>1, <1>2 DEF TaskInv, ControlInv, EventOf, Event, EventTypes, CommandKinds
<1>4. self.version = n + 1
  BY <1>1, <1>2 DEF TaskInv, ReadInv, InTransaction
<1>5. DOMAIN events = Accounts
  BY DEF IInv, LogsInv
<1>6. events' = [b \in Accounts |-> IF b = a THEN new ELSE events[b]]
  BY <1>1, <1>4, <1>5 DEF CommitEvent
<1>7. /\ IsLog(new) /\ LastVersion(new) = n + 1
      /\ \A v \in DOMAIN events[a] : new[v] = events[a][v]
  BY <1>1, <1>3, InsertNext
<1>8. DOMAIN events[a] \subseteq DOMAIN new
  BY DEF Insert
<1>9. \A state \in AccountState : Replayed(events[a], state) => Replayed(new, state)
  BY <1>1, <1>3, ReplayedAfterInsert
<1> HIDE DEF new, event, n
<1>10. ASSUME NEW b \in Accounts
       PROVE  /\ IsLog(events'[b])
              /\ DOMAIN events[b] \subseteq DOMAIN events'[b]
              /\ LastVersion(events[b]) <= LastVersion(events'[b])
              /\ \A v \in DOMAIN events[b] : events'[b][v] = events[b][v]
              /\ \A state \in AccountState :
                   Replayed(events[b], state) => Replayed(events'[b], state)
  <2>1. CASE b = a
    <3>1. events'[b] = new /\ n <= n + 1
      BY <1>1, <1>6, <2>1
    <3> QED BY <1>7, <1>8, <1>9, <2>1, <3>1 DEF n
  <2>2. CASE b # a
    <3>1. events'[b] = events[b] /\ IsLog(events[b])
      BY <1>6, <2>2 DEF IInv, LogsInv
    <3>2. LastVersion(events[b]) <= LastVersion(events[b])
      BY <3>1 DEF IsLog
    <3> QED BY <3>1, <3>2
  <2> QED BY <2>1, <2>2
<1> QED BY <1>3, <1>4, <1>6, <1>10 DEF new, event, n

LEMMA CommitDecided ==
  ASSUME IInv, NEW r \in Requests, CommitEvent(r)
  PROVE  DecidedInv'
<1> DEFINE self == task[Http(r)]
           a == self.op.acct
           log == events[a]
           n == LastVersion(log)
           event == EventOf(self.op)
           new == Insert(log, n + 1, event)
<1>1. /\ self \in Task /\ TaskInv(Http(r), self) /\ a \in Accounts
      /\ IsLog(log) /\ n \in Nat /\ DOMAIN log = 1 .. n
  BY TaskNames, TaskFacts DEF IsLog
<1>2. /\ event \in Event /\ self.version = n + 1
      /\ events' = [b \in Accounts |-> IF b = a THEN new ELSE events[b]]
  BY CommitGrowsOneLog
<1>3. /\ LegalAfter(self.state, event) /\ Replayed(log, self.state)
      /\ self.state.version \in Nat
  <2>1. self.pc = "commit"
    BY DEF CommitEvent
  <2> QED BY <1>1, <2>1 DEF TaskInv, ReadInv, Task, AccountState
<1>4. /\ DOMAIN decided = Accounts
      /\ \A b \in Accounts :
           /\ DOMAIN decided[b] = DOMAIN events[b]
           /\ decided[b] \in [DOMAIN decided[b] -> Nat]
           /\ \A v \in DOMAIN events[b] :
                /\ decided[b][v] < v
                /\ LegalAfter(ReplayTo(events[b], decided[b][v]), events[b][v])
  BY DEF IInv, DecidedInv
<1> DEFINE row == Insert(decided[a], n + 1, self.state.version)
<1>5. decided' = [b \in Accounts |-> IF b = a THEN row ELSE decided[b]]
  BY <1>1, <1>2, <1>4 DEF CommitEvent
<1>6. /\ IsLog(new) /\ DOMAIN new = 1 .. n + 1 /\ new[n + 1] = event
      /\ \A v \in 1 .. n : new[v] = log[v]
      /\ \A v \in 0 .. n : ReplayTo(new, v) = ReplayTo(log, v)
  <2>1. /\ IsLog(new) /\ LastVersion(new) = n + 1 /\ new[n + 1] = event
        /\ \A v \in DOMAIN log : new[v] = log[v]
        /\ \A v \in 0 .. n : ReplayTo(new, v) = ReplayTo(log, v)
    <3> HIDE DEF log, event
    <3> QED BY <1>1, <1>2, InsertNext
  <2> HIDE DEF new, n, event
  <2> QED BY <1>1, <2>1 DEF IsLog
<1>7. /\ DOMAIN row = 1 .. n + 1 /\ row[n + 1] = self.state.version
      /\ \A v \in 1 .. n : row[v] = decided[a][v]
      /\ row = [v \in DOMAIN row |-> row[v]]
  <2>1. /\ DOMAIN row = DOMAIN decided[a] \cup {n + 1}
        /\ \A v \in DOMAIN row : row[v] = IF v = n + 1 THEN self.state.version ELSE decided[a][v]
        /\ row = [v \in DOMAIN row |-> row[v]]
    BY DEF Insert
  <2>2. DOMAIN decided[a] = 1 .. n
    BY <1>1, <1>4
  <2> HIDE DEF row, n
  <2> QED BY <1>1, <2>1, <2>2
<1> HIDE DEF new, row, event
<1>8. ASSUME NEW v \in 1 .. n + 1
      PROVE  row[v] \in Nat /\ row[v] < v /\ LegalAfter(ReplayTo(new, row[v]), new[v])
  <2>1. CASE v = n + 1
    <3>1. self.state.version \in 0 .. n /\ self.state = ReplayTo(log, self.state.version)
      BY <1>1, <1>3 DEF Replayed
    <3>2. self.state = ReplayTo(new, row[v])
      BY <1>6, <1>7, <2>1, <3>1
    <3>3. row[v] = self.state.version /\ new[v] = event
      BY <1>6, <1>7, <2>1
    <3>4. self.state.version < v
      BY <1>1, <2>1, <3>1
    <3>5. LegalAfter(ReplayTo(new, row[v]), new[v])
      BY <1>3, <3>2, <3>3
    <3> QED BY <1>3, <3>3, <3>4, <3>5
  <2>2. CASE v # n + 1
    <3>1. v \in 1 .. n
      BY <1>1, <2>2
    <3>2. /\ decided[a][v] \in Nat /\ decided[a][v] < v
          /\ LegalAfter(ReplayTo(log, decided[a][v]), log[v])
      BY <1>1, <1>4, <3>1
    <3>3. decided[a][v] \in 0 .. n
      <4>1. n \in Nat
        BY <1>1
      <4> HIDE DEF n, a
      <4> QED BY <3>1, <3>2, <4>1
    <3> QED BY <1>6, <1>7, <3>1, <3>2, <3>3
  <2> QED BY <2>1, <2>2
<1>9. ASSUME NEW b \in Accounts
      PROVE  /\ DOMAIN decided'[b] = DOMAIN events'[b]
             /\ decided'[b] \in [DOMAIN decided'[b] -> Nat]
             /\ \A v \in DOMAIN events'[b] :
                  /\ decided'[b][v] < v
                  /\ LegalAfter(ReplayTo(events'[b], decided'[b][v]), events'[b][v])
  <2>1. CASE b = a
    <3>1. decided'[b] = row /\ events'[b] = new
      BY <1>2, <1>5, <2>1
    <3> QED BY <1>6, <1>7, <1>8, <3>1
  <2>2. CASE b # a
    <3>1. decided'[b] = decided[b] /\ events'[b] = events[b]
      BY <1>2, <1>5, <2>2
    <3> QED BY <1>4, <3>1
  <2> QED BY <2>1, <2>2
<1>10. DOMAIN decided' = Accounts
  BY <1>5
<1> QED BY <1>9, <1>10 DEF DecidedInv

LEMMA CommitEventInvariant ==
  ASSUME IInv, NEW r \in Requests, CommitEvent(r)
  PROVE  IInv'
<1> DEFINE self == task[Http(r)]
           a == self.op.acct
           new == IF self.op.kind = "open" THEN Answer(self, "ok")
                  ELSE [self EXCEPT !.pc = "readSnapshot"]
<1>1. /\ Http(r) \in Tasks /\ Http(r)[1] = r /\ self \in Task
      /\ TaskInv(Http(r), self) /\ a \in Accounts
  BY TaskNames, TaskFacts
<1>2. self.pc = "commit" /\ locked' = locked \ {r} /\ snapshots' = snapshots
  BY DEF CommitEvent
<1>3. task' = [u \in Tasks |-> IF u = Http(r) THEN new ELSE task[u]]
  BY DEF CommitEvent, IInv, TasksInv
<1>4. /\ self.version = LastVersion(events[a]) + 1
      /\ events' = [b \in Accounts |-> IF b = a THEN Insert(events[a], self.version, EventOf(self.op))
                                       ELSE events[b]]
      /\ \A b \in Accounts :
           /\ IsLog(events'[b])
           /\ DOMAIN events[b] \subseteq DOMAIN events'[b]
           /\ LastVersion(events[b]) <= LastVersion(events'[b])
           /\ \A state \in AccountState :
                Replayed(events[b], state) => Replayed(events'[b], state)
  BY CommitGrowsOneLog
<1>5. LogsInv'
  BY <1>4 DEF LogsInv, IsLog
<1>6. SnapshotsInv'
  <2>1. DOMAIN snapshots = Accounts
    BY DEF IInv, SnapshotsInv
  <2>2. ASSUME NEW b \in Accounts, NEW v \in DOMAIN snapshots[b]
        PROVE  /\ v \in DOMAIN events'[b]
               /\ snapshots[b][v] \in AccountState
               /\ snapshots[b][v].version = v
               /\ Replayed(events'[b], snapshots[b][v])
    BY <1>4 DEF IInv, SnapshotsInv
  <2> QED BY <1>2, <2>1, <2>2 DEF IInv, SnapshotsInv, Replayed
<1>7. DecidedInv'
  BY CommitDecided
<1>8. new \in Task /\ new.op = self.op /\ new.state = self.state /\ new.base = EmptyAccountState
      /\ new.version = self.version /\ new.floor = self.floor
      /\ \/ new.pc = "done" /\ new.status = "ok" /\ new.op.kind = "open"
         \/ new.pc = "readSnapshot" /\ new.status = self.status /\ new.op.kind # "open"
  <2>1. EmptyAccountState \in AccountState /\ self.base = EmptyAccountState
    <3>1. IsLog(events[a])
      BY <1>1 DEF IInv, LogsInv
    <3> QED BY <1>1, <1>2, <3>1, EmptyIsReplayed DEF TaskInv, ControlInv
  <2> QED BY <1>1, <2>1 DEF Answer, Task, Places, Statuses
<1> HIDE DEF new
<1>9. LocksInv'
  <2>1. \A q \in Requests : task'[Http(q)].op = task[Http(q)].op
    BY <1>3, <1>8, TaskNames
  <2> QED BY <1>2, <2>1 DEF IInv, LocksInv
<1>10. ASSUME NEW u \in Tasks
       PROVE  TaskInv(u, task[u])'
  <2>1. CASE u = Http(r)
    <3>1. task'[u] = new
      BY <1>3, <2>1
    <3>2. ControlInv(u, task[u])'
      BY <1>1, <1>2, <1>8, <2>1, <3>1 DEF TaskInv, ControlInv, Loading, CommandKinds
    <3>3. HoldsLock(u, task[u])'
      BY <1>1, <1>2, <1>8, <2>1, <3>1 DEF HoldsLock, InTransaction
    <3>4. ReadInv(task[u])'
      <4>1. /\ Replayed(events'[a], self.base) /\ Replayed(events'[a], self.state)
            /\ self.floor <= LastVersion(events'[a]) /\ self.version <= LastVersion(events'[a])
        <5>1. /\ Replayed(events[a], self.base) /\ Replayed(events[a], self.state)
              /\ self.base \in AccountState /\ self.state \in AccountState
              /\ self.floor <= LastVersion(events[a]) /\ self.floor \in Nat
          BY <1>1 DEF TaskInv, ReadInv, Task
        <5>2. LastVersion(events'[a]) = LastVersion(events[a]) + 1
          <6>1. EventOf(self.op) \in Event /\ IsLog(events[a])
            BY <1>1, CommitGrowsOneLog DEF IInv, LogsInv
          <6> QED BY <1>1, <1>4, <6>1, InsertNext
        <5>3. LastVersion(events[a]) \in Nat
          BY <1>1 DEF IInv, LogsInv, IsLog
        <5>4. Replayed(events'[a], self.base) /\ Replayed(events'[a], self.state)
          BY <1>1, <1>4, <5>1
        <5>5. /\ self.floor <= LastVersion(events'[a])
              /\ self.version <= LastVersion(events'[a])
          <6>1. self.version = LastVersion(events[a]) + 1
            BY <1>4
          <6> HIDE DEF self, a
          <6> QED BY <5>1, <5>2, <5>3, <6>1
        <5> QED BY <5>4, <5>5
      <4>2. self.op.kind \in CommandKinds /\ self.base = EmptyAccountState
        BY <1>1, <1>2 DEF TaskInv, ControlInv
      <4> QED BY <1>8, <3>1, <4>1, <4>2 DEF ReadInv, InTransaction, Loading
    <3>5. AnswerInv(task[u])'
      BY <1>1, <1>2, <1>8, <3>1 DEF TaskInv, ControlInv, AnswerInv
    <3> QED BY <1>8, <3>1, <3>2, <3>3, <3>4, <3>5 DEF TaskInv
  <2>2. CASE u # Http(r)
    <3> DEFINE b == task[u].op.acct
    <3>1. task'[u] = task[u] /\ TaskInv(u, task[u]) /\ task[u] \in Task /\ b \in Accounts
      BY <1>3, <2>2, TaskFacts
    <3>2. ControlInv(u, task[u])' /\ AnswerInv(task[u])'
      BY <3>1 DEF TaskInv, ControlInv, AnswerInv, Loading, Due
    <3>3. HoldsLock(u, task[u])'
      <4>1. u = Http(u[1]) => u[1] # r
        BY <2>2
      <4> QED BY <1>2, <3>1, <4>1 DEF TaskInv, HoldsLock, InTransaction
    <3>4. ReadInv(task[u])'
      <4>1. InTransaction(task[u]) => events'[b] = events[b]
        <5>1. SUFFICES ASSUME InTransaction(task[u])
                       PROVE  b # a
          BY <1>4, <3>1
        <5>2. u = Http(u[1]) /\ u[1] \in locked /\ r \in locked /\ u[1] # r
          BY <1>1, <1>2, <2>2, <3>1, <5>1 DEF TaskInv, HoldsLock, InTransaction
        <5>3. HashAggregateId[task[Http(u[1])].op.acct] # HashAggregateId[a]
          BY <5>2 DEF IInv, LocksInv
        <5> QED BY <5>2, <5>3
      <4>2. /\ Replayed(events'[b], task[u].base) /\ Replayed(events'[b], task[u].state)
            /\ task[u].floor <= LastVersion(events'[b])
            /\ Loading(task[u]) => task[u].version <= LastVersion(events'[b])
        <5>1. /\ Replayed(events[b], task[u].base) /\ Replayed(events[b], task[u].state)
              /\ task[u].floor <= LastVersion(events[b])
              /\ Loading(task[u]) => task[u].version <= LastVersion(events[b])
              /\ task[u].base \in AccountState /\ task[u].state \in AccountState
              /\ task[u].floor \in Nat /\ task[u].version \in Nat
          BY <3>1 DEF TaskInv, ReadInv, Task
        <5>2. /\ LastVersion(events[b]) \in Nat /\ LastVersion(events'[b]) \in Nat
              /\ LastVersion(events[b]) <= LastVersion(events'[b])
          BY <1>4, <3>1 DEF IInv, LogsInv, IsLog
        <5>3. Replayed(events'[b], task[u].base) /\ Replayed(events'[b], task[u].state)
          BY <1>4, <3>1, <5>1
        <5> QED BY <5>1, <5>2, <5>3
      <4>3. ReadInv(task[u])
        BY <3>1 DEF TaskInv
      <4> QED BY <3>1, <4>1, <4>2, <4>3 DEF ReadInv, InTransaction, Loading
    <3> QED BY <3>1, <3>2, <3>3, <3>4 DEF TaskInv
  <2> QED BY <2>1, <2>2
<1>11. TasksInv'
  BY <1>3, <1>10 DEF TasksInv
<1> QED BY <1>5, <1>6, <1>7, <1>9, <1>11 DEF IInv

-----------------------------------------------------------------------------
(* Tasks that stop: one whose query failed, or all of them.                *)

LEMMA StopTask ==
  ASSUME IInv, NEW t \in Tasks
  PROVE  LET new == Stop(task[t])
         IN  /\ new \in Task /\ new.op = task[t].op /\ ~ InTransaction(new)
             /\ ControlInv(t, new) /\ ReadInv(new) /\ AnswerInv(new)
<1> DEFINE self == task[t]
           a == self.op.acct
           new == Stop(self)
<1>1. /\ self \in Task /\ TaskInv(t, self) /\ IsLog(events[a])
  BY TaskFacts
<1>2. EmptyAccountState \in AccountState /\ Replayed(events[a], EmptyAccountState)
  BY <1>1, EmptyIsReplayed
<1>3. /\ new \in Task /\ new.op = self.op /\ new.pc = "done" /\ new.status = "failed"
      /\ new.state = self.state /\ new.base = EmptyAccountState
      /\ new.version = self.version /\ new.floor = self.floor
  BY <1>1, <1>2 DEF Stop, Answer, Task, Places, Statuses
<1> HIDE DEF new
<1>4. ControlInv(t, new)
  BY <1>1, <1>3 DEF TaskInv, ControlInv, Loading
<1>5. ReadInv(new)
  BY <1>1, <1>2, <1>3 DEF TaskInv, ReadInv, InTransaction, Loading
<1>6. AnswerInv(new)
  BY <1>3 DEF AnswerInv
<1>7. ~ InTransaction(new)
  BY <1>3 DEF InTransaction
<1> QED BY <1>3, <1>4, <1>5, <1>6, <1>7 DEF new

\* Whatever set of tasks stops at once, their locks are given back and the
\* tables stay.
LEMMA FailInvariant ==
  ASSUME IInv, NEW stopped \in SUBSET Tasks, Fail(stopped)
  PROVE  IInv'
<1>1. /\ task' = [t \in Tasks |-> IF t \in stopped THEN Stop(task[t]) ELSE task[t]]
      /\ locked' = {r \in locked : Http(r) \notin stopped}
      /\ UNCHANGED <<events, snapshots, decided>>
  BY DEF Fail
<1>2. LogsInv' /\ DecidedInv'
  BY <1>1 DEF IInv, LogsInv, DecidedInv
<1>3. SnapshotsInv'
  BY <1>1 DEF IInv, SnapshotsInv, Replayed
<1>4. \A t \in Tasks : task'[t].op = task[t].op
  BY <1>1, StopTask
<1>5. LocksInv'
  <2>1. locked' \subseteq locked /\ locked \subseteq Requests
    BY <1>1 DEF IInv, LocksInv
  <2>2. \A r \in locked' : task'[Http(r)].op = task[Http(r)].op
    BY <1>4, <2>1, TaskNames
  <2> QED BY <2>1, <2>2 DEF IInv, LocksInv
<1>6. TasksInv'
  <2>1. ASSUME NEW t \in Tasks
        PROVE  TaskInv(t, task[t])'
    <3>1. CASE t \in stopped
      <4> DEFINE new == Stop(task[t])
      <4>1. /\ new \in Task /\ ~ InTransaction(new)
            /\ ControlInv(t, new) /\ ReadInv(new) /\ AnswerInv(new)
        BY StopTask
      <4>2. task'[t] = new
        BY <1>1, <3>1
      <4> HIDE DEF new
      <4>3. HoldsLock(t, task[t])'
        BY <1>1, <3>1, <4>1, <4>2 DEF HoldsLock, InTransaction
      <4>4. ControlInv(t, task[t])' /\ AnswerInv(task[t])'
        BY <4>1, <4>2 DEF ControlInv, AnswerInv, Loading, Due
      <4>5. ReadInv(task[t])'
        BY <1>1, <4>1, <4>2 DEF ReadInv, InTransaction, Loading
      <4> QED BY <4>1, <4>2, <4>3, <4>4, <4>5 DEF TaskInv
    <3>2. CASE t \notin stopped
      <4>1. task'[t] = task[t] /\ TaskInv(t, task[t])
        BY <1>1, <3>2 DEF IInv, TasksInv
      <4>2. t = Http(t[1]) => (t[1] \in locked <=> t[1] \in locked')
        BY <1>1, <3>2
      <4>3. HoldsLock(t, task[t])'
        BY <4>1, <4>2 DEF TaskInv, HoldsLock, InTransaction
      <4>4. ControlInv(t, task[t])' /\ AnswerInv(task[t])'
        BY <4>1 DEF TaskInv, ControlInv, AnswerInv, Loading, Due
      <4>5. ReadInv(task[t])'
        BY <1>1, <4>1 DEF TaskInv, ReadInv, InTransaction, Loading
      <4> QED BY <4>1, <4>3, <4>4, <4>5 DEF TaskInv
    <3> QED BY <3>1, <3>2
  <2> QED BY <1>1, <2>1 DEF TasksInv
<1> QED BY <1>2, <1>3, <1>5, <1>6 DEF IInv

-----------------------------------------------------------------------------
(* The theorems.                                                           *)

LEMMA NextIInv == IInv /\ [Next]_vars => IInv'
<1> SUFFICES ASSUME IInv, [Next]_vars PROVE IInv'
  OBVIOUS
<1>1. CASE \E r \in Requests : AccountController(r)
  BY <1>1, ControllerInvariant
<1>2. CASE \E r \in Requests : AppendEvent(r)
  BY <1>2, LockAndReadVersionInvariant, InsertEventInvariant, CommitEventInvariant
     DEF AppendEvent
<1>3. CASE \E t \in Tasks : AccountService(t)
  BY <1>3, ReadSnapshotInvariant, ReadEventsInvariant, ReadLogInvariant,
     ListAccountsInvariant, RebuildNextInvariant, FindSnapshotInvariant,
     SaveSnapshotInvariant DEF AccountService, Load, RebuildAll, TakeSnapshot
<1>4. CASE TaskFails
  <2>1. PICK t \in Tasks : Fail({t})
    BY <1>4 DEF TaskFails, Unfinished
  <2> QED BY <2>1, FailInvariant
<1>5. CASE Bootstrap
  <2>1. Unfinished \in SUBSET Tasks
    BY DEF Unfinished
  <2> QED BY <1>5, <2>1, FailInvariant DEF Bootstrap
<1>6. CASE UNCHANGED vars
  BY <1>6, StepTasks DEF IInv, TasksInv, vars
<1> QED BY <1>1, <1>2, <1>3, <1>4, <1>5, <1>6 DEF Next, AllServed

\* The strengthening holds in every reachable state: what each task has read
\* is consistent with the tables, and the locks keep the next version free.
THEOREM Invariance == Spec => []IInv
<1> QED BY InitIInv, NextIInv, PTL DEF Spec

\* Types: the rows of the three tables and the fields of every task.
THEOREM TypeCorrect == Spec => []TypeOK
<1>1. IInv => TypeOK
  <2> SUFFICES ASSUME IInv PROVE TypeOK
    OBVIOUS
  <2>1. ASSUME NEW a \in Accounts
        PROVE  /\ events[a] \in [DOMAIN events[a] -> Event]
               /\ DOMAIN events[a] \subseteq Nat \ {0}
               /\ snapshots[a] \in [DOMAIN snapshots[a] -> AccountState]
               /\ DOMAIN snapshots[a] \subseteq Nat
               /\ decided[a] \in [DOMAIN decided[a] -> Nat]
    <3>1. events[a] \in [DOMAIN events[a] -> Event] /\ DOMAIN events[a] \subseteq Nat \ {0}
      BY DEF IInv, LogsInv, IsLog
    <3>2. DOMAIN snapshots[a] \subseteq DOMAIN events[a]
      BY DEF IInv, SnapshotsInv
    <3>3. snapshots[a] \in [DOMAIN snapshots[a] -> AccountState]
      BY DEF IInv, SnapshotsInv
    <3> QED BY <3>1, <3>2, <3>3 DEF IInv, DecidedInv
  <2>2. DOMAIN events = Accounts /\ DOMAIN snapshots = Accounts /\ DOMAIN decided = Accounts
    BY DEF IInv, LogsInv, SnapshotsInv, DecidedInv
  <2>3. task \in [Tasks -> Task]
    BY DEF IInv, TasksInv, TaskInv
  <2>4. locked \subseteq Requests
    BY DEF IInv, LocksInv
  <2> QED BY <2>1, <2>2, <2>3, <2>4 DEF TypeOK
<1> QED BY <1>1, Invariance, PTL

\* The versions of an account have no hole (_appendEvent).
THEOREM NoHoles == Spec => []VersionsGapless
<1>1. IInv => VersionsGapless
  BY DEF IInv, LogsInv, IsLog, VersionsGapless
<1> QED BY <1>1, Invariance, PTL

\* No append is refused by the unique index, whatever the hash of the locks.
THEOREM LockPreventsConflicts == Spec => []NoVersionConflict
<1>1. IInv => NoVersionConflict
  BY TaskNames DEF IInv, TasksInv, TaskInv, ControlInv, NoVersionConflict
<1> QED BY <1>1, Invariance, PTL

\* Every snapshot is the replay of the log up to its version (takeSnapshot).
THEOREM SnapshotsFaithful == Spec => []SnapshotsAreReplays
<1>1. IInv => SnapshotsAreReplays
  BY DEF IInv, SnapshotsInv, Replayed, SnapshotsAreReplays
<1> QED BY <1>1, Invariance, PTL

\* Every load is the replay of a prefix of the log (_loadState,
\* getStateAtVersion), although it makes two queries in two transactions.
THEOREM LoadsFaithful == Spec => []LoadsAreReplays
<1>1. IInv => LoadsAreReplays
  BY DEF IInv, TasksInv, TaskInv, ReadInv, Replayed, LoadsAreReplays
<1> QED BY <1>1, Invariance, PTL

\* An answer is as recent as the start of its load, and as its own command.
THEOREM ReadsAreFresh == Spec => []AnswersAreFresh
<1>1. IInv => AnswersAreFresh
  BY DEF IInv, TasksInv, TaskInv, AnswerInv, Due, AnswersAreFresh
<1> QED BY <1>1, Invariance, PTL

\* Every event was legal at an earlier version: the strongest form of the
\* balance and status checks that survives their race with other appends.
THEOREM EventsLegal == Spec => []EventsWereLegalWhenChecked
<1>1. IInv => EventsWereLegalWhenChecked
  BY DEF IInv, DecidedInv, EventsWereLegalWhenChecked
<1> QED BY <1>1, Invariance, PTL
-----------------------------------------------------------------------------
(* Answered commands.  The strengthening follows a command from its commit *)
(* on: it owns one row of the log while it loads the state for its answer. *)

Committed(self) ==
  /\ self.op.kind \in CommandKinds
  /\ self.status = "ok" \/ (Loading(self) /\ self.version > 0)

OwnsRow(self) ==
  LET log == events[self.op.acct]
  IN  self.version \in DOMAIN log /\ log[self.version] = EventOf(self.op)

LoggedInv ==
  /\ \A t \in Tasks : Committed(task[t]) => OwnsRow(task[t])
  /\ \A t, u \in Tasks :
       /\ t # u /\ Committed(task[t]) /\ Committed(task[u])
       /\ task[t].op.acct = task[u].op.acct
       => task[t].version # task[u].version

\* A step that commits nothing and answers no command that was not committed.
LEMMA NoNewCommand ==
  ASSUME LoggedInv, UNCHANGED events,
         \A t \in Tasks : Committed(task'[t]) =>
           /\ Committed(task[t])
           /\ task'[t].op = task[t].op
           /\ task'[t].version = task[t].version
  PROVE  LoggedInv'
BY DEF LoggedInv, Committed, OwnsRow, Loading

\* The same for a step of one task.
LEMMA NoNewCommandOfOne ==
  ASSUME IInv, LoggedInv, UNCHANGED events, NEW t \in Tasks, NEW new,
         task' = [task EXCEPT ![t] = new],
         Committed(new) => /\ Committed(task[t])
                           /\ new.op = task[t].op
                           /\ new.version = task[t].version
  PROVE  LoggedInv'
<1>1. \A u \in Tasks : task'[u] = IF u = t THEN new ELSE task[u]
  BY DEF IInv, TasksInv
<1> QED BY <1>1, NoNewCommand

LEMMA ControllerLogged ==
  ASSUME IInv, LoggedInv, NEW r \in Requests, AccountController(r)
  PROVE  LoggedInv'
<1>1. ASSUME NEW op, NEW place, Start(r, op, place)
      PROVE  LoggedInv'
  <2> DEFINE new == [IdleTask EXCEPT !.pc = place, !.op = op]
  <2>1. task' = [task EXCEPT ![Http(r)] = new] /\ UNCHANGED events
    BY <1>1 DEF Start
  <2>2. new.status = "pending" /\ new.version = 0
    BY DEF IdleTask
  <2>3. ~ Committed(new)
    BY <2>2 DEF Committed
  <2> QED BY <2>1, <2>3, TaskNames, NoNewCommandOfOne
<1> QED BY <1>1 DEF AccountController, OpenAccount, LoadAccount, AskLog, AskStateAt, AskRebuild

\* Answer keeps the operation and the version.
LEMMA AnswerFields ==
  ASSUME NEW self \in Task, NEW status \in Statuses
  PROVE  LET new == Answer(self, status)
         IN  /\ new.op = self.op /\ new.version = self.version
             /\ new.status = status /\ new.pc = "done"
BY DEF Answer, Task

\* The places of a load: only a command that has committed is answered there.
LEMMA ReadEventsLogged ==
  ASSUME IInv, LoggedInv, NEW t \in Tasks, ReadEvents(t)
  PROVE  LoggedInv'
<1> DEFINE self == task[t]
           log == events[self.op.acct]
           read == [self EXCEPT !.state = ReplayFrom(self.base, log),
                                !.base = EmptyAccountState]
           new == IF DOMAIN log = {} /\ self.base.version = 0
                  THEN Answer(self, "not_found") ELSE AfterLoad(read)
<1>1. self \in Task /\ TaskInv(t, self)
  BY TaskFacts
<1>2. /\ self.pc = "readEvents" /\ task' = [task EXCEPT ![t] = new]
      /\ UNCHANGED events
  BY DEF ReadEvents
<1>3. /\ read.op = self.op /\ read.version = self.version /\ read.pc = "readEvents"
      /\ read.status = self.status
      /\ Answer(read, "ok").op = self.op /\ Answer(read, "ok").version = self.version
      /\ Answer(read, "rejected").status = "rejected"
      /\ Answer(read, "rejected").pc = "done"
  BY <1>1, <1>2 DEF Task, Answer
<1>4. /\ Answer(self, "not_found").status = "not_found"
      /\ Answer(self, "not_found").pc = "done"
  BY <1>1 DEF Task, Answer
<1>5. /\ self.status = "pending" /\ self.version \in Nat
      /\ self.op.kind \in {"snapshot", "rebuild"} => ~ (self.version > 0)
  BY <1>1, <1>2 DEF TaskInv, ControlInv, ReadInv, CommandKinds, Task, Statuses
<1>6. Committed(new) => /\ Committed(self)
                        /\ new.op = self.op /\ new.version = self.version
  <2>1. CASE DOMAIN log = {} /\ self.base.version = 0
    BY <1>4, <2>1 DEF Committed, Loading
  <2>2. CASE ~ (DOMAIN log = {} /\ self.base.version = 0)
    <3>1. new = AfterLoad(read)
      BY <2>2
    <3>2. CASE read.op.kind = "get" \/ read.version > 0
      <4>1. new = Answer(read, "ok")
        <5>1. read.op.kind \notin {"snapshot", "rebuild"}
          BY <1>3, <1>5, <3>2
        <5> HIDE DEF read
        <5> QED BY <3>1, <3>2, <5>1 DEF AfterLoad
      <4>2. new.op = self.op /\ new.version = self.version
        BY <1>3, <4>1
      <4> HIDE DEF new, read
      <4>3. Committed(new) => self.op.kind \in CommandKinds
        BY <4>2 DEF Committed
      <4>4. self.op.kind \in CommandKinds => self.version > 0
        BY <1>3, <3>2 DEF CommandKinds
      <4> QED BY <1>2, <4>2, <4>3, <4>4 DEF Committed, Loading
    <3>3. CASE ~ (read.op.kind = "get" \/ read.version > 0)
      <4>1. \/ new.op.kind \in {"snapshot", "rebuild"}
            \/ new.status = "rejected" /\ new.pc = "done"
            \/ new.status = "pending" /\ new.pc = "append"
        <5> DEFINE Goto(place) == [read EXCEPT !.pc = place]
        <5>1. \A place : /\ Goto(place).op = self.op /\ Goto(place).pc = place
                         /\ Goto(place).status = "pending"
          BY <1>1, <1>3, <1>5 DEF Task
        <5>2. \/ read.op.kind = "snapshot" /\ new = Goto("findSnapshot")
              \/ read.op.kind = "rebuild" /\ new = Goto("rebuild")
              \/ new = Answer(read, "rejected")
              \/ new = Goto("append")
          <6> HIDE DEF read
          <6> QED BY <3>1, <3>3 DEF AfterLoad
        <5> HIDE DEF read, new, Goto
        <5> QED BY <1>3, <5>1, <5>2
      <4> HIDE DEF new
      <4> QED BY <4>1 DEF Committed, Loading, CommandKinds
    <3> QED BY <3>2, <3>3
  <2> QED BY <2>1, <2>2
<1> HIDE DEF new
<1> QED BY <1>2, <1>6, NoNewCommandOfOne

LEMMA ServiceLogged ==
  ASSUME IInv, LoggedInv, NEW t \in Tasks, AccountService(t)
  PROVE  LoggedInv'
<1> DEFINE self == task[t]
<1>1. self \in Task /\ TaskInv(t, self)
  BY TaskFacts
<1>2. CASE ReadEvents(t)
  BY <1>2, ReadEventsLogged
<1>3. CASE ReadSnapshot(t)
  <2> DEFINE a == self.op.acct
             new == [self EXCEPT !.pc = "readEvents", !.base = LatestSnapshot(a),
                                 !.floor = LastVersion(events[a])]
  <2>1. self.pc = "readSnapshot" /\ task' = [task EXCEPT ![t] = new] /\ UNCHANGED events
    BY <1>3 DEF ReadSnapshot, IInv, TasksInv
  <2>2. new.op = self.op /\ new.version = self.version /\ new.status = self.status
    BY <1>1 DEF Task
  <2> HIDE DEF new
  <2> QED BY <2>1, <2>2, NoNewCommandOfOne DEF Committed, Loading
<1>4. CASE ReadLog(t) \/ RebuildAll(t) \/ TakeSnapshot(t)
  <2>1. self.op.kind \notin CommandKinds
    BY <1>1, <1>4 DEF TaskInv, ControlInv, ReadLog, RebuildAll, ListAccounts, RebuildNext,
                      TakeSnapshot, FindSnapshot, SaveSnapshot, CommandKinds
  <2>2. \A u \in Tasks : u # t => task'[u] = task[u]
    BY <1>4 DEF IInv, TasksInv, ReadLog, RebuildAll, ListAccounts, RebuildNext,
                TakeSnapshot, FindSnapshot, SaveSnapshot
  <2>3. task'[t].op.kind = self.op.kind /\ UNCHANGED events
    <3>1. CASE ReadLog(t)
      <4> DEFINE log == events[self.op.acct]
                 read == [self EXCEPT !.state = ReplayTo(log, Wanted(self.op, log)),
                                      !.floor = LastVersion(log)]
      <4>1. /\ task' = [task EXCEPT ![t] = Answer(self, "not_found")]
                \/ task' = [task EXCEPT ![t] = Answer(read, "ok")]
            /\ UNCHANGED events
        BY <3>1 DEF ReadLog
      <4>2. Answer(self, "not_found").op = self.op /\ Answer(read, "ok").op = self.op
        BY <1>1 DEF Answer, Task
      <4> HIDE DEF read
      <4> QED BY <4>1, <4>2 DEF IInv, TasksInv
    <3>2. CASE ListAccounts(t)
      BY <1>1, <3>2 DEF ListAccounts, IInv, TasksInv, Task
    <3>3. CASE RebuildNext(t)
      <4>1. CASE \E a \in self.todo :
                   task' = [task EXCEPT ![t].pc = "readSnapshot", ![t].op.acct = a,
                               ![t].todo = @ \ {a},
                               ![t].state = EmptyAccountState, ![t].floor = 0]
        <5>1. PICK a \in self.todo :
                task' = [task EXCEPT ![t].pc = "readSnapshot", ![t].op.acct = a,
                               ![t].todo = @ \ {a},
                               ![t].state = EmptyAccountState, ![t].floor = 0]
          BY <4>1
        <5> DEFINE new == [self EXCEPT !.pc = "readSnapshot", !.op.acct = a, !.todo = @ \ {a},
                                       !.state = EmptyAccountState, !.floor = 0]
        <5>2. task' = [task EXCEPT ![t] = new]
          BY <1>1, <5>1 DEF Task
        <5>3. new.op.kind = self.op.kind
          BY <1>1 DEF Task, Operation
        <5> HIDE DEF new
        <5> QED BY <3>3, <5>2, <5>3 DEF RebuildNext, IInv, TasksInv
      <4>2. CASE task' = [task EXCEPT ![t] = Answer(@, "ok")]
        <5>1. Answer(self, "ok").op = self.op
          BY <1>1 DEF Answer, Task
        <5> QED BY <3>3, <4>2, <5>1 DEF RebuildNext, IInv, TasksInv
      <4> QED BY <3>3, <4>1, <4>2 DEF RebuildNext
    <3>4. CASE TakeSnapshot(t)
      <4>1. /\ Answer(self, "ok").op = self.op /\ Answer(self, "conflict").op = self.op
            /\ [self EXCEPT !.pc = "saveSnapshot"].op = self.op
        BY <1>1 DEF Answer, Task
      <4> QED BY <3>4, <4>1 DEF TakeSnapshot, FindSnapshot, SaveSnapshot, IInv, TasksInv
    <3> QED BY <1>4, <3>1, <3>2, <3>3, <3>4 DEF RebuildAll
  <2> QED BY <2>1, <2>2, <2>3, NoNewCommand DEF Committed
<1> QED BY <1>2, <1>3, <1>4 DEF AccountService, Load

\* Before its commit an append has not been answered and loads nothing.
LEMMA BeforeCommitLogged ==
  ASSUME IInv, LoggedInv, NEW r \in Requests, LockAndReadVersion(r) \/ InsertEvent(r)
  PROVE  LoggedInv'
<1> DEFINE self == task[Http(r)]
<1>1. self \in Task /\ TaskInv(Http(r), self) /\ Http(r) \in Tasks /\ Job(r) \in Tasks
      /\ Http(r) # Job(r)
  BY TaskFacts, TaskNames
<1>2. self.status = "pending" /\ self.pc \in {"append", "insert"}
  BY <1>1 DEF TaskInv, ControlInv, Task, Statuses, LockAndReadVersion, InsertEvent
<1>3. CASE LockAndReadVersion(r)
  <2> DEFINE new == [self EXCEPT !.pc = "insert", !.version = NextVersion(self.op.acct)]
  <2>1. task' = [task EXCEPT ![Http(r)] = new] /\ UNCHANGED events
    BY <1>1, <1>3 DEF LockAndReadVersion, IInv, TasksInv
  <2>2. new.status = "pending" /\ new.pc = "insert"
    BY <1>1, <1>2 DEF Task
  <2> HIDE DEF new
  <2> QED BY <1>1, <2>1, <2>2, NoNewCommandOfOne DEF Committed, Loading
<1>4. CASE InsertEvent(r)
  <2>1. CASE self.version \in DOMAIN events[self.op.acct]
    <3> DEFINE new == Answer(self, "conflict")
    <3>1. task' = [task EXCEPT ![Http(r)] = new] /\ UNCHANGED events
      BY <1>4, <2>1 DEF InsertEvent
    <3>2. new.status = "conflict" /\ new.pc = "done"
      BY <1>1 DEF Answer, Task
    <3> HIDE DEF new
    <3> QED BY <1>1, <3>1, <3>2, NoNewCommandOfOne DEF Committed, Loading
  <2>2. CASE self.version \notin DOMAIN events[self.op.acct]
    <3> DEFINE new == [self EXCEPT !.pc = "commit"]
               job == StartAutoSnapshot(r)
    <3>1. task' = [task EXCEPT ![Http(r)].pc = "commit", ![Job(r)] = job] /\ UNCHANGED events
      BY <1>4, <2>2 DEF InsertEvent
    <3>2. \A u \in Tasks : task'[u] = IF u = Job(r) THEN job
                                       ELSE IF u = Http(r) THEN new ELSE task[u]
      <4> HIDE DEF job
      <4> QED BY <1>1, <3>1 DEF IInv, TasksInv
    <3>3. new.status = "pending" /\ new.pc = "commit"
      BY <1>1, <1>2 DEF Task
    <3>4. ~ Committed(new)
      <4> HIDE DEF new
      <4> QED BY <3>3 DEF Committed, Loading
    <3>5. job = task[Job(r)] \/ ~ Committed(job)
      <4> DEFINE fresh == [IdleTask EXCEPT !.pc = "readSnapshot",
                             !.op = [kind |-> "snapshot", acct |-> self.op.acct, arg |-> 0]]
      <4>1. fresh.op.kind = "snapshot"
        BY DEF IdleTask
      <4>2. ~ Committed(fresh)
        <5> HIDE DEF fresh
        <5> QED BY <4>1 DEF Committed, CommandKinds
      <4> HIDE DEF fresh
      <4>3. job = fresh \/ job = task[Job(r)]
        BY DEF StartAutoSnapshot, fresh
      <4> QED BY <4>2, <4>3
    <3> HIDE DEF new, job
    <3> QED BY <3>1, <3>2, <3>4, <3>5, NoNewCommand
  <2> QED BY <2>1, <2>2
<1> QED BY <1>3, <1>4

\* The commit gives the command a row nobody owns.
LEMMA CommitLogged ==
  ASSUME IInv, LoggedInv, NEW r \in Requests, CommitEvent(r)
  PROVE  LoggedInv'
<1> DEFINE self == task[Http(r)]
           a == self.op.acct
           log == events[a]
           n == LastVersion(log)
           new == IF self.op.kind = "open" THEN Answer(self, "ok")
                  ELSE [self EXCEPT !.pc = "readSnapshot"]
<1>1. /\ self \in Task /\ TaskInv(Http(r), self) /\ a \in Accounts
      /\ Http(r) \in Tasks /\ IsLog(log) /\ n \in Nat
  BY TaskFacts, TaskNames
<1>2. /\ self.pc = "commit" /\ task' = [task EXCEPT ![Http(r)] = new]
      /\ events' = [events EXCEPT ![a] = Insert(log, self.version, EventOf(self.op))]
  BY DEF CommitEvent
<1>3. self.version = n + 1
  BY <1>1, <1>2 DEF TaskInv, ReadInv, InTransaction
<1>4. new.op = self.op /\ new.version = n + 1
  BY <1>1, <1>3 DEF Answer, Task
<1>5. \A u \in Tasks : task'[u] = IF u = Http(r) THEN new ELSE task[u]
  BY <1>2 DEF IInv, TasksInv
<1> HIDE DEF new
<1>6. DOMAIN log = 1 .. n /\ DOMAIN events = Accounts
  BY <1>1 DEF IsLog, IInv, LogsInv
<1>7. /\ n + 1 \in DOMAIN events'[a] /\ events'[a][n + 1] = EventOf(self.op)
      /\ \A b \in Accounts : /\ DOMAIN events[b] \subseteq DOMAIN events'[b]
                             /\ \A v \in DOMAIN events[b] : events'[b][v] = events[b][v]
  <2> DEFINE row == Insert(log, n + 1, EventOf(self.op))
  <2>1. n + 1 \in DOMAIN row /\ row[n + 1] = EventOf(self.op)
    BY DEF Insert
  <2>2. events'[a] = row
    <3> HIDE DEF row
    <3> QED BY <1>1, CommitGrowsOneLog DEF row
  <2> HIDE DEF row
  <2> QED BY <2>1, <2>2, CommitGrowsOneLog
<1>8. ASSUME NEW t \in Tasks, Committed(task'[t])
      PROVE  OwnsRow(task[t])'
  <2>1. CASE t = Http(r)
    BY <1>4, <1>5, <1>7, <2>1 DEF OwnsRow
  <2>2. CASE t # Http(r)
    <3>1. task'[t] = task[t] /\ OwnsRow(task[t]) /\ task[t].op.acct \in Accounts
      BY <1>5, <1>8, <2>2, TaskFacts DEF LoggedInv
    <3> QED BY <1>7, <3>1 DEF OwnsRow
  <2> QED BY <2>1, <2>2
<1>9. ASSUME NEW t \in Tasks \ {Http(r)}, Committed(task'[t]), task'[t].op.acct = a
      PROVE  task'[t].version # n + 1
  <2>1. task'[t] = task[t] /\ OwnsRow(task[t])
    BY <1>5, <1>9 DEF LoggedInv
  <2>2. task[t].version \in 1 .. n
    BY <1>6, <1>9, <2>1 DEF OwnsRow
  <2>3. \A v \in 1 .. n : v # n + 1
    BY <1>1
  <2> QED BY <2>1, <2>2, <2>3
<1>10. ASSUME NEW t \in Tasks, NEW u \in Tasks, t # u,
              Committed(task'[t]), Committed(task'[u]),
              task'[t].op.acct = task'[u].op.acct
       PROVE  task'[t].version # task'[u].version
  <2>1. CASE t = Http(r)
    BY <1>4, <1>5, <1>9, <1>10, <2>1
  <2>2. CASE u = Http(r)
    BY <1>4, <1>5, <1>9, <1>10, <2>2
  <2>3. CASE t # Http(r) /\ u # Http(r)
    BY <1>5, <1>10, <2>3 DEF LoggedInv
  <2> QED BY <2>1, <2>2, <2>3
<1> QED BY <1>8, <1>10 DEF LoggedInv, Committed, Loading

LEMMA FailLogged ==
  ASSUME IInv, LoggedInv, NEW stopped \in SUBSET Tasks, Fail(stopped)
  PROVE  LoggedInv'
<1>1. ASSUME NEW t \in Tasks, Committed(task'[t])
      PROVE  task'[t] = task[t]
  <2>1. CASE t \in stopped
    <3>1. task[t] \in Task /\ task'[t] = Stop(task[t])
      BY <2>1, TaskFacts DEF Fail
    <3>2. Stop(task[t]).status = "failed" /\ Stop(task[t]).pc = "done"
      BY <3>1 DEF Stop, Answer, Task
    <3> QED BY <1>1, <3>1, <3>2 DEF Committed, Loading
  <2>2. CASE t \notin stopped
    BY <2>2 DEF Fail
  <2> QED BY <2>1, <2>2
<1> QED BY <1>1, NoNewCommand DEF Fail

LEMMA NextLogged == IInv /\ LoggedInv /\ [Next]_vars => LoggedInv'
<1> SUFFICES ASSUME IInv, LoggedInv, [Next]_vars PROVE LoggedInv'
  OBVIOUS
<1>1. CASE \E r \in Requests : AccountController(r) \/ AppendEvent(r)
  BY <1>1, ControllerLogged, BeforeCommitLogged, CommitLogged DEF AppendEvent
<1>2. CASE \E t \in Tasks : AccountService(t)
  BY <1>2, ServiceLogged
<1>3. CASE TaskFails
  <2>1. PICK t \in Tasks : Fail({t})
    BY <1>3 DEF TaskFails, Unfinished
  <2> QED BY <2>1, FailLogged
<1>4. CASE Bootstrap
  <2>1. Unfinished \in SUBSET Tasks
    BY DEF Unfinished
  <2> QED BY <1>4, <2>1, FailLogged DEF Bootstrap
<1>5. CASE UNCHANGED vars
  BY <1>5, NoNewCommand DEF vars
<1> QED BY <1>1, <1>2, <1>3, <1>4, <1>5 DEF Next, AllServed

\* Every command answered with success owns one row of the log, whatever
\* failed, raced or was restarted.
THEOREM AnswersAreLogged == Spec => []AnsweredCommandsAreLogged
<1>1. Init => LoggedInv
  BY DEF Init, LoggedInv, Committed, IdleTask, Loading
<1>2. LoggedInv => AnsweredCommandsAreLogged
  BY TaskNames DEF LoggedInv, Committed, OwnsRow, Answered, AnsweredCommandsAreLogged
<1> QED BY <1>1, <1>2, NextLogged, Invariance, PTL DEF Spec

-----------------------------------------------------------------------------
(* What the tasks of a service leave alone: the facts that the next two    *)
(* invariants need of every step that is neither an arrival, nor of a      *)
(* transaction, nor a failure.                                             *)

Appending(self) == self.pc \in {"append", "insert", "commit"}

\* A task keeps its request; only a rebuild goes from account to account.  It
\* gets to the append of a command once: with the load before it.
LEMMA AfterLoadKeeps ==
  ASSUME NEW self \in Task, self.version = 0 \/ self.op.kind \in CommandKinds
  PROVE  LET new == AfterLoad(self)
         IN  /\ new.op = self.op /\ new.version = self.version
             /\ new.floor = self.floor /\ new.state = self.state
             /\ new.pc \in {"done", "findSnapshot", "rebuild", "append"}
             /\ new.pc = "append" => new.version = 0
             /\ self.op.kind = "snapshot" => new.pc = "findSnapshot" /\ new.status = self.status
<1>1. \A status : LET new == Answer(self, status)
                  IN  /\ new.op = self.op /\ new.version = self.version
                      /\ new.floor = self.floor /\ new.state = self.state
                      /\ new.pc = "done"
  BY DEF Answer, Task
<1>2. \A place : LET new == [self EXCEPT !.pc = place]
                 IN  /\ new.op = self.op /\ new.version = self.version
                     /\ new.floor = self.floor /\ new.state = self.state
                     /\ new.pc = place /\ new.status = self.status
  BY DEF Task
<1>3. self.version \in Nat
  BY DEF Task
<1>4. CASE self.op.kind = "get" \/ self.version > 0
  <2>1. AfterLoad(self) = Answer(self, "ok") /\ self.op.kind # "snapshot"
    BY <1>3, <1>4 DEF AfterLoad, CommandKinds
  <2> QED BY <1>1, <2>1
<1>5. CASE self.op.kind # "get" /\ ~ (self.version > 0)
  <2>1. CASE self.op.kind = "snapshot"
    BY <1>2, <1>5, <2>1 DEF AfterLoad
  <2>2. CASE self.op.kind = "rebuild"
    BY <1>2, <1>5, <2>2 DEF AfterLoad
  <2>3. CASE self.op.kind \notin {"snapshot", "rebuild"}
    <3>1. CASE AfterLoad(self) = Answer(self, "rejected")
      BY <1>1, <2>3, <3>1
    <3>2. CASE AfterLoad(self) = [self EXCEPT !.pc = "append"]
      BY <1>2, <1>3, <1>5, <2>3, <3>2
    <3> QED BY <1>5, <2>3, <3>1, <3>2 DEF AfterLoad
  <2> QED BY <2>1, <2>2, <2>3
<1> QED BY <1>4, <1>5

LEMMA ServiceKeeps ==
  ASSUME IInv, NEW t \in Tasks, AccountService(t)
  PROVE  LET old == task[t]
             new == task'[t]
         IN  /\ UNCHANGED events
             /\ \A u \in Tasks \ {t} : task'[u] = task[u]
             /\ new.op.kind = old.op.kind /\ new.version = old.version
             /\ old.op.kind # "rebuild" => new.op = old.op
             /\ old.pc # "idle" /\ new.pc \notin {"idle", "insert", "commit"}
             /\ new.pc = "append" => new.version = 0 /\ new.op.kind # "open"
             /\ \A a \in Accounts : DOMAIN snapshots[a] \subseteq DOMAIN snapshots'[a]
<1> DEFINE self == task[t]
           log == events[self.op.acct]
<1>1. self \in Task /\ TaskInv(t, self) /\ self.version \in Nat /\ self.op.acct \in Accounts
  BY TaskFacts DEF Task
<1>2. \A new : task' = [task EXCEPT ![t] = new] =>
                 task'[t] = new /\ \A u \in Tasks \ {t} : task'[u] = task[u]
  BY DEF IInv, TasksInv
<1>3. \A a \in Accounts : DOMAIN snapshots[a] \subseteq DOMAIN snapshots[a]
  OBVIOUS
<1>4. CASE ReadSnapshot(t)
  <2> DEFINE new == [self EXCEPT !.pc = "readEvents", !.base = LatestSnapshot(self.op.acct),
                                 !.floor = LastVersion(log)]
  <2>1. self.pc = "readSnapshot" /\ task' = [task EXCEPT ![t] = new]
        /\ UNCHANGED <<events, snapshots>>
    BY <1>4 DEF ReadSnapshot, IInv, TasksInv
  <2>2. new.op = self.op /\ new.version = self.version /\ new.pc = "readEvents"
    BY <1>1 DEF Task
  <2> HIDE DEF new
  <2> QED BY <1>2, <2>1, <2>2
<1>5. CASE ReadEvents(t)
  <2> DEFINE read == [self EXCEPT !.state = ReplayFrom(self.base, log), !.base = EmptyAccountState]
  <2>1. self.pc = "readEvents" /\ UNCHANGED <<events, snapshots>>
        /\ \/ task' = [task EXCEPT ![t] = Answer(self, "not_found")]
           \/ /\ ~ (DOMAIN log = {} /\ self.base.version = 0)
              /\ task' = [task EXCEPT ![t] = AfterLoad(read)]
    BY <1>5 DEF ReadEvents
  <2>2. CASE task' = [task EXCEPT ![t] = Answer(self, "not_found")]
    <3>1. LET new == Answer(self, "not_found")
          IN  new.op = self.op /\ new.version = self.version /\ new.pc = "done"
      BY <1>1 DEF Answer, Task
    <3> QED BY <1>2, <2>1, <2>2, <3>1
  <2>3. CASE /\ ~ (DOMAIN log = {} /\ self.base.version = 0)
             /\ task' = [task EXCEPT ![t] = AfterLoad(read)]
    <3>1. read.op = self.op /\ read.version = self.version
      BY <1>1 DEF Task
    <3>2. read.op.kind # "open" /\ (read.version = 0 \/ read.op.kind \in CommandKinds)
      BY <1>1, <2>1, <3>1 DEF TaskInv, ControlInv, ReadInv, Loading
    <3>3. read \in Task
      <4>1. IsLog(log) /\ self.base \in AccountState /\ Replayed(log, self.base)
        BY <1>1, TaskFacts DEF TaskInv, ReadInv, Task
      <4>2. ReplayFrom(self.base, log) \in AccountState /\ EmptyAccountState \in AccountState
        BY <2>3, <4>1, LoadedState, EmptyIsReplayed
      <4> QED BY <1>1, <4>2 DEF Task
    <3> HIDE DEF read
    <3>4. LET new == AfterLoad(read)
          IN  /\ new.op = self.op /\ new.version = self.version
              /\ new.pc \in {"done", "findSnapshot", "rebuild", "append"}
              /\ new.pc = "append" => new.version = 0
      BY <3>1, <3>2, <3>3, AfterLoadKeeps
    <3> QED BY <1>2, <2>1, <2>3, <3>1, <3>2, <3>4
  <2> QED BY <2>1, <2>2, <2>3
<1>6. CASE ReadLog(t)
  <2> DEFINE read == [self EXCEPT !.state = ReplayTo(log, Wanted(self.op, log)),
                                  !.floor = LastVersion(log)]
  <2>1. /\ self.pc = "readLog" /\ UNCHANGED <<events, snapshots>>
        /\ \/ task' = [task EXCEPT ![t] = Answer(self, "not_found")]
           \/ task' = [task EXCEPT ![t] = Answer(read, "ok")]
    BY <1>6 DEF ReadLog
  <2>2. \A new \in {Answer(self, "not_found"), Answer(read, "ok")} :
          new.op = self.op /\ new.version = self.version /\ new.pc = "done"
    BY <1>1 DEF Answer, Task
  <2> HIDE DEF read
  <2> QED BY <1>2, <2>1, <2>2
<1>7. CASE ListAccounts(t)
  <2> DEFINE new == [self EXCEPT !.pc = "rebuild",
                                 !.todo = {a \in Accounts : DOMAIN events[a] # {}}]
  <2>1. /\ self.pc = "listAccounts" /\ task' = [task EXCEPT ![t] = new]
        /\ UNCHANGED <<events, snapshots>>
    BY <1>7 DEF ListAccounts, IInv, TasksInv
  <2>2. new.op = self.op /\ new.version = self.version /\ new.pc = "rebuild"
    BY <1>1 DEF Task
  <2> HIDE DEF new
  <2> QED BY <1>2, <2>1, <2>2
<1>8. CASE RebuildNext(t)
  <2>1. self.pc = "rebuild" /\ self.op.kind = "rebuild" /\ UNCHANGED <<events, snapshots>>
    BY <1>1, <1>8 DEF RebuildNext, TaskInv, ControlInv
  <2>2. CASE task' = [task EXCEPT ![t] = Answer(@, "ok")]
    <3>1. LET new == Answer(self, "ok")
          IN  new.op = self.op /\ new.version = self.version /\ new.pc = "done"
      BY <1>1 DEF Answer, Task
    <3> QED BY <1>2, <2>1, <2>2, <3>1
  <2>3. CASE \E a \in self.todo :
               task' = [task EXCEPT ![t].pc = "readSnapshot", ![t].op.acct = a,
                                    ![t].todo = @ \ {a},
                                    ![t].state = EmptyAccountState, ![t].floor = 0]
    <3>1. PICK a \in self.todo :
            task' = [task EXCEPT ![t].pc = "readSnapshot", ![t].op.acct = a,
                                 ![t].todo = @ \ {a},
                                 ![t].state = EmptyAccountState, ![t].floor = 0]
      BY <2>3
    <3> DEFINE new == [self EXCEPT !.pc = "readSnapshot", !.op.acct = a, !.todo = @ \ {a},
                                   !.state = EmptyAccountState, !.floor = 0]
    <3>2. task' = [task EXCEPT ![t] = new]
      BY <1>1, <3>1 DEF Task
    <3>3. new.op.kind = self.op.kind /\ new.version = self.version /\ new.pc = "readSnapshot"
      BY <1>1 DEF Task, Operation
    <3> HIDE DEF new
    <3> QED BY <1>2, <2>1, <3>2, <3>3
  <2> QED BY <1>8, <2>2, <2>3 DEF RebuildNext
<1>9. CASE TakeSnapshot(t)
  <2>1. /\ self.pc \in {"findSnapshot", "saveSnapshot"} /\ UNCHANGED events
        /\ \/ task' = [task EXCEPT ![t] = Answer(self, "ok")]
           \/ task' = [task EXCEPT ![t] = Answer(self, "conflict")]
           \/ task' = [task EXCEPT ![t] = [self EXCEPT !.pc = "saveSnapshot"]]
    BY <1>9 DEF TakeSnapshot, FindSnapshot, SaveSnapshot, IInv, TasksInv
  <2>2. \A new \in {Answer(self, "ok"), Answer(self, "conflict"), [self EXCEPT !.pc = "saveSnapshot"]} :
          new.op = self.op /\ new.version = self.version /\ new.pc \in {"done", "saveSnapshot"}
    BY <1>1 DEF Answer, Task
  <2>3. \A a \in Accounts : DOMAIN snapshots[a] \subseteq DOMAIN snapshots'[a]
    <3>1. DOMAIN snapshots = Accounts
      BY DEF IInv, SnapshotsInv
    <3> QED BY <1>1, <1>9, <3>1 DEF TakeSnapshot, FindSnapshot, SaveSnapshot, Insert
  <2> QED BY <1>2, <2>1, <2>2, <2>3
<1> QED BY <1>4, <1>5, <1>6, <1>7, <1>8, <1>9 DEF AccountService, Load, RebuildAll

\* The steps of a transaction before its commit change one request, and the job
\* that it starts.
LEMMA LockKeeps ==
  ASSUME IInv, NEW r \in Requests, LockAndReadVersion(r)
  PROVE  LET old == task[Http(r)]
             new == task'[Http(r)]
         IN  /\ UNCHANGED <<events, snapshots>>
             /\ \A u \in Tasks \ {Http(r)} : task'[u] = task[u]
             /\ old.pc = "append" /\ new.pc = "insert" /\ new.op = old.op
<1> DEFINE self == task[Http(r)]
           new == [self EXCEPT !.pc = "insert", !.version = NextVersion(self.op.acct)]
<1>1. self \in Task /\ Http(r) \in Tasks
  BY TaskNames, TaskFacts
<1>2. /\ self.pc = "append" /\ task' = [task EXCEPT ![Http(r)] = new]
      /\ UNCHANGED <<events, snapshots>>
  BY <1>1 DEF LockAndReadVersion, IInv, TasksInv
<1>3. new.pc = "insert" /\ new.op = self.op
  BY <1>1 DEF Task
<1> HIDE DEF new
<1> QED BY <1>1, <1>2, <1>3 DEF IInv, TasksInv

\* The version that was read under the lock is still free.
LEMMA InsertKeeps ==
  ASSUME IInv, NEW r \in Requests, InsertEvent(r)
  PROVE  LET old == task[Http(r)]
             new == task'[Http(r)]
         IN  /\ UNCHANGED <<events, snapshots>>
             /\ \A u \in Tasks \ {Http(r), Job(r)} : task'[u] = task[u]
             /\ task'[Job(r)] = StartAutoSnapshot(r)
             /\ old.pc = "insert" /\ new.pc = "commit" /\ new.op = old.op
             /\ new.version = old.version
             /\ new.version = LastVersion(events[new.op.acct]) + 1
<1> DEFINE self == task[Http(r)]
           new == [self EXCEPT !.pc = "commit"]
           job == StartAutoSnapshot(r)
           log == events[self.op.acct]
<1>1. /\ self \in Task /\ TaskInv(Http(r), self) /\ IsLog(log) /\ LastVersion(log) \in Nat
      /\ Http(r) \in Tasks /\ Job(r) \in Tasks /\ Http(r) # Job(r)
  BY TaskNames, TaskFacts
<1>2. self.pc = "insert"
  BY DEF InsertEvent
<1>3. self.version = LastVersion(log) + 1
  BY <1>1, <1>2 DEF TaskInv, ReadInv, InTransaction
<1>4. self.version \notin DOMAIN log
  BY <1>1, <1>3 DEF IsLog
<1>5. /\ task' = [task EXCEPT ![Http(r)].pc = "commit", ![Job(r)] = job]
      /\ UNCHANGED <<events, snapshots>>
  BY <1>4 DEF InsertEvent
<1>6. \A u \in Tasks : task'[u] = IF u = Job(r) THEN job
                                  ELSE IF u = Http(r) THEN new ELSE task[u]
  <2> HIDE DEF job
  <2> QED BY <1>1, <1>5 DEF IInv, TasksInv
<1>7. new.pc = "commit" /\ new.op = self.op /\ new.version = self.version
  BY <1>1 DEF Task
<1> HIDE DEF new, job
<1> QED BY <1>1, <1>2, <1>3, <1>5, <1>6, <1>7 DEF job

\* The commit changes one request and the log of its account.
LEMMA CommitKeeps ==
  ASSUME IInv, NEW r \in Requests, CommitEvent(r)
  PROVE  LET old == task[Http(r)]
             new == task'[Http(r)]
         IN  /\ UNCHANGED snapshots
             /\ \A u \in Tasks \ {Http(r)} : task'[u] = task[u]
             /\ old.pc = "commit" /\ new.pc \in {"done", "readSnapshot"}
             /\ new.op = old.op /\ new.version = old.version
<1> DEFINE self == task[Http(r)]
           again == [self EXCEPT !.pc = "readSnapshot"]
<1>1. self \in Task /\ Http(r) \in Tasks
  BY TaskNames, TaskFacts
<1>2. /\ self.pc = "commit" /\ UNCHANGED snapshots
      /\ \/ task' = [task EXCEPT ![Http(r)] = Answer(self, "ok")]
         \/ task' = [task EXCEPT ![Http(r)] = again]
  BY DEF CommitEvent
<1>3. /\ \A new \in {Answer(self, "ok"), again} :
           new.op = self.op /\ new.version = self.version
      /\ Answer(self, "ok").pc = "done" /\ again.pc = "readSnapshot"
  BY <1>1 DEF Answer, Task
<1> HIDE DEF again
<1> QED BY <1>1, <1>2, <1>3 DEF IInv, TasksInv

\* What stops was under way, and is done.
LEMMA FailKeeps ==
  ASSUME IInv, NEW stopped \in SUBSET Unfinished, Fail(stopped)
  PROVE  /\ UNCHANGED <<events, snapshots>>
         /\ \A t \in Tasks : LET new == task'[t]  old == task[t] IN
              \/ new = old
              \/ /\ new.op = old.op /\ new.version = old.version
                 /\ new.pc = "done" /\ new.status = "failed" /\ old.pc # "idle"
<1>1. ASSUME NEW t \in Tasks
      PROVE  LET new == task'[t]  old == task[t] IN
             \/ new = old
             \/ /\ new.op = old.op /\ new.version = old.version
                /\ new.pc = "done" /\ new.status = "failed" /\ old.pc # "idle"
  <2>1. task'[t] = IF t \in stopped THEN Stop(task[t]) ELSE task[t]
    BY DEF Fail
  <2>2. t \in stopped => task[t].pc # "idle"
    BY DEF Unfinished
  <2>3. LET new == Stop(task[t])
        IN  /\ new.op = task[t].op /\ new.version = task[t].version
            /\ new.pc = "done" /\ new.status = "failed"
    BY TaskFacts DEF Stop, Answer, Task
  <2> QED BY <2>1, <2>2, <2>3
<1> QED BY <1>1 DEF Fail

\* What starts is a request without a version.
LEMMA StartKeeps ==
  ASSUME IInv, NEW r \in Requests, NEW op, NEW place, Start(r, op, place)
  PROVE  /\ UNCHANGED <<events, snapshots>>
         /\ \A u \in Tasks \ {Http(r)} : task'[u] = task[u]
         /\ task[Http(r)].pc = "idle" /\ task'[Http(r)].op = op
         /\ task'[Http(r)].pc = place
<1> DEFINE new == [IdleTask EXCEPT !.pc = place, !.op = op]
<1>1. /\ task' = [task EXCEPT ![Http(r)] = new] /\ UNCHANGED <<events, snapshots>>
      /\ task[Http(r)].pc = "idle"
  BY DEF Start
<1>2. new.op = op /\ new.pc = place
  BY DEF IdleTask
<1> HIDE DEF new
<1> QED BY <1>1, <1>2, TaskNames DEF IInv, TasksInv

-----------------------------------------------------------------------------
(* Openings.  That the log of an account begins with its opening and has   *)
(* no other needs to be known of the openings under way: each has an       *)
(* account of its own, and nobody else can append to it before, since any  *)
(* other command has loaded a state of the account.                        *)

OpeningsInv ==
  /\ \A t, u \in Tasks :
       t # u /\ task[t].op.kind = "open" /\ task[u].op.kind = "open"
         => task[t].op.acct # task[u].op.acct
  /\ \A t \in Tasks :
       LET self == task[t]
       IN  /\ self.op.kind = "open" => self.op.arg \in InitialBalances
           /\ self.op.kind = "open" /\ Appending(self) => DOMAIN events[self.op.acct] = {}
           /\ self.op.kind \in {"deposit", "withdraw"} => self.op.arg \in Amounts

\* A step that commits nothing and brings no new command.
LEMMA NoNewOpening ==
  ASSUME OpeningsInv, UNCHANGED events,
         \A t \in Tasks : LET new == task'[t] IN
           new.op.kind \in {"open", "deposit", "withdraw"} =>
             /\ new.op = task[t].op
             /\ new.op.kind = "open" /\ Appending(new) => Appending(task[t])
  PROVE  OpeningsInv'
BY DEF OpeningsInv, Appending

\* A request other than an opening.
LEMMA StartOpenings ==
  ASSUME IInv, OpeningsInv, NEW r \in Requests, NEW op, NEW place, Start(r, op, place),
         op.kind # "open", op.kind \in {"deposit", "withdraw"} => op.arg \in Amounts
  PROVE  OpeningsInv'
<1>1. /\ UNCHANGED events /\ task'[Http(r)].op = op
      /\ \A u \in Tasks \ {Http(r)} : task'[u] = task[u]
  BY StartKeeps
<1> QED BY <1>1 DEF OpeningsInv, Appending

LEMMA OpenAccountOpenings ==
  ASSUME IInv, OpeningsInv, NEW r \in Requests, OpenAccount(r)
  PROVE  OpeningsInv'
<1>1. PICK a \in Accounts, n \in InitialBalances :
        Unused(a) /\ Start(r, [kind |-> "open", acct |-> a, arg |-> n], "append")
  BY DEF OpenAccount
<1> DEFINE op == [kind |-> "open", acct |-> a, arg |-> n]
<1>2. op.kind = "open" /\ op.acct = a /\ op.arg = n
  OBVIOUS
<1>3. Start(r, op, "append")
  BY <1>1
<1> HIDE DEF op
<1>4. /\ UNCHANGED events /\ task'[Http(r)].op = op
      /\ \A u \in Tasks \ {Http(r)} : task'[u] = task[u]
  BY <1>3, StartKeeps
<1>5. DOMAIN events[a] = {} /\ \A t \in Tasks : task[t].op.kind = "open" => task[t].op.acct # a
  BY <1>1 DEF Unused
<1>6. ASSUME NEW t \in Tasks, NEW u \in Tasks, t # u,
             task'[t].op.kind = "open", task'[u].op.kind = "open"
      PROVE  task'[t].op.acct # task'[u].op.acct
  <2>1. CASE t = Http(r)
    BY <1>2, <1>4, <1>5, <1>6, <2>1
  <2>2. CASE u = Http(r)
    BY <1>2, <1>4, <1>5, <1>6, <2>2
  <2>3. CASE t # Http(r) /\ u # Http(r)
    BY <1>4, <1>6, <2>3 DEF OpeningsInv
  <2> QED BY <2>1, <2>2, <2>3
<1>7. ASSUME NEW t \in Tasks
      PROVE  LET new == task'[t]
             IN  /\ new.op.kind = "open" => new.op.arg \in InitialBalances
                 /\ new.op.kind = "open" /\ Appending(new) => DOMAIN events'[new.op.acct] = {}
                 /\ new.op.kind \in {"deposit", "withdraw"} => new.op.arg \in Amounts
  <2>1. CASE t = Http(r)
    BY <1>2, <1>4, <1>5, <2>1
  <2>2. CASE t # Http(r)
    BY <1>4, <2>2 DEF OpeningsInv
  <2> QED BY <2>1, <2>2
<1> QED BY <1>6, <1>7 DEF OpeningsInv, Appending

LEMMA ControllerOpenings ==
  ASSUME IInv, OpeningsInv, NEW r \in Requests, AccountController(r)
  PROVE  OpeningsInv'
<1>1. CASE OpenAccount(r)
  BY <1>1, OpenAccountOpenings
<1>2. CASE LoadAccount(r)
  <2>1. CASE \E a \in Accounts, kind \in {"deposit", "withdraw"}, n \in Amounts :
               Start(r, [kind |-> kind, acct |-> a, arg |-> n], "readSnapshot")
    BY <2>1, StartOpenings
  <2>2. CASE \E a \in Accounts, kind \in {"close", "get", "snapshot"} :
               Start(r, [kind |-> kind, acct |-> a, arg |-> 0], "readSnapshot")
    BY <2>2, StartOpenings
  <2> QED BY <1>2, <2>1, <2>2 DEF LoadAccount
<1>3. CASE AskLog(r)
  BY <1>3, StartOpenings DEF AskLog
<1>4. CASE AskStateAt(r)
  BY <1>4, StartOpenings DEF AskStateAt
<1>5. CASE AskRebuild(r)
  <2> DEFINE op == [AnyOperation EXCEPT !.kind = "rebuild"]
  <2>1. op.kind = "rebuild"
    BY DEF AnyOperation
  <2>2. Start(r, op, "listAccounts")
    BY <1>5 DEF AskRebuild
  <2> HIDE DEF op
  <2> QED BY <2>1, <2>2, StartOpenings
<1> QED BY <1>1, <1>2, <1>3, <1>4, <1>5 DEF AccountController

\* Who commits an opening has an empty log before it, anybody else has not.
LEMMA CommitOpens ==
  ASSUME IInv, OpeningsInv, NEW r \in Requests, CommitEvent(r)
  PROVE  LET self == task[Http(r)]
         IN  self.op.kind = "open" <=> DOMAIN events[self.op.acct] = {}
<1> DEFINE self == task[Http(r)]
           log == events[self.op.acct]
<1>1. /\ self \in Task /\ TaskInv(Http(r), self) /\ IsLog(log) /\ LastVersion(log) \in Nat
      /\ Http(r) \in Tasks
  BY TaskNames, TaskFacts
<1>2. self.pc = "commit"
  BY DEF CommitEvent
<1>3. CASE self.op.kind = "open"
  BY <1>1, <1>2, <1>3 DEF OpeningsInv, Appending
<1>4. CASE self.op.kind # "open"
  <2>1. self.state.version > 0
    <3>1. EventOf(self.op).type # "AccountOpened"
      BY <1>1, <1>2, <1>4 DEF TaskInv, ControlInv, CommandKinds, EventOf
    <3> QED BY <1>1, <1>2, <3>1 DEF TaskInv, ReadInv, LegalAfter
  <2>2. self.state.version \in Nat /\ self.state.version <= LastVersion(log)
    BY <1>1 DEF TaskInv, ReadInv, Replayed, Task, AccountState
  <2> QED BY <1>1, <1>4, <2>1, <2>2 DEF IsLog
<1> QED BY <1>3, <1>4

LEMMA CommitOpenings ==
  ASSUME IInv, OpeningsInv, NEW r \in Requests, CommitEvent(r)
  PROVE  OpeningsInv'
<1> DEFINE self == task[Http(r)]
           a == self.op.acct
<1>1. /\ \A u \in Tasks \ {Http(r)} : task'[u] = task[u]
      /\ task'[Http(r)].op = self.op /\ ~ Appending(task'[Http(r)])
      /\ Http(r) \in Tasks
  BY CommitKeeps, TaskNames DEF Appending
<1>2. \A b \in Accounts \ {a} : events'[b] = events[b]
  BY CommitGrowsOneLog
<1>3. ASSUME NEW t \in Tasks, task'[t].op.kind = "open", Appending(task'[t])
      PROVE  DOMAIN events'[task'[t].op.acct] = {}
  <2>1. t # Http(r) /\ task'[t] = task[t]
    BY <1>1, <1>3
  <2>2. DOMAIN events[task[t].op.acct] = {} /\ task[t].op.acct \in Accounts
    BY <1>3, <2>1, TaskFacts DEF OpeningsInv
  <2>3. task[t].op.acct # a
    <3>1. SUFFICES ASSUME task[t].op.acct = a PROVE FALSE
      OBVIOUS
    <3>2. self.op.kind = "open"
      BY <2>2, <3>1, CommitOpens
    <3> QED BY <1>1, <1>3, <2>1, <3>1, <3>2 DEF OpeningsInv
  <2> QED BY <1>2, <2>1, <2>2, <2>3
<1> QED BY <1>1, <1>3 DEF OpeningsInv, Appending

LEMMA NextOpenings == IInv /\ OpeningsInv /\ [Next]_vars => OpeningsInv'
<1> SUFFICES ASSUME IInv, OpeningsInv, [Next]_vars PROVE OpeningsInv'
  OBVIOUS
<1>1. CASE \E r \in Requests : AccountController(r)
  BY <1>1, ControllerOpenings
<1>2. CASE \E r \in Requests : LockAndReadVersion(r)
  BY <1>2, LockKeeps, NoNewOpening DEF Appending
<1>3. CASE \E r \in Requests : InsertEvent(r)
  <2>1. PICK r \in Requests : InsertEvent(r)
    BY <1>3
  <2>2. task'[Job(r)] = task[Job(r)] \/ task'[Job(r)].op.kind = "snapshot"
    <3>1. task'[Job(r)] = StartAutoSnapshot(r)
      BY <2>1, InsertKeeps
    <3> QED BY <3>1 DEF StartAutoSnapshot, IdleTask
  <2> QED BY <2>1, <2>2, InsertKeeps, NoNewOpening DEF Appending
<1>4. CASE \E r \in Requests : CommitEvent(r)
  BY <1>4, CommitOpenings
<1>5. CASE \E t \in Tasks : AccountService(t)
  <2>1. PICK t \in Tasks : AccountService(t)
    BY <1>5
  <2> QED BY <2>1, ServiceKeeps, NoNewOpening DEF Appending
<1>6. CASE \E stopped \in SUBSET Unfinished : Fail(stopped)
  BY <1>6, FailKeeps, NoNewOpening DEF Appending
<1>7. CASE UNCHANGED vars
  BY <1>7, NoNewOpening DEF vars, Appending
<1>8. TaskFails \/ Bootstrap => \E stopped \in SUBSET Unfinished : Fail(stopped)
  BY DEF TaskFails, Bootstrap
<1> QED BY <1>1, <1>2, <1>3, <1>4, <1>5, <1>6, <1>7, <1>8 DEF Next, AppendEvent, AllServed


\* The rows of a well-formed log are a sequence, and its next row is appended.
LEMMA LogIsSequence ==
  ASSUME NEW log, IsLog(log), NEW event \in Event
  PROVE  /\ Insert(log, LastVersion(log) + 1, event) = Append(log, event)
         /\ log = <<>> <=> DOMAIN log = {}
<1> DEFINE n == LastVersion(log)
           new == Insert(log, n + 1, event)
<1>1. n \in Nat /\ DOMAIN log = 1 .. n /\ log \in [1 .. n -> Event]
  BY DEF IsLog
<1>2. log \in Seq(Event) /\ Len(log) = n
  BY <1>1
<1>3. new \in Seq(Event) /\ Len(new) = n + 1
  <2>1. IsLog(new) /\ LastVersion(new) = n + 1
    BY InsertNext
  <2> HIDE DEF new
  <2> QED BY <1>1, <2>1 DEF IsLog
<1>4. \A i \in 1 .. n : new[i] = log[i]
  BY <1>1 DEF Insert
<1>5. new[n + 1] = event
  BY <1>1 DEF Insert
<1>6. /\ Append(log, event) \in Seq(Event) /\ Len(Append(log, event)) = n + 1
      /\ Append(log, event)[n + 1] = event
      /\ \A i \in 1 .. n : Append(log, event)[i] = log[i]
  BY <1>2, AppendProperties
<1> HIDE DEF new, n
<1>7. \A i \in 1 .. n + 1 : new[i] = Append(log, event)[i]
  BY <1>1, <1>4, <1>5, <1>6
<1>8. new = Append(log, event)
  BY <1>3, <1>6, <1>7, SeqEqual
<1>9. log = <<>> <=> DOMAIN log = {}
  BY <1>1, <1>2
<1> QED BY <1>8, <1>9 DEF new, n

\* The event of a command is one that this instance records.
LEMMA CommitRecords ==
  ASSUME IInv, OpeningsInv, NEW r \in Requests, CommitEvent(r)
  PROVE  /\ EventOf(task[Http(r)].op) \in RecordedEvent
         /\ EventOf(task[Http(r)].op).type = "AccountOpened" <=> task[Http(r)].op.kind = "open"
<1>1. /\ TaskInv(Http(r), task[Http(r)]) /\ task[Http(r)].pc = "commit" /\ Http(r) \in Tasks
  BY TaskNames, TaskFacts DEF CommitEvent
<1>2. task[Http(r)].op.kind \in CommandKinds
  BY <1>1 DEF TaskInv, ControlInv
<1> QED BY <1>1, <1>2 DEF OpeningsInv, EventOf, RecordedEvent, EventTypes, CommandKinds

LEMMA CommitAppends ==
  ASSUME IInv, OpeningsInv, NEW r \in Requests, CommitEvent(r)
  PROVE  Log!Next
<1> DEFINE op == task[Http(r)].op
           a == op.acct
           event == EventOf(op)
<1>1. event \in RecordedEvent /\ (Log!IsOpening(event) <=> op.kind = "open")
  BY CommitRecords DEF Log!IsOpening
<1>2. a \in Accounts /\ IsLog(events[a]) /\ event \in Event
  BY TaskNames, TaskFacts, CommitGrowsOneLog
<1>3. DOMAIN events = Accounts
  BY DEF IInv, LogsInv
<1>4. events' = [events EXCEPT ![a] = Insert(events[a], LastVersion(events[a]) + 1, event)]
  BY <1>2, <1>3, CommitGrowsOneLog DEF CommitEvent
<1>5. events' = [events EXCEPT ![a] = Append(events[a], event)]
  BY <1>2, <1>4, LogIsSequence
<1>6. op.kind = "open" <=> events[a] = <<>>
  BY <1>2, CommitOpens, LogIsSequence
<1> HIDE DEF op, event
<1>7. Log!Record(a, event)
  BY <1>1, <1>5, <1>6 DEF Log!Record
<1> QED BY <1>1, <1>2, <1>7 DEF Log!Next

\* Only a commit touches the logs.
LEMMA NextAppends ==
  ASSUME IInv, OpeningsInv, [Next]_vars
  PROVE  [Log!Next]_events
<1>1. CASE \E r \in Requests : AccountController(r)
  BY <1>1 DEF AccountController, OpenAccount, LoadAccount, AskLog, AskStateAt, AskRebuild, Start
<1>2. CASE \E r \in Requests : LockAndReadVersion(r) \/ InsertEvent(r)
  BY <1>2 DEF LockAndReadVersion, InsertEvent
<1>3. CASE \E r \in Requests : CommitEvent(r)
  BY <1>3, CommitAppends
<1>4. CASE \E t \in Tasks : AccountService(t)
  BY <1>4, ServiceKeeps
<1>5. CASE TaskFails \/ Bootstrap \/ UNCHANGED vars
  BY <1>5 DEF TaskFails, Bootstrap, Fail, vars
<1> QED BY <1>1, <1>2, <1>3, <1>4, <1>5 DEF Next, AppendEvent, AllServed

\* The events table is an append-only log per account that begins with the one
\* opening of it: every step appends one event to one log, or leaves all alone,
\* whatever requests race and wherever the service stops.
THEOREM AppendsOnly == Spec => ImplementsLog
<1>1. Init => OpeningsInv
  BY DEF Init, OpeningsInv, IdleTask, AnyOperation
<1>2. Init => Log!Init
  <2>1. NoRows = <<>>
    <3>1. IsLog(NoRows) /\ DOMAIN NoRows = {}
      BY NoRowsIsLog DEF NoRows
    <3>2. [type |-> "AccountClosed", amount |-> 0] \in Event
      BY DEF Event, EventTypes
    <3> QED BY <3>1, <3>2, LogIsSequence
  <2> QED BY <2>1 DEF Init, Log!Init
<1> QED BY <1>1, <1>2, NextOpenings, NextAppends, Invariance, PTL DEF Spec, ImplementsLog, Log!Spec

-----------------------------------------------------------------------------
(* Snapshot jobs.  A job is started when the event that triggers it has    *)
(* been inserted and nobody can see it, so all it can count on is the      *)
(* version before.                                                         *)

JobInv(job, append) ==
  job.pc # "idle" =>
    /\ append.version > 0 /\ append.pc \notin {"idle", "append", "insert"}
    /\ append.op.kind \in CommandKinds
    /\ job.op.kind = "snapshot" /\ job.op.acct = append.op.acct
    /\ append.version - 1 <= LastVersion(events[job.op.acct])
    /\ job.pc \in {"readEvents", "findSnapshot", "saveSnapshot"} =>
         job.floor >= append.version - 1
    /\ job.status \in {"ok", "conflict"} =>
         \E v \in DOMAIN snapshots[job.op.acct] : v >= append.version - 1
JobsInv == \A r \in Requests : JobInv(task[Job(r)], task[Http(r)])

\* Nobody takes a row out of the tables.
TablesGrow ==
  \A a \in Accounts : /\ LastVersion(events'[a]) \in Nat
                      /\ LastVersion(events[a]) <= LastVersion(events'[a])
                      /\ DOMAIN snapshots[a] \subseteq DOMAIN snapshots'[a]

LEMMA SameTablesGrow ==
  ASSUME IInv, UNCHANGED events,
         \A a \in Accounts : DOMAIN snapshots[a] \subseteq DOMAIN snapshots'[a]
  PROVE  TablesGrow
<1>1. \A a \in Accounts : /\ LastVersion(events[a]) \in Nat
                          /\ LastVersion(events[a]) <= LastVersion(events[a])
  BY DEF IInv, LogsInv, IsLog
<1> QED BY <1>1 DEF TablesGrow

\* A job that does nothing, while its request stays beyond its append.
LEMMA JobWaits ==
  ASSUME IInv, JobsInv, TablesGrow, NEW r \in Requests,
         task'[Job(r)] = task[Job(r)],
         \/ task[Job(r)].pc = "idle"
         \/ LET new == task'[Http(r)]
            IN  /\ new.op = task[Http(r)].op /\ new.version = task[Http(r)].version
                /\ new.pc \notin {"idle", "append", "insert"}
  PROVE  JobInv(task[Job(r)], task[Http(r)])'
<1> DEFINE job == task[Job(r)]
           append == task[Http(r)]
           a == job.op.acct
<1>1. SUFFICES ASSUME job.pc # "idle"
               PROVE  JobInv(task[Job(r)], task[Http(r)])'
  BY DEF JobInv
<1>2. JobInv(job, append)
  BY DEF JobsInv
<1>3. /\ a \in Accounts /\ append.version \in Nat
      /\ LastVersion(events[a]) \in Nat /\ LastVersion(events'[a]) \in Nat
      /\ LastVersion(events[a]) <= LastVersion(events'[a])
      /\ DOMAIN snapshots[a] \subseteq DOMAIN snapshots'[a]
  BY TaskNames, TaskFacts DEF TablesGrow, Task
<1> QED BY <1>1, <1>2, <1>3 DEF JobInv

\* The job's own steps.
LEMMA JobLoads ==
  ASSUME IInv, JobsInv, NEW r \in Requests, AccountService(Job(r))
  PROVE  JobInv(task[Job(r)], task[Http(r)])'
<1> DEFINE job == task[Job(r)]
           append == task[Http(r)]
           a == job.op.acct
           log == events[a]
           new == task'[Job(r)]
           due == append.version - 1
<1>1. /\ Job(r) \in Tasks /\ Http(r) \in Tasks \ {Job(r)}
      /\ job \in Task /\ TaskInv(Job(r), job) /\ a \in Accounts
      /\ IsLog(log) /\ LastVersion(log) \in Nat /\ append \in Task
  BY TaskNames, TaskFacts
<1>2. /\ UNCHANGED events /\ task'[Http(r)] = append
      /\ new.op.kind = job.op.kind /\ new.version = job.version
      /\ job.op.kind # "rebuild" => new.op = job.op
      /\ job.pc # "idle"
      /\ DOMAIN snapshots[a] \subseteq DOMAIN snapshots'[a]
  BY <1>1, ServiceKeeps
<1>3. /\ append.version > 0 /\ append.pc \notin {"idle", "append", "insert"}
      /\ append.op.kind \in CommandKinds
      /\ job.op.kind = "snapshot" /\ a = append.op.acct
      /\ due <= LastVersion(log)
      /\ job.pc \in {"readEvents", "findSnapshot", "saveSnapshot"} => job.floor >= due
      /\ job.status \in {"ok", "conflict"} => \E v \in DOMAIN snapshots[a] : v >= due
  BY <1>2 DEF JobsInv, JobInv
<1>4. append.version \in Nat /\ job.floor \in Nat /\ job.state.version \in Nat
      /\ job.version = 0
  BY <1>1, <1>3 DEF Task, AccountState, TaskInv, ReadInv, CommandKinds
<1>5. SUFFICES /\ new.pc \in {"readEvents", "findSnapshot", "saveSnapshot"} => new.floor >= due
               /\ new.status \in {"ok", "conflict"} => \E v \in DOMAIN snapshots'[a] : v >= due
  BY <1>2, <1>3 DEF JobInv
<1>6. \A x : task' = [task EXCEPT ![Job(r)] = x] => new = x
  BY <1>1 DEF IInv, TasksInv
<1>7. job.pc # "done" => job.status = "pending"
  BY <1>1 DEF TaskInv, ControlInv
<1>8. \A status : LET x == Answer(job, status) IN x.pc = "done" /\ x.status = status
  BY <1>1 DEF Answer, Task
<1>9. CASE ReadSnapshot(Job(r))
  <2> DEFINE x == [job EXCEPT !.pc = "readEvents", !.base = LatestSnapshot(a),
                              !.floor = LastVersion(log)]
  <2>1. job.pc = "readSnapshot" /\ task' = [task EXCEPT ![Job(r)] = x]
    BY <1>1, <1>9 DEF ReadSnapshot, IInv, TasksInv
  <2>2. x.floor = LastVersion(log) /\ x.status = job.status
    BY <1>1 DEF Task
  <2>3. LastVersion(log) >= due
    BY <1>1, <1>3, <1>4
  <2> HIDE DEF x
  <2> QED BY <1>6, <1>7, <2>1, <2>2, <2>3
<1>10. CASE ReadEvents(Job(r))
  <2> DEFINE read == [job EXCEPT !.state = ReplayFrom(job.base, log), !.base = EmptyAccountState]
  <2>1. /\ job.pc = "readEvents"
        /\ \/ task' = [task EXCEPT ![Job(r)] = Answer(job, "not_found")]
           \/ /\ ~ (DOMAIN log = {} /\ job.base.version = 0)
              /\ task' = [task EXCEPT ![Job(r)] = AfterLoad(read)]
    BY <1>10 DEF ReadEvents
  <2>2. CASE task' = [task EXCEPT ![Job(r)] = Answer(job, "not_found")]
    BY <1>6, <1>8, <2>2
  <2>3. CASE /\ ~ (DOMAIN log = {} /\ job.base.version = 0)
             /\ task' = [task EXCEPT ![Job(r)] = AfterLoad(read)]
    <3>1. read \in Task
      <4>1. job.base \in AccountState /\ Replayed(log, job.base)
        BY <1>1 DEF TaskInv, ReadInv, Task
      <4>2. ReplayFrom(job.base, log) \in AccountState /\ EmptyAccountState \in AccountState
        BY <1>1, <2>3, <4>1, LoadedState, EmptyIsReplayed
      <4> QED BY <1>1, <4>2 DEF Task
    <3>2. /\ read.op = job.op /\ read.version = job.version /\ read.floor = job.floor
          /\ read.status = job.status
      BY <1>1 DEF Task
    <3> HIDE DEF read
    <3>3. LET x == AfterLoad(read)
          IN  x.floor = read.floor /\ x.pc = "findSnapshot" /\ x.status = read.status
      BY <1>3, <1>4, <3>1, <3>2, AfterLoadKeeps
    <3> QED BY <1>3, <1>6, <1>7, <2>1, <2>3, <3>2, <3>3
  <2> QED BY <2>1, <2>2, <2>3
<1>11. CASE FindSnapshot(Job(r))
  <2> DEFINE x == [job EXCEPT !.pc = "saveSnapshot"]
             v == job.state.version
  <2>1. /\ job.pc = "findSnapshot" /\ UNCHANGED snapshots
        /\ \/ v \in DOMAIN snapshots[a] /\ task' = [task EXCEPT ![Job(r)] = Answer(job, "ok")]
           \/ task' = [task EXCEPT ![Job(r)] = x]
    BY <1>11 DEF FindSnapshot, IInv, TasksInv
  <2>2. v >= due
    BY <1>1, <1>3, <1>4, <2>1 DEF TaskInv, AnswerInv
  <2>3. x.floor = job.floor /\ x.status = job.status
    BY <1>1 DEF Task
  <2> HIDE DEF x, v
  <2> QED BY <1>3, <1>6, <1>7, <1>8, <2>1, <2>2, <2>3
<1>12. CASE SaveSnapshot(Job(r))
  <2> DEFINE v == job.state.version
  <2>1. /\ job.pc = "saveSnapshot"
        /\ v \in DOMAIN snapshots'[a]
        /\ \/ task' = [task EXCEPT ![Job(r)] = Answer(job, "ok")]
           \/ task' = [task EXCEPT ![Job(r)] = Answer(job, "conflict")]
    <3>1. DOMAIN snapshots = Accounts
      BY DEF IInv, SnapshotsInv
    <3> QED BY <1>1, <1>12, <3>1 DEF SaveSnapshot, Insert
  <2>2. v >= due
    BY <1>1, <1>3, <1>4, <2>1 DEF TaskInv, AnswerInv
  <2> HIDE DEF v
  <2> QED BY <1>6, <1>8, <2>1, <2>2
<1>13. ~ (ReadLog(Job(r)) \/ RebuildAll(Job(r)))
  BY <1>1, <1>3 DEF ReadLog, RebuildAll, ListAccounts, RebuildNext, TaskInv, ControlInv
<1> QED BY <1>9, <1>10, <1>11, <1>12, <1>13 DEF AccountService, Load, TakeSnapshot

\* The job of an event that has just been inserted: there was none before.
LEMMA JobStarts ==
  ASSUME IInv, JobsInv, NEW r \in Requests, InsertEvent(r)
  PROVE  JobInv(task[Job(r)], task[Http(r)])'
<1> DEFINE append == task[Http(r)]
           new == task'[Http(r)]
           a == append.op.acct
           n == LastVersion(events[a])
           fresh == [IdleTask EXCEPT !.pc = "readSnapshot",
                       !.op = [kind |-> "snapshot", acct |-> a, arg |-> 0]]
<1>1. /\ UNCHANGED events /\ task'[Job(r)] = StartAutoSnapshot(r)
      /\ append.pc = "insert" /\ new.pc = "commit" /\ new.op = append.op
      /\ new.version = n + 1
  BY InsertKeeps
<1>2. /\ n \in Nat /\ TaskInv(Http(r), append)
  BY TaskNames, TaskFacts
<1>3. append.op.kind \in CommandKinds
  BY <1>1, <1>2 DEF TaskInv, ControlInv
<1>4. task[Job(r)].pc = "idle"
  BY <1>1 DEF JobsInv, JobInv
<1>5. /\ fresh.pc = "readSnapshot" /\ fresh.status = "pending"
      /\ fresh.op.kind = "snapshot" /\ fresh.op.acct = a
  BY DEF IdleTask
<1>6. task'[Job(r)] \in {fresh, task[Job(r)]}
  BY <1>1 DEF StartAutoSnapshot
<1> HIDE DEF fresh
<1>7. CASE task'[Job(r)] = fresh
  BY <1>1, <1>2, <1>3, <1>5, <1>7 DEF JobInv
<1>8. CASE task'[Job(r)] = task[Job(r)]
  BY <1>4, <1>8 DEF JobInv
<1> QED BY <1>6, <1>7, <1>8

LEMMA NextJobs == IInv /\ JobsInv /\ [Next]_vars => JobsInv'
<1> SUFFICES ASSUME IInv, JobsInv, [Next]_vars, NEW r \in Requests
             PROVE  JobInv(task[Job(r)], task[Http(r)])'
  BY DEF JobsInv
<1> DEFINE job == task[Job(r)]
           append == task[Http(r)]
<1>1. Job(r) \in Tasks /\ Http(r) \in Tasks /\ Job(r) # Http(r)
  BY TaskNames
<1>2. append.pc \in {"idle", "append", "insert"} => job.pc = "idle"
  BY DEF JobsInv, JobInv
<1>3. UNCHANGED <<events, snapshots>> => TablesGrow
  BY SameTablesGrow
<1>4. CASE \E q \in Requests : AccountController(q)
  <2>1. PICK q \in Requests : AccountController(q)
    BY <1>4
  <2>2. /\ UNCHANGED <<events, snapshots>> /\ task[Http(q)].pc = "idle"
        /\ \A u \in Tasks \ {Http(q)} : task'[u] = task[u]
    BY <2>1, StartKeeps DEF AccountController, OpenAccount, LoadAccount, AskLog, AskStateAt,
                            AskRebuild
  <2>3. task'[Job(r)] = job
    BY <1>1, <2>2, TaskNames
  <2>4. CASE q = r
    BY <1>2, <1>3, <2>2, <2>3, <2>4, JobWaits
  <2>5. CASE q # r
    <3>1. task'[Http(r)] = append
      BY <1>1, <2>2, <2>5, TaskNames
    <3> QED BY <1>2, <1>3, <2>2, <2>3, <3>1, JobWaits
  <2> QED BY <2>4, <2>5
<1>5. CASE \E q \in Requests : LockAndReadVersion(q)
  <2>1. PICK q \in Requests : LockAndReadVersion(q)
    BY <1>5
  <2>2. /\ UNCHANGED <<events, snapshots>> /\ task[Http(q)].pc = "append"
        /\ \A u \in Tasks \ {Http(q)} : task'[u] = task[u]
    BY <2>1, LockKeeps
  <2>3. task'[Job(r)] = job
    BY <1>1, <2>2, TaskNames
  <2>4. CASE q = r
    BY <1>2, <1>3, <2>2, <2>3, <2>4, JobWaits
  <2>5. CASE q # r
    <3>1. task'[Http(r)] = append
      BY <1>1, <2>2, <2>5, TaskNames
    <3> QED BY <1>2, <1>3, <2>2, <2>3, <3>1, JobWaits
  <2> QED BY <2>4, <2>5
<1>6. CASE \E q \in Requests : InsertEvent(q)
  <2>1. PICK q \in Requests : InsertEvent(q)
    BY <1>6
  <2>2. CASE q = r
    BY <2>1, <2>2, JobStarts
  <2>3. CASE q # r
    <3>1. /\ UNCHANGED <<events, snapshots>>
          /\ task'[Job(r)] = job /\ task'[Http(r)] = append
      BY <1>1, <2>1, <2>3, InsertKeeps, TaskNames
    <3> QED BY <1>2, <1>3, <3>1, JobWaits
  <2> QED BY <2>2, <2>3
<1>7. CASE \E q \in Requests : CommitEvent(q)
  <2>1. PICK q \in Requests : CommitEvent(q)
    BY <1>7
  <2>2. TablesGrow
    BY <2>1, CommitGrowsOneLog, CommitKeeps DEF TablesGrow, IsLog
  <2>3. task'[Job(r)] = job
    BY <1>1, <2>1, CommitKeeps, TaskNames
  <2>4. /\ task'[Http(r)].op = append.op /\ task'[Http(r)].version = append.version
        /\ task'[Http(r)].pc \in {append.pc, "done", "readSnapshot"}
    BY <1>1, <2>1, CommitKeeps
  <2> QED BY <1>2, <2>2, <2>3, <2>4, JobWaits
<1>8. CASE \E t \in Tasks : AccountService(t)
  <2>1. PICK t \in Tasks : AccountService(t)
    BY <1>8
  <2>2. CASE t = Job(r)
    BY <2>1, <2>2, JobLoads
  <2>3. CASE t # Job(r)
    <3>1. task'[Job(r)] = job /\ TablesGrow
      BY <1>1, <2>1, <2>3, ServiceKeeps, SameTablesGrow
    <3>2. CASE job.pc # "idle"
      <4>1. append.version > 0 /\ append.op.kind \in CommandKinds /\ append.version \in Nat
        BY <1>1, <3>2, TaskFacts DEF JobsInv, JobInv, Task
      <4>2. /\ task'[Http(r)].op = append.op /\ task'[Http(r)].version = append.version
            /\ task'[Http(r)].pc \notin {"idle", "append", "insert"}
        <5>1. CASE t = Http(r)
          BY <2>1, <4>1, <5>1, ServiceKeeps DEF CommandKinds
        <5>2. CASE t # Http(r)
          BY <1>1, <1>2, <2>1, <3>2, <5>2, ServiceKeeps
        <5> QED BY <5>1, <5>2
      <4> QED BY <3>1, <4>2, JobWaits
    <3>3. CASE job.pc = "idle"
      BY <3>1, <3>3, JobWaits
    <3> QED BY <3>2, <3>3
  <2> QED BY <2>2, <2>3
<1>9. CASE \E stopped \in SUBSET Unfinished : Fail(stopped)
  <2>1. /\ UNCHANGED <<events, snapshots>>
        /\ \A t \in {Job(r), Http(r)} : LET new == task'[t]  old == task[t] IN
             \/ new = old
             \/ /\ new.op = old.op /\ new.version = old.version
                /\ new.pc = "done" /\ new.status = "failed" /\ old.pc # "idle"
    BY <1>1, <1>9, FailKeeps
  <2>2. CASE task'[Job(r)] = job
    BY <1>2, <1>3, <2>1, <2>2, JobWaits
  <2>3. CASE task'[Job(r)] # job
    BY <2>1, <2>3 DEF JobsInv, JobInv
  <2> QED BY <2>2, <2>3
<1>10. CASE UNCHANGED vars
  BY <1>2, <1>3, <1>10, JobWaits DEF vars
<1>11. TaskFails \/ Bootstrap => \E stopped \in SUBSET Unfinished : Fail(stopped)
  BY DEF TaskFails, Bootstrap
<1> QED BY <1>4, <1>5, <1>6, <1>7, <1>8, <1>9, <1>10, <1>11 DEF Next, AppendEvent, AllServed

\* A snapshot job that has ended without a failure leaves a snapshot that lacks
\* at most the event that triggered it, for any threshold and any number of
\* appends and jobs of the same account (_appendEvent, takeSnapshot).
THEOREM SnapshotsKeepUp == Spec => []AutoSnapshotLagsByOneAtMost
<1>1. Init => JobsInv
  BY TaskNames DEF Init, JobsInv, JobInv, IdleTask
<1>2. IInv /\ JobsInv => AutoSnapshotLagsByOneAtMost
  <2> SUFFICES ASSUME IInv, JobsInv, NEW r \in Requests,
                      task[Job(r)].status \in {"ok", "conflict"}
               PROVE  \E v \in DOMAIN snapshots[task[Job(r)].op.acct] :
                        v >= task[Http(r)].version - 1
    BY DEF AutoSnapshotLagsByOneAtMost
  <2>1. task[Job(r)].pc = "done"
    BY TaskNames, TaskFacts DEF TaskInv, ControlInv
  <2> QED BY <2>1 DEF JobsInv, JobInv
<1> QED BY <1>1, <1>2, NextJobs, Invariance, PTL DEF Spec
==============================================================================
