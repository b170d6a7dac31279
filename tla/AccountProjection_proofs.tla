----------------------- MODULE AccountProjection_proofs ----------------------
(***************************************************************************)
(* Facts about the fold of lesson 7 that hold for every log, snapshot and  *)
(* version: how it unfolds, that it can be resumed from any intermediate   *)
(* state, and that it depends on the rows it passes and on nothing else.   *)
(***************************************************************************)
EXTENDS AccountProjection, Induction

\* One step of the loop of replayEvents.
Step(log, state, v) == IF v \in DOMAIN log THEN ApplyEvent(state, log[v], v) ELSE state

\* f holds the intermediate states of the loop.
IsTrace(f, start, log, lo, hi) ==
  f = [v \in lo .. hi |-> IF v = lo THEN start ELSE Step(log, f[v - 1], v)]

\* The loop terminates: its intermediate states exist.
LEMMA TraceExists ==
  ASSUME NEW start, NEW log, NEW lo \in Int, NEW hi \in Int, lo <= hi
  PROVE  \E f : IsTrace(f, start, log, lo, hi)
<1> DEFINE S == {n \in Nat : \E f : IsTrace(f, start, log, lo, lo + n)}
<1>1. 0 \in S
  <2> DEFINE f == [v \in lo .. lo + 0 |-> start]
  <2>1. IsTrace(f, start, log, lo, lo + 0)
    BY DEF IsTrace
  <2> QED BY <2>1
<1>2. ASSUME NEW n \in Nat, n \in S
      PROVE  n + 1 \in S
  <2>1. PICK f : IsTrace(f, start, log, lo, lo + n)
    BY <1>2
  <2> DEFINE g == [v \in lo .. lo + (n + 1) |->
                     IF v = lo + (n + 1) THEN Step(log, f[lo + n], v) ELSE f[v]]
  <2>2. ASSUME NEW v \in lo .. lo + (n + 1)
        PROVE  g[v] = IF v = lo THEN start ELSE Step(log, g[v - 1], v)
    <3>1. CASE v = lo + (n + 1)
      <4>1. g[v - 1] = f[lo + n] /\ v # lo
        BY <3>1
      <4>2. g[v] = Step(log, f[lo + n], v)
        BY <3>1
      <4> QED BY <4>1, <4>2
    <3>2. CASE v # lo + (n + 1)
      <4>1. v \in lo .. lo + n
        BY <3>2
      <4>2. f[v] = IF v = lo THEN start ELSE Step(log, f[v - 1], v)
        BY <2>1, <4>1 DEF IsTrace
      <4>3. v # lo => g[v - 1] = f[v - 1]
        BY <4>1
      <4> QED BY <3>2, <4>2, <4>3
    <3> QED BY <3>1, <3>2
  <2>3. IsTrace(g, start, log, lo, lo + (n + 1))
    <3> HIDE DEF g
    <3>1. g = [v \in lo .. lo + (n + 1) |-> g[v]]
      BY DEF g
    <3> QED BY <2>2, <3>1, Zenon DEF IsTrace
  <2> QED BY <2>3
<1>3. hi - lo \in Nat /\ lo + (hi - lo) = hi
  OBVIOUS
<1>4. \A n \in Nat : n \in S
  <2> HIDE DEF S
  <2> QED BY <1>1, <1>2, SetInduction
<1> QED BY <1>3, <1>4

\* FoldRows is the last state of such a trace.
LEMMA FoldHasTrace ==
  ASSUME NEW start, NEW log, NEW lo \in Int, NEW hi \in Int, lo <= hi
  PROVE  \E f : IsTrace(f, start, log, lo, hi) /\ FoldRows(start, log, lo, hi) = f[hi]
<1>1. PICK g : IsTrace(g, start, log, lo, hi)
  BY TraceExists
<1> DEFINE P(f) == f = [v \in lo .. hi |-> IF v = lo THEN start
                                           ELSE IF v \in DOMAIN log
                                                THEN ApplyEvent(f[v - 1], log[v], v)
                                                ELSE f[v - 1]]
<1>2. \A f : P(f) <=> IsTrace(f, start, log, lo, hi)
  BY Zenon DEF IsTrace, Step
<1>3. P(CHOOSE f : P(f))
  BY <1>1, <1>2
<1>4. FoldRows(start, log, lo, hi) = (CHOOSE f : P(f))[hi]
  BY DEF FoldRows
<1> QED BY <1>2, <1>3, <1>4

-----------------------------------------------------------------------------

\* Two logs have the same rows at the versions lo+1 .. hi.
SameRows(log1, log2, lo, hi) ==
  \A v \in lo + 1 .. hi :
    /\ v \in DOMAIN log1 <=> v \in DOMAIN log2
    /\ v \in DOMAIN log1 => log1[v] = log2[v]

\* f goes from each of the versions lo .. hi-1 to the next by the loop's body.
Runs(f, log, lo, hi) == \A v \in lo + 1 .. hi : f[v] = Step(log, f[v - 1], v)

\* Two runs of the loop that meet at lo stay together while the rows agree.
LEMMA StatesAgree ==
  ASSUME NEW f, NEW g, NEW log1, NEW log2, NEW lo \in Int, NEW hi \in Int,
         f[lo] = g[lo],
         Runs(f, log1, lo, hi), Runs(g, log2, lo, hi),
         SameRows(log1, log2, lo, hi)
  PROVE  \A v \in lo .. hi : f[v] = g[v]
<1> DEFINE S == {n \in Nat : lo + n <= hi => f[lo + n] = g[lo + n]}
<1>1. 0 \in S
  OBVIOUS
<1>2. ASSUME NEW n \in Nat, n \in S
      PROVE  n + 1 \in S
  <2>1. SUFFICES ASSUME lo + (n + 1) <= hi
                 PROVE  f[lo + (n + 1)] = g[lo + (n + 1)]
    OBVIOUS
  <2> DEFINE v == lo + (n + 1)
  <2>2. v \in lo + 1 .. hi /\ v - 1 = lo + n
    BY <2>1
  <2>3. f[v - 1] = g[v - 1]
    BY <1>2, <2>1, <2>2
  <2> HIDE DEF v
  <2>4. Step(log1, f[v - 1], v) = Step(log2, g[v - 1], v)
    BY <2>2, <2>3 DEF Step, SameRows
  <2>5. f[v] = g[v]
    BY <2>2, <2>4 DEF Runs
  <2> QED BY <2>5 DEF v
<1>3. \A n \in Nat : n \in S
  <2> HIDE DEF S
  <2> QED BY <1>1, <1>2, SetInduction
<1>4. ASSUME NEW v \in lo .. hi
      PROVE  f[v] = g[v]
  <2>1. v - lo \in Nat /\ lo + (v - lo) = v
    OBVIOUS
  <2> QED BY <1>3, <2>1
<1> QED BY <1>4

\* What a trace says of its states, one by one.
LEMMA TraceSteps ==
  ASSUME NEW f, NEW start, NEW log, NEW lo \in Int, NEW hi \in Int, lo <= hi,
         IsTrace(f, start, log, lo, hi)
  PROVE  f[lo] = start /\ Runs(f, log, lo, hi)
<1>1. \A v \in lo .. hi : f[v] = IF v = lo THEN start ELSE Step(log, f[v - 1], v)
  BY Zenon DEF IsTrace
<1> QED BY <1>1 DEF Runs

\* A replay depends on the rows between its two versions only.
LEMMA FoldSameRows ==
  ASSUME NEW start, NEW log1, NEW log2, NEW lo \in Int, NEW hi \in Int, lo <= hi,
         SameRows(log1, log2, lo, hi)
  PROVE  FoldRows(start, log1, lo, hi) = FoldRows(start, log2, lo, hi)
<1>1. PICK f : IsTrace(f, start, log1, lo, hi) /\ FoldRows(start, log1, lo, hi) = f[hi]
  BY FoldHasTrace
<1>2. PICK g : IsTrace(g, start, log2, lo, hi) /\ FoldRows(start, log2, lo, hi) = g[hi]
  BY FoldHasTrace
<1>3. f[lo] = g[lo] /\ Runs(f, log1, lo, hi) /\ Runs(g, log2, lo, hi)
  BY <1>1, <1>2, TraceSteps
<1>4. \A v \in lo .. hi : f[v] = g[v]
  BY <1>3, StatesAgree
<1> QED BY <1>1, <1>2, <1>4

\* A replay of no row is the state it starts from.
LEMMA FoldEmpty ==
  ASSUME NEW start, NEW log, NEW lo \in Int
  PROVE  FoldRows(start, log, lo, lo) = start
<1>1. PICK f : IsTrace(f, start, log, lo, lo) /\ FoldRows(start, log, lo, lo) = f[lo]
  BY FoldHasTrace
<1> QED BY <1>1, TraceSteps

\* A replay may stop at any version and be resumed from the state it reached:
\* this is what makes a snapshot usable.
LEMMA FoldResumes ==
  ASSUME NEW start, NEW log, NEW lo \in Int, NEW mid \in Int, NEW hi \in Int,
         lo <= mid, mid <= hi
  PROVE  FoldRows(FoldRows(start, log, lo, mid), log, mid, hi)
           = FoldRows(start, log, lo, hi)
<1>1. PICK f : IsTrace(f, start, log, lo, hi) /\ FoldRows(start, log, lo, hi) = f[hi]
  BY FoldHasTrace
<1>2. PICK h : IsTrace(h, start, log, lo, mid) /\ FoldRows(start, log, lo, mid) = h[mid]
  BY FoldHasTrace
<1>3. PICK g : /\ IsTrace(g, FoldRows(start, log, lo, mid), log, mid, hi)
               /\ FoldRows(FoldRows(start, log, lo, mid), log, mid, hi) = g[hi]
  BY FoldHasTrace
<1>4. SameRows(log, log, lo, mid) /\ SameRows(log, log, mid, hi)
  BY DEF SameRows
<1>5. f[lo] = start /\ Runs(f, log, lo, mid) /\ Runs(f, log, mid, hi)
  <2>1. f[lo] = start /\ Runs(f, log, lo, hi)
    BY <1>1, TraceSteps
  <2> QED BY <2>1 DEF Runs
<1>6. h[mid] = f[mid]
  <2>1. h[lo] = start /\ Runs(h, log, lo, mid)
    BY <1>2, TraceSteps
  <2>2. \A v \in lo .. mid : h[v] = f[v]
    BY <1>4, <1>5, <2>1, StatesAgree
  <2> QED BY <2>2
<1>7. g[hi] = f[hi]
  <2>1. g[mid] = FoldRows(start, log, lo, mid) /\ Runs(g, log, mid, hi)
    BY <1>3, TraceSteps
  <2>2. g[mid] = f[mid]
    BY <1>2, <1>6, <2>1
  <2>3. \A v \in mid .. hi : g[v] = f[v]
    BY <1>4, <1>5, <2>1, <2>2, StatesAgree
  <2> QED BY <2>3
<1> QED BY <1>1, <1>3, <1>7

\* The last row of a replay is applied to the replay of the others.
LEMMA FoldLastRow ==
  ASSUME NEW start, NEW log, NEW lo \in Int, NEW hi \in Int, lo < hi
  PROVE  FoldRows(start, log, lo, hi) = Step(log, FoldRows(start, log, lo, hi - 1), hi)
<1>1. PICK g : /\ IsTrace(g, FoldRows(start, log, lo, hi - 1), log, hi - 1, hi)
               /\ FoldRows(FoldRows(start, log, lo, hi - 1), log, hi - 1, hi) = g[hi]
  BY FoldHasTrace
<1>2. g[hi - 1] = FoldRows(start, log, lo, hi - 1) /\ g[hi] = Step(log, g[hi - 1], hi)
  BY <1>1, TraceSteps DEF Runs
<1>3. FoldRows(FoldRows(start, log, lo, hi - 1), log, hi - 1, hi) = FoldRows(start, log, lo, hi)
  BY FoldResumes
<1> QED BY <1>1, <1>2, <1>3

-----------------------------------------------------------------------------

\* Max and Min of two numbers.
LEMMA MaxOfTwo ==
  ASSUME NEW a \in Int, NEW b \in Int
  PROVE  Max({a, b}) = IF a >= b THEN a ELSE b
<1> DEFINE m == IF a >= b THEN a ELSE b
<1>1. m \in {a, b} /\ \A y \in {a, b} : m >= y
  OBVIOUS
<1>2. \A x \in {a, b} : (\A y \in {a, b} : x >= y) => x = m
  OBVIOUS
<1> QED BY <1>1, <1>2 DEF Max

LEMMA MinOfTwo ==
  ASSUME NEW a \in Int, NEW b \in Int
  PROVE  Min({a, b}) = IF a <= b THEN a ELSE b
<1> DEFINE m == IF a <= b THEN a ELSE b
<1>1. m \in {a, b} /\ \A y \in {a, b} : m <= y
  OBVIOUS
<1>2. \A x \in {a, b} : (\A y \in {a, b} : x <= y) => x = m
  OBVIOUS
<1> QED BY <1>1, <1>2 DEF Min

\* MAX(version) of a log without holes is the number of its rows.
LEMMA LastVersionOfRange ==
  ASSUME NEW log, NEW n \in Nat, DOMAIN log = 1 .. n
  PROVE  LastVersion(log) = n
<1>1. n \in DOMAIN log \cup {0} /\ \A y \in DOMAIN log \cup {0} : n >= y
  OBVIOUS
<1>2. \A x \in DOMAIN log \cup {0} : (\A y \in DOMAIN log \cup {0} : x >= y) => x = n
  OBVIOUS
<1> QED BY <1>1, <1>2 DEF LastVersion, Max

\* applyEvent keeps the type of the state and stamps it with the version.
LEMMA ApplyEventType ==
  ASSUME NEW state \in AccountState, NEW event \in Event, NEW version \in Nat
  PROVE  /\ ApplyEvent(state, event, version) \in AccountState
         /\ ApplyEvent(state, event, version).version = version
BY DEF ApplyEvent, AccountState, Event, EventTypes

\* A replay of events gives an account state, whose version is the version of
\* the last row when no version is missing.
LEMMA FoldType ==
  ASSUME NEW start \in AccountState, NEW log, NEW lo \in Nat, NEW hi \in Nat, lo <= hi,
         lo + 1 .. hi \subseteq DOMAIN log,
         \A v \in DOMAIN log : log[v] \in Event,
         start.version = lo
  PROVE  /\ FoldRows(start, log, lo, hi) \in AccountState
         /\ FoldRows(start, log, lo, hi).version = hi
<1> DEFINE S == {n \in Nat : lo + n <= hi => /\ FoldRows(start, log, lo, lo + n) \in AccountState
                                            /\ FoldRows(start, log, lo, lo + n).version = lo + n}
<1>1. 0 \in S
  BY FoldEmpty
<1>2. ASSUME NEW n \in Nat, n \in S
      PROVE  n + 1 \in S
  <2> DEFINE v == lo + (n + 1)
             before == FoldRows(start, log, lo, lo + n)
  <2>1. SUFFICES ASSUME v <= hi
                 PROVE  /\ FoldRows(start, log, lo, v) \in AccountState
                        /\ FoldRows(start, log, lo, v).version = v
    OBVIOUS
  <2>2. before \in AccountState
    BY <1>2, <2>1
  <2>3. v \in DOMAIN log /\ log[v] \in Event /\ v \in Nat /\ lo < v /\ v - 1 = lo + n
    BY <2>1
  <2>4. FoldRows(start, log, lo, v) = ApplyEvent(before, log[v], v)
    <3> HIDE DEF v
    <3>1. FoldRows(start, log, lo, v) = Step(log, FoldRows(start, log, lo, v - 1), v)
      BY <2>3, FoldLastRow
    <3> QED BY <2>3, <3>1 DEF Step
  <2>5. ApplyEvent(before, log[v], v) \in AccountState /\ ApplyEvent(before, log[v], v).version = v
    <3> HIDE DEF v, before
    <3> QED BY ONLY <2>2, <2>3, ApplyEventType
  <2> HIDE DEF v, before
  <2> QED BY <2>4, <2>5
<1>3. \A n \in Nat : n \in S
  <2> HIDE DEF S
  <2> QED BY <1>1, <1>2, SetInduction
<1>4. hi - lo \in Nat /\ lo + (hi - lo) = hi
  OBVIOUS
<1> QED BY <1>3, <1>4
=============================================================================
