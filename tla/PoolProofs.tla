----------------------------- MODULE PoolProofs -----------------------------
(***************************************************************************)
(* Why the sessions of a pool never all wait, for any number of handlers,  *)
(* whatever they lock and however small the pool.                          *)
(*                                                                         *)
(* A session has its connection while it is inside a transaction, and only *)
(* then holds rows. So if nobody is inside one, the pool is full; and if   *)
(* those who are wait for rows, they wait for one another: the smallest    *)
(* set of them that waits for itself is a cycle, and the database breaks   *)
(* it.                                                                     *)
(***************************************************************************)
EXTENDS Pool, FiniteSetTheorems, WellFoundedInduction, TLAPS

(***************************************************************************)
(* The inductive invariant                                                 *)
(***************************************************************************)
Phases == {"ready", "running", "ended", "failed"}

SessionOK(s) ==
    /\ at[s] \in 1 .. Len(Plan[s])
    /\ open[s] = IF phase[s] = "running" THEN 1 ELSE 0
    /\ phase[s] # "running" => locked[s] = << >>
    /\ Len(locked[s]) <= Len(Locks(s))

PoolInv ==
    /\ at \in [Sessions -> Nat]
    /\ open \in [Sessions -> Nat]
    /\ locked \in [Sessions -> Seq(Requested)]
    /\ phase \in [Sessions -> Phases]
    /\ \A s \in Sessions : SessionOK(s)

\* A plan is a sequence of transactions, and each of these one of rows to lock.
LEMMA Plans ==
    ASSUME NEW s \in Sessions
    PROVE  /\ Len(Plan[s]) \in Nat \ {0}
           /\ LastPlanned(s) \in Nat /\ LastPlanned(s) <= Len(Plan[s])
           /\ s \in Recovering => LastPlanned(s) < Len(Plan[s])
           /\ \A i \in 1 .. Len(Plan[s]) :
                /\ Len(Plan[s][i]) \in Nat
                /\ \A k \in 1 .. Len(Plan[s][i]) : Plan[s][i][k] \in Requested
<1>1. Plan[s] \in Seq(Seq(Requested)) /\ Len(Plan[s]) > 0
  BY PlansAreSequences
<1>2. Len(Plan[s]) \in Nat \ {0}
  BY <1>1
<1>3. \A i \in 1 .. Len(Plan[s]) : Plan[s][i] \in Seq(Requested)
  BY <1>1
<1>4. \A i \in 1 .. Len(Plan[s]) :
        /\ Len(Plan[s][i]) \in Nat
        /\ \A k \in 1 .. Len(Plan[s][i]) : Plan[s][i][k] \in Requested
  BY <1>3
<1> QED BY <1>2, <1>4 DEF LastPlanned

\* Before any session has connected, nothing is open or locked.
LEMMA InitPool == Init => PoolInv
<1> SUFFICES ASSUME Init PROVE PoolInv
  OBVIOUS
<1>1. \A s \in Sessions : SessionOK(s)
  <2> TAKE s \in Sessions
  <2>1. Len(Plan[s]) \in Nat \ {0} /\ Len(Plan[s][1]) \in Nat
    BY Plans
  <2> QED BY <2>1 DEF Init, SessionOK, Locks
<1> QED BY <1>1 DEF Init, PoolInv, Phases

\* What a step of session s leaves alone.
OthersAlone(s) ==
    \A t \in Sessions \ {s} :
        at'[t] = at[t] /\ open'[t] = open[t] /\ locked'[t] = locked[t] /\ phase'[t] = phase[t]

\* What every step of a session comes to.
Moved(s) ==
    /\ at' \in [Sessions -> Nat] /\ open' \in [Sessions -> Nat]
    /\ locked' \in [Sessions -> Seq(Requested)] /\ phase' \in [Sessions -> Phases]
    /\ OthersAlone(s)
    /\ SessionOK(s)'

\* A connection is taken with no rows locked.
LEMMA connect_moves ==
    ASSUME PoolInv, NEW s \in Sessions, connect(s)
    PROVE  Moved(s)
<1>1. SessionOK(s) /\ phase[s] = "ready" /\ open[s] = 0 /\ locked[s] = << >>
  BY DEF PoolInv, SessionOK, connect, MayConnect
<1>2. /\ at' = at /\ locked' = locked
      /\ open' = [open EXCEPT ![s] = 1] /\ phase' = [phase EXCEPT ![s] = "running"]
  BY <1>1 DEF connect
<1>3. OthersAlone(s) /\ at'[s] = at[s] /\ open'[s] = 1 /\ phase'[s] = "running"
  BY <1>2 DEF OthersAlone, PoolInv
<1>4. Locks(s)' = Locks(s)
  BY <1>2 DEF Locks
<1> QED BY <1>1, <1>2, <1>3, <1>4 DEF Moved, SessionOK, PoolInv, Phases

\* A row more is locked.
LEMMA lock_row_moves ==
    ASSUME PoolInv, NEW s \in Sessions, lock_row(s)
    PROVE  Moved(s)
<1>1. SessionOK(s) /\ phase[s] = "running" /\ Len(locked[s]) < Len(Locks(s))
  BY DEF PoolInv, lock_row, MayLock
<1>2. at[s] \in 1 .. Len(Plan[s]) /\ locked[s] \in Seq(Requested) /\ Len(locked[s]) \in Nat
  BY <1>1 DEF SessionOK, PoolInv
<1>3. Len(Locks(s)) \in Nat /\ NextLock(s) \in Requested
  <2>1. /\ Len(Locks(s)) \in Nat
        /\ \A k \in 1 .. Len(Locks(s)) : Locks(s)[k] \in Requested
    BY <1>2, Plans DEF Locks
  <2>2. Len(locked[s]) + 1 \in 1 .. Len(Locks(s))
    BY <1>1, <1>2, <2>1
  <2> QED BY <2>1, <2>2 DEF NextLock
<1>4. /\ at' = at /\ open' = open /\ phase' = phase
      /\ locked' = [locked EXCEPT ![s] = Append(locked[s], NextLock(s))]
  BY DEF lock_row
<1>5. /\ locked'[s] = Append(locked[s], NextLock(s))
      /\ \A t \in Sessions \ {s} : locked'[t] = locked[t]
      /\ locked' \in [Sessions -> Seq(Requested)]
  BY <1>2, <1>3, <1>4 DEF PoolInv
<1>6. Len(locked'[s]) = Len(locked[s]) + 1
  BY <1>2, <1>3, <1>5
<1>7. Locks(s)' = Locks(s)
  BY <1>4 DEF Locks
<1>8. SessionOK(s)'
  BY <1>1, <1>2, <1>3, <1>4, <1>6, <1>7 DEF SessionOK
<1> QED BY <1>2, <1>4, <1>5, <1>8 DEF Moved, OthersAlone, PoolInv

\* A transaction ends, for whatever reason: the session goes to a later one, or
\* to its own end.
LEMMA EndMoves ==
    ASSUME PoolInv, NEW s \in Sessions, phase[s] \in {"ready", "running"},
           open' = [open EXCEPT ![s] = 0], locked' = [locked EXCEPT ![s] = << >>],
           \/ \E i \in 1 .. Len(Plan[s]) :
                at[s] < i /\ at' = [at EXCEPT ![s] = i] /\ phase' = [phase EXCEPT ![s] = "ready"]
           \/ \E p \in {"ended", "failed"} : at' = at /\ phase' = [phase EXCEPT ![s] = p]
    PROVE  Moved(s)
<1>1. SessionOK(s) /\ at[s] \in 1 .. Len(Plan[s]) /\ Len(Plan[s]) \in Nat \ {0}
  BY Plans DEF PoolInv, SessionOK
<1>2. /\ open'[s] = 0 /\ locked'[s] = << >> /\ Len(locked'[s]) = 0
      /\ open' \in [Sessions -> Nat] /\ locked' \in [Sessions -> Seq(Requested)]
      /\ \A t \in Sessions \ {s} : open'[t] = open[t] /\ locked'[t] = locked[t]
  BY DEF PoolInv
<1>3. CASE \E i \in 1 .. Len(Plan[s]) :
              at[s] < i /\ at' = [at EXCEPT ![s] = i] /\ phase' = [phase EXCEPT ![s] = "ready"]
  <2>1. PICK i \in 1 .. Len(Plan[s]) :
              at[s] < i /\ at' = [at EXCEPT ![s] = i] /\ phase' = [phase EXCEPT ![s] = "ready"]
    BY <1>3
  <2>2. /\ at'[s] = i /\ phase'[s] = "ready" /\ at' \in [Sessions -> Nat]
        /\ phase' \in [Sessions -> Phases]
        /\ \A t \in Sessions \ {s} : at'[t] = at[t] /\ phase'[t] = phase[t]
    BY <2>1 DEF PoolInv, Phases
  <2>3. Locks(s)' = Plan[s][i] /\ Len(Plan[s][i]) \in Nat
    BY <2>2, Plans DEF Locks
  <2>4. SessionOK(s)'
    BY <1>2, <2>2, <2>3 DEF SessionOK
  <2> QED BY <1>2, <2>1, <2>2, <2>4 DEF Moved, OthersAlone
<1>4. CASE \E p \in {"ended", "failed"} : at' = at /\ phase' = [phase EXCEPT ![s] = p]
  <2>1. PICK p \in {"ended", "failed"} : at' = at /\ phase' = [phase EXCEPT ![s] = p]
    BY <1>4
  <2>2. /\ phase'[s] = p /\ phase' \in [Sessions -> Phases]
        /\ \A t \in Sessions \ {s} : phase'[t] = phase[t]
    BY <2>1 DEF PoolInv, Phases
  <2>3. Locks(s)' = Locks(s) /\ Len(Locks(s)) \in Nat
    BY <1>1, <2>1, Plans DEF Locks
  <2>4. SessionOK(s)'
    BY <1>1, <1>2, <2>1, <2>2, <2>3 DEF SessionOK
  <2> QED BY <1>2, <2>1, <2>2, <2>4 DEF Moved, OthersAlone, PoolInv
<1> QED BY <1>3, <1>4

\* A commit ends a transaction.
LEMMA commit_moves ==
    ASSUME PoolInv, NEW s \in Sessions, commit(s)
    PROVE  Moved(s)
<1>1. phase[s] = "running" /\ locked' = [locked EXCEPT ![s] = << >>]
  BY DEF commit, MayCommit
<1>2. at[s] \in 1 .. Len(Plan[s]) /\ Len(Plan[s]) \in Nat /\ LastPlanned(s) \in Nat
      /\ LastPlanned(s) <= Len(Plan[s])
  BY Plans DEF PoolInv, SessionOK
<1>3. CASE at[s] < LastPlanned(s)
  <2>1. at[s] + 1 \in 1 .. Len(Plan[s]) /\ at[s] < at[s] + 1
    BY <1>2, <1>3
  <2>2. /\ open' = [open EXCEPT ![s] = 0] /\ phase' = [phase EXCEPT ![s] = "ready"]
        /\ at' = [at EXCEPT ![s] = at[s] + 1]
    BY <1>3 DEF commit, AfterCommit
  <2> QED BY <1>1, <2>1, <2>2, EndMoves
<1>4. CASE ~(at[s] < LastPlanned(s))
  <2>1. open' = [open EXCEPT ![s] = 0] /\ phase' = [phase EXCEPT ![s] = "ended"] /\ at' = at
    BY <1>4 DEF commit
  <2> QED BY <1>1, <2>1, EndMoves
<1> QED BY <1>3, <1>4

\* So does a failure.
LEMMA FailsMoves ==
    ASSUME PoolInv, NEW s \in Sessions, phase[s] \in {"ready", "running"}, Fails(s)
    PROVE  Moved(s)
<1>1. locked' = [locked EXCEPT ![s] = << >>] /\ open' = [open EXCEPT ![s] = 0]
  BY DEF Fails, Rollback
<1>2. CASE RecordsError(s)
  <2>1. /\ Len(Plan[s]) \in Nat \ {0} /\ LastPlanned(s) < Len(Plan[s])
        /\ LastPlanned(s) \in Nat /\ at[s] \in Nat /\ at[s] <= LastPlanned(s)
    BY <1>2, Plans DEF RecordsError, PoolInv
  <2>2. Len(Plan[s]) \in 1 .. Len(Plan[s]) /\ at[s] < Len(Plan[s])
    BY <2>1
  <2>3. at' = [at EXCEPT ![s] = Len(Plan[s])] /\ phase' = [phase EXCEPT ![s] = "ready"]
    BY <1>2 DEF Fails
  <2> QED BY <1>1, <2>2, <2>3, EndMoves
<1>3. CASE ~RecordsError(s)
  <2>1. at' = at /\ phase' = [phase EXCEPT ![s] = "failed"]
    BY <1>3 DEF Fails
  <2> QED BY <1>1, <2>1, EndMoves
<1> QED BY <1>2, <1>3

\* Every step is such a step of one session.
LEMMA EveryStepMoves ==
    ASSUME PoolInv, Next
    PROVE  \E s \in Sessions : Moved(s)
<1>1. PICK s \in Sessions : Step(s) \/ connection_times_out(s)
  BY DEF Next
<1>2. CASE connect(s) \/ lock_row(s) \/ commit(s)
  BY <1>2, connect_moves, lock_row_moves, commit_moves
<1>3. CASE deadlock_detected(s)
  <2>1. phase[s] = "running"
    BY <1>3 DEF deadlock_detected, InCycle, Blockers
  <2> QED BY <1>3, <2>1, FailsMoves DEF deadlock_detected
<1>4. CASE connection_times_out(s)
  BY <1>4, FailsMoves DEF connection_times_out
<1> QED BY <1>1, <1>2, <1>3, <1>4 DEF Step

\* A step of one session leaves what is said of the others alone.
LEMMA MovedKeeps ==
    ASSUME PoolInv, NEW s \in Sessions, Moved(s)
    PROVE  PoolInv'
<1>1. ASSUME NEW t \in Sessions, t # s PROVE SessionOK(t)'
  <2>1. /\ at'[t] = at[t] /\ open'[t] = open[t] /\ locked'[t] = locked[t]
        /\ phase'[t] = phase[t] /\ SessionOK(t)
    BY <1>1 DEF Moved, OthersAlone, PoolInv
  <2> QED BY <2>1 DEF SessionOK, Locks
<1> QED BY <1>1 DEF Moved, PoolInv

\* A session has a connection exactly while it is inside a transaction, and only
\* then holds rows (get_db, and the commits and rollbacks of the services).
THEOREM PoolInvariance == Spec => []PoolInv
<1>1. PoolInv /\ [Next]_vars => PoolInv'
  <2>1. PoolInv /\ Next => PoolInv'
    BY EveryStepMoves, MovedKeeps
  <2>2. PoolInv /\ UNCHANGED vars => PoolInv'
    BY DEF vars, PoolInv, SessionOK, Locks
  <2> QED BY <2>1, <2>2
<1> QED BY <1>1, InitPool, PTL DEF Spec

(***************************************************************************)
(* The pool when nobody is inside a transaction                            *)
(***************************************************************************)
First(S) == CHOOSE x \in S : TRUE

\* g gives the sum over every subset of S, by taking out its first member.
AddsUp(g, f, S) ==
    g = [s \in SUBSET S |-> IF s = {} THEN 0 ELSE f[First(s)] + g[s \ {First(s)}]]

\* The sum of a function that is 0 everywhere.
LEMMA SumOfZeros ==
    ASSUME NEW f, IsFiniteSet(DOMAIN f), \A x \in DOMAIN f : f[x] = 0
    PROVE  FoldFunction(LAMBDA a, b : a + b, 0, f) = 0
<1> DEFINE S == DOMAIN f
           zero == [s \in SUBSET S |-> 0]
           G == CHOOSE h : AddsUp(h, f, S)
<1>1. \A s \in SUBSET S : s # {} => First(s) \in s
  BY DEF First
<1>2. AddsUp(zero, f, S)
  <2>1. ASSUME NEW s \in SUBSET S
        PROVE  0 = IF s = {} THEN 0 ELSE f[First(s)] + zero[s \ {First(s)}]
    <3>1. s \ {First(s)} \in SUBSET S
      OBVIOUS
    <3>2. CASE s # {}
      <4>1. f[First(s)] = 0 /\ zero[s \ {First(s)}] = 0
        BY <1>1, <3>1, <3>2
      <4> QED BY <3>2, <4>1
    <3> QED BY <3>2
  <2> QED BY <2>1 DEF AddsUp
<1>3. AddsUp(G, f, S)
  BY <1>2
<1>4. FoldFunction(LAMBDA a, b : a + b, 0, f) = G[S]
  BY DEF FoldFunction, FoldFunctionOnSet, MapThenFoldSet, AddsUp, First
<1> HIDE DEF G
<1>5. \A s \in SUBSET S : G[s] = IF s = {} THEN 0 ELSE f[First(s)] + G[s \ {First(s)}]
  BY <1>3 DEF AddsUp
<1> DEFINE Wrong == {n \in Nat : \E s \in SUBSET S : Cardinality(s) = n /\ G[s] # 0}
<1>6. Wrong = {}
  <2> SUFFICES ASSUME Wrong # {} PROVE FALSE
    OBVIOUS
  <2>1. PICK n \in Wrong : \A m \in Wrong : ~(<<m, n>> \in OpToRel(<, Nat))
    <3>1. Wrong \subseteq Nat
      OBVIOUS
    <3> QED BY <3>1, WFMin, NatLessThanWellFounded
  <2>2. n \in Nat /\ \A m \in Nat : m < n => m \notin Wrong
    BY <2>1 DEF OpToRel
  <2>3. PICK s \in SUBSET S : Cardinality(s) = n /\ G[s] # 0
    BY <2>1
  <2>4. s # {}
    BY <1>5, <2>3
  <2> DEFINE r == s \ {First(s)}
  <2>5. First(s) \in s /\ r \in SUBSET S /\ f[First(s)] = 0
    BY <1>1, <2>4
  <2>6. IsFiniteSet(s) /\ IsFiniteSet(r)
    BY FS_Subset
  <2>7. Cardinality(r) = n - 1 /\ Cardinality(r) \in Nat
    BY <2>3, <2>5, <2>6, FS_RemoveElement, FS_CardinalityType
  <2>8. G[r] = 0
    BY <2>2, <2>5, <2>7
  <2> QED BY <1>5, <2>3, <2>4, <2>5, <2>8
<1>7. Cardinality(S) \in Nat
  BY FS_CardinalityType
<1> QED BY <1>4, <1>6, <1>7

\* As long as nobody is inside a transaction every connection is free.
LEMMA AllConnectionsFree ==
    ASSUME PoolInv, \A s \in Sessions : phase[s] # "running"
    PROVE  Free > 0
<1>1. DOMAIN open = Sessions /\ \A s \in Sessions : open[s] = 0
  BY DEF PoolInv, SessionOK
<1>2. FoldFunction(LAMBDA a, b : a + b, 0, open) = 0
  BY <1>1, SessionsAreFinite, SumOfZeros
<1> DEFINE used == FoldFunction(LAMBDA a, b : a + b, 0, open)
<1>3. Free = PoolSize - used
  BY DEF Free
<1> HIDE DEF used
<1>4. used = 0
  BY <1>2 DEF used
<1> QED BY <1>3, <1>4, PoolIsNotEmpty

(***************************************************************************)
(* Sessions that all wait for rows                                         *)
(***************************************************************************)
\* A set of sessions each of which waits for a member of the set.
WaitsForItself(S) == \A a \in S : S \cap Blockers(a) # {}

\* The smallest such set is a cycle: whoever is waited for by nobody in it could
\* be left out.
LEMMA SmallestIsCycle ==
    ASSUME NEW W \in SUBSET Waiting, W # {}, WaitsForItself(W)
    PROVE  \E s \in Sessions : InCycle(s)
<1> DEFINE Sizes == {n \in Nat : \E S \in SUBSET W :
                        S # {} /\ WaitsForItself(S) /\ Cardinality(S) = n}
<1>0. IsFiniteSet(W) /\ W \subseteq Sessions
  BY SessionsAreFinite, FS_Subset DEF Waiting
<1>1. Sizes # {} /\ Sizes \subseteq Nat
  BY <1>0, FS_CardinalityType
<1>2. PICK n \in Sizes : \A m \in Sizes : ~(<<m, n>> \in OpToRel(<, Nat))
  BY <1>1, WFMin, NatLessThanWellFounded
<1>3. n \in Nat /\ \A m \in Nat : m < n => m \notin Sizes
  BY <1>2 DEF OpToRel
<1>4. PICK S \in SUBSET W : S # {} /\ WaitsForItself(S) /\ Cardinality(S) = n
  BY <1>2
<1>5. ASSUME NEW a \in S, \A b \in S : a \notin Blockers(b)
      PROVE  FALSE
  <2> DEFINE R == S \ {a}
  <2>1. R # {}
    <3>1. PICK c \in S : c \in Blockers(a)
      BY <1>4 DEF WaitsForItself
    <3>2. c # a
      BY <3>1 DEF Blockers
    <3> QED BY <3>2
  <2>2. WaitsForItself(R)
    BY <1>4, <1>5 DEF WaitsForItself
  <2>3. IsFiniteSet(S)
    BY <1>0, FS_Subset
  <2>4. Cardinality(R) = n - 1 /\ Cardinality(R) \in Nat
    BY <1>4, <2>3, FS_RemoveElement, FS_CardinalityType
  <2>5. R \in SUBSET W /\ Cardinality(R) < n
    BY <1>3, <2>4
  <2> HIDE DEF R
  <2> QED BY <1>3, <2>1, <2>2, <2>4, <2>5
<1>6. PICK s : s \in S
  BY <1>4
<1>7. S \in SUBSET Waiting /\ s \in Sessions /\ Blockers(s) # {}
  BY <1>0, <1>6 DEF Waiting
<1>8. \A a \in S : S \cap Blockers(a) # {} /\ \E b \in S : a \in Blockers(b)
  BY <1>4, <1>5 DEF WaitsForItself
<1>9. InCycle(s)
  BY <1>6, <1>7, <1>8 DEF InCycle
<1> QED BY <1>7, <1>9

\* If some session is inside a transaction, one of those goes on.
LEMMA SomebodyInsideGoesOn ==
    ASSUME PoolInv, NEW t \in Sessions, phase[t] = "running"
    PROVE  \E s \in Sessions : CanGoOn(s)
<1> SUFFICES ASSUME \A s \in Sessions : ~CanGoOn(s) PROVE FALSE
  OBVIOUS
<1>1. ASSUME NEW s \in Sessions, phase[s] = "running" PROVE s \in Waiting
  <2>1. Len(locked[s]) \in Nat /\ Len(locked[s]) <= Len(Locks(s))
    BY <1>1 DEF PoolInv, SessionOK
  <2>2. Len(Locks(s)) \in Nat
    BY <1>1, Plans DEF PoolInv, SessionOK, Locks
  <2>3. Len(locked[s]) < Len(Locks(s))
    BY <1>1, <2>1, <2>2 DEF CanGoOn, MayCommit
  <2> QED BY <1>1, <2>3 DEF CanGoOn, MayLock, Waiting
<1>2. ASSUME NEW s \in Sessions, NEW b \in Blockers(s) PROVE b \in Waiting
  <2>1. b \in Sessions /\ locked[b] # << >>
    BY <1>2 DEF Blockers
  <2>2. phase[b] = "running"
    BY <2>1 DEF PoolInv, SessionOK
  <2> QED BY <1>1, <2>1, <2>2
<1>3. WaitsForItself(Waiting)
  BY <1>2 DEF WaitsForItself, Waiting
<1>4. t \in Waiting
  BY <1>1
<1> QED BY <1>3, <1>4, SmallestIsCycle DEF CanGoOn

\* As long as a session has not ended, some session goes on without a timeout,
\* for every pool of at least one connection and whatever the handlers lock.
THEOREM NoSessionIsStuckHolds == Spec => []NoSessionIsStuck
<1>1. PoolInv => NoSessionIsStuck
  <2> SUFFICES ASSUME PoolInv, \A s \in Sessions : ~CanGoOn(s), NEW s \in Sessions
               PROVE  phase[s] \in {"ended", "failed"}
    BY DEF NoSessionIsStuck
  <2>1. \A t \in Sessions : phase[t] # "running"
    BY SomebodyInsideGoesOn
  <2>2. Free > 0
    BY <2>1, AllConnectionsFree
  <2>3. phase[s] # "ready"
    BY <2>2 DEF CanGoOn, MayConnect
  <2> QED BY <2>1, <2>3 DEF PoolInv, Phases
<1> QED BY <1>1, PoolInvariance, PTL

=============================================================================
