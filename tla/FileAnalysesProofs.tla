------------------------- MODULE FileAnalysesProofs -------------------------
(***************************************************************************)
(* Proofs about WorkerPool, for every number of items and every limit:     *)
(* PoolInv is inductive; the invariants of the pool follow from it, and    *)
(* with it every step maps to a step of Batch.  And about FileAnalyses,    *)
(* which runs the pool, for every set of batches and every limit: a batch  *)
(* holds directories and an agent only while it is in flight, and complete *)
(* installs are never concurrent.                                          *)
(***************************************************************************)
EXTENDS FileAnalyses, FiniteSetTheorems, TLAPS

-----------------------------------------------------------------------------
(* The pool                                                                *)

\* The width of the pool is a natural number, at most the limit when there is
\* one, and at least 1 when there is something to do.
LEMMA WorkerCountFacts ==
  /\ WorkerCount \in 0..NumItems
  /\ Limit >= 1 => WorkerCount <= Limit
  /\ Limit >= 1 /\ NumItems > 0 => WorkerCount >= 1
BY PoolAssumption DEF WorkerCount

\* Nothing has been called: every slot is empty and every worker is idle.
LEMMA InitPoolInv == Init => PoolInv
BY PoolAssumption, WorkerCountFacts
   DEF Init, PoolInv, TypeOK, StartsInInputOrder, InFlight, Items, Settled,
       Outcomes, Workers

\* The call starts one worker per item up to the width of the pool.
LEMMA CallPreservesPoolInv == PoolInv /\ Call => PoolInv'
<1> SUFFICES ASSUME PoolInv, Call PROVE PoolInv'
  OBVIOUS
<1> USE PoolAssumption, WorkerCountFacts
<1>1. /\ outcome = "uncalled" /\ next = 0
      /\ \A i \in Items : results[i] = "none"
  BY DEF PoolInv, Call, TypeOK, Items
<1>2. TypeOK'
  BY <1>1 DEF PoolInv, Call, TypeOK, Items, Workers, Outcomes, Settled
<1>3. StartsInInputOrder'
  BY DEF Call, StartsInInputOrder, Workers
<1>4. \A i \in InFlight' : \E w \in Workers : running'[w] = i
  BY DEF Call, InFlight, Items, Workers
<1>5. Limit < 1 => Workers = {}
  BY DEF WorkerCount, Workers
<1> QED
  BY <1>1, <1>2, <1>3, <1>4, <1>5 DEF PoolInv, Call, Items, Workers

\* What a continuation does: the item is settled, and the worker holds a fresh
\* item or none.
LEMMA SettlePreservesPoolInv ==
  ASSUME PoolInv, NEW w \in Workers, NEW s \in Settled, Settle(w, s)
  PROVE  PoolInv'
<1> USE PoolAssumption, WorkerCountFacts
<1> DEFINE i == running[w]
<1>1. /\ i \in Items /\ i <= next /\ results[i] = "none"
      /\ outcome = "pending" /\ outcome' = "pending"
      /\ Limit >= 1 /\ next \in Nat /\ next' = next + 1
      /\ next >= WorkerCount
      /\ \A v \in Workers : running[v] = i => v = w
  BY DEF PoolInv, Settle, Pull, TypeOK, Items, Workers
<1>2. results' \in [Items -> Settled \cup {"none"}] /\ results'[i] = s /\ s # "none"
  BY <1>1 DEF PoolInv, Settle, TypeOK, Settled
<1>3. \A j \in Items : j # i => results'[j] = results[j]
  BY <1>1 DEF PoolInv, Settle, TypeOK
<1>4. CASE next < NumItems
  <2>1. /\ running' = [running EXCEPT ![w] = next + 1]
        /\ starts' = Append(starts, next + 1)
    BY <1>4, <1>1 DEF Settle, Pull
  <2>2. next + 1 \in Items /\ next + 1 # i /\ results'[next + 1] = "none"
    BY <1>4, <1>1, <1>3 DEF PoolInv, Items
  <2>3. TypeOK'
    BY <2>1, <2>2, <1>1, <1>2 DEF PoolInv, TypeOK, Outcomes, Items
  <2>4. StartsInInputOrder'
    BY <2>1, <1>1, <1>4 DEF PoolInv, TypeOK, StartsInInputOrder
  <2>5. running'[w] = next + 1 /\ \A v \in Workers : v # w => running'[v] = running[v]
    BY <2>1 DEF PoolInv, TypeOK
  <2>6. \A v \in Workers : running[v] # 0 => running[v] \in Items /\ running[v] < next + 1
    BY <1>1 DEF PoolInv, TypeOK, Items
  <2>7. \A v \in Workers :
          /\ running'[v] # 0 =>
               /\ running'[v] <= next'
               /\ results'[running'[v]] = "none"
               /\ \A u \in Workers : running'[u] = running'[v] => u = v
          /\ running'[v] = 0 => next' >= NumItems
    <3> SUFFICES ASSUME NEW v \in Workers
                 PROVE  /\ running'[v] # 0 =>
                             /\ running'[v] <= next'
                             /\ results'[running'[v]] = "none"
                             /\ \A u \in Workers : running'[u] = running'[v] => u = v
                        /\ running'[v] = 0 => next' >= NumItems
      OBVIOUS
    <3>1. CASE v = w
      BY <3>1, <2>2, <2>5, <2>6, <1>1 DEF PoolInv, TypeOK
    <3>2. CASE v # w
      <4>1. running'[v] = running[v] /\ running[v] # i
        BY <3>2, <2>5, <1>1
      <4>2. running[v] \in Nat
        BY DEF PoolInv, TypeOK
      <4> QED
        BY <4>1, <4>2, <2>5, <2>6, <1>1, <1>3, <1>4 DEF PoolInv
    <3> QED BY <3>1, <3>2
  <2>8. \A j \in InFlight' : \E v \in Workers : running'[v] = j
    <3> SUFFICES ASSUME NEW j \in InFlight'
                 PROVE  \E v \in Workers : running'[v] = j
      OBVIOUS
    <3>1. j \in Items /\ j <= next + 1 /\ results'[j] = "none"
      BY <1>1 DEF InFlight
    <3>2. CASE j = next + 1
      BY <3>2, <2>5
    <3>3. CASE j # next + 1
      <4>1. j \in InFlight /\ j # i
        BY <3>1, <3>3, <1>1, <1>2, <1>3 DEF InFlight, Items
      <4>2. PICK v \in Workers : running[v] = j
        BY <4>1 DEF PoolInv
      <4> QED BY <4>1, <4>2, <2>5
    <3> QED BY <3>2, <3>3
  <2>9. \A j \in Items : j > next' => results'[j] = "none"
    BY <1>1, <1>3 DEF PoolInv, Items
  <2> QED
    BY <2>3, <2>4, <2>7, <2>8, <2>9, <1>1 DEF PoolInv
<1>5. CASE next >= NumItems
  <2>1. running' = [running EXCEPT ![w] = 0] /\ starts' = starts
    BY <1>5, <1>1 DEF Settle, Pull
  <2>2. running'[w] = 0 /\ \A v \in Workers : v # w => running'[v] = running[v]
    BY <2>1 DEF PoolInv, TypeOK
  <2>3. TypeOK'
    BY <2>1, <1>1, <1>2 DEF PoolInv, TypeOK, Outcomes, Items
  <2>4. StartsInInputOrder'
    BY <2>1, <1>1, <1>5 DEF PoolInv, TypeOK, StartsInInputOrder
  <2>5. \A v \in Workers : running'[v] # 0 =>
               /\ running'[v] <= next'
               /\ results'[running'[v]] = "none"
               /\ \A u \in Workers : running'[u] = running'[v] => u = v
    <3> SUFFICES ASSUME NEW v \in Workers, running'[v] # 0
                 PROVE  /\ running'[v] <= next'
                        /\ results'[running'[v]] = "none"
                        /\ \A u \in Workers : running'[u] = running'[v] => u = v
      OBVIOUS
    <3>1. v # w /\ running'[v] = running[v] /\ running[v] # i
      BY <2>2, <1>1
    <3>2. running[v] \in Items
      BY <3>1 DEF PoolInv, TypeOK, Items
    <3> QED
      BY <3>1, <3>2, <2>2, <1>1, <1>3 DEF PoolInv, Items
  <2>6. \A j \in InFlight' : \E v \in Workers : running'[v] = j
    <3> SUFFICES ASSUME NEW j \in InFlight'
                 PROVE  \E v \in Workers : running'[v] = j
      OBVIOUS
    <3>1. j \in InFlight /\ j # i
      BY <1>5, <1>1, <1>2, <1>3 DEF InFlight, Items
    <3>2. PICK v \in Workers : running[v] = j
      BY <3>1 DEF PoolInv
    <3> QED BY <3>1, <3>2, <2>2
  <2>7. \A j \in Items : j > next' => results'[j] = "none"
    BY <1>1, <1>3 DEF PoolInv, Items
  <2> QED
    BY <2>3, <2>4, <2>5, <2>6, <2>7, <1>1, <1>5 DEF PoolInv
<1> QED
  BY <1>1, <1>4, <1>5

\* The resolution of the call changes nothing but the outcome.
LEMMA ResolvePreservesPoolInv == PoolInv /\ Resolve => PoolInv'
BY DEF PoolInv, Resolve, TypeOK, Outcomes, StartsInInputOrder, InFlight

\* Every step preserves the invariant.
LEMMA NextPreservesPoolInv == PoolInv /\ [Next]_vars => PoolInv'
<1> SUFFICES ASSUME PoolInv, [Next]_vars PROVE PoolInv'
  OBVIOUS
<1>1. CASE Call
  BY <1>1, CallPreservesPoolInv
<1>2. ASSUME NEW w \in Workers, NEW s \in Settled, Settle(w, s) PROVE PoolInv'
  BY <1>2, SettlePreservesPoolInv
<1>3. CASE Resolve
  BY <1>3, ResolvePreservesPoolInv
<1>4. CASE UNCHANGED vars
  BY <1>4 DEF vars, PoolInv, TypeOK, StartsInInputOrder, InFlight
<1> QED
  BY <1>1, <1>2, <1>3, <1>4 DEF Next
-----------------------------------------------------------------------------
\* The cursor, the workers and the slots stay consistent in every reachable
\* state, whatever the number of items and the limit.
THEOREM PoolInvariant == Spec => []PoolInv
BY InitPoolInv, NextPreservesPoolInv, PTL DEF Spec

\* Every variable keeps its type.
THEOREM PoolTypeCorrect == Spec => []TypeOK
<1>1. PoolInv => TypeOK
  BY DEF PoolInv
<1> QED
  BY <1>1, PoolInvariant, PTL

\* The workers that have not returned are in bijection with the items in
\* flight; both counting properties rest on this.
LEMMA InFlightCount ==
  ASSUME PoolInv
  PROVE  /\ Cardinality(InFlight) <= WorkerCount
         /\ outcome = "pending" /\ next < NumItems =>
              Cardinality(InFlight) = WorkerCount
<1> DEFINE Active == {w \in Workers : running[w] # 0}
           assigned == [w \in Active |-> running[w]]
<1> USE PoolAssumption, WorkerCountFacts
<1>1. IsFiniteSet(Workers) /\ Cardinality(Workers) = WorkerCount
  BY FS_Interval DEF Workers
<1>2. IsFiniteSet(Active) /\ Cardinality(Active) <= WorkerCount
  BY <1>1, FS_Subset
<1>3. \A w \in Active : running[w] \in InFlight
  BY DEF PoolInv, TypeOK, InFlight, Items
<1>4. \A i \in InFlight : \E w \in Active : running[w] = i
  BY DEF PoolInv, InFlight, Items
<1>5. assigned \in Surjection(Active, InFlight)
  BY <1>3, <1>4 DEF Surjection
<1>6. assigned \in Injection(Active, InFlight)
  BY <1>3 DEF Injection, IsInjective, PoolInv
<1>7. IsFiniteSet(InFlight) /\ Cardinality(InFlight) = Cardinality(Active)
  <2> HIDE DEF Active, assigned
  <2> QED BY <1>2, <1>5, <1>6, FS_Surjection
<1>8. Cardinality(Active) \in Nat /\ Cardinality(InFlight) \in Nat
  BY <1>2, <1>7, FS_CardinalityType
<1>9. ASSUME outcome = "pending", next < NumItems
      PROVE  Active = Workers
  BY <1>9 DEF PoolInv, TypeOK
<1> QED
  <2> HIDE DEF Active, assigned
  <2> QED BY <1>1, <1>2, <1>7, <1>8, <1>9

\* At most `limit` invocations of fn are ever in flight.
THEOREM PoolLimit == Spec => []AtMostLimitInFlight
<1>1. PoolInv => AtMostLimitInFlight
  <2> SUFFICES ASSUME PoolInv, outcome \in {"pending", "resolved"}
               PROVE  Cardinality(InFlight) <= Limit
    BY DEF AtMostLimitInFlight
  <2>1. Limit >= 1
    BY DEF PoolInv
  <2>2. InFlight \subseteq Items /\ IsFiniteSet(Items)
    BY PoolAssumption, FS_Interval DEF InFlight, Items
  <2>3. Cardinality(InFlight) \in Nat
    BY <2>2, FS_Subset, FS_CardinalityType
  <2> QED
    BY <2>1, <2>3, InFlightCount, WorkerCountFacts, PoolAssumption
<1> QED
  BY <1>1, PoolInvariant, PTL

\* While items wait, every worker of the pool is busy.
THEOREM PoolWorkConserving == Spec => []WorkConserving
<1>1. PoolInv => WorkConserving
  BY InFlightCount DEF WorkConserving
<1> QED
  BY <1>1, PoolInvariant, PTL

\* fn is invoked on the items in input order, on each at most once.
THEOREM PoolStartOrder == Spec => []StartsInInputOrder
<1>1. PoolInv => StartsInInputOrder
  BY DEF PoolInv
<1> QED
  BY <1>1, PoolInvariant, PTL

\* The array the caller reads has a result in every slot.
LEMMA ResolvedIsComplete == PoolInv => NoHoleWhenResolved
<1> USE PoolAssumption, WorkerCountFacts
<1> SUFFICES ASSUME PoolInv, outcome = "resolved"
             PROVE  /\ Len(starts) = NumItems
                    /\ \A i \in Items : results[i] # "none"
  BY DEF NoHoleWhenResolved
<1>1. next \in Nat /\ next >= NumItems
  <2>1. CASE NumItems = 0
    BY <2>1 DEF PoolInv, TypeOK
  <2>2. CASE NumItems > 0
    <3>1. 1 \in Workers
      BY <2>2 DEF PoolInv, Workers
    <3> QED BY <3>1 DEF PoolInv, TypeOK
  <2> QED BY <2>1, <2>2
<1>2. \A i \in Items : results[i] # "none"
  BY <1>1 DEF PoolInv, InFlight, Items
<1> QED
  BY <1>1, <1>2 DEF PoolInv, StartsInInputOrder

\* The caller of runWithConcurrency never finds a hole in the array.
THEOREM PoolResolvedComplete == Spec => []NoHoleWhenResolved
BY ResolvedIsComplete, PoolInvariant, PTL

\* The step that fills a slot finds it empty.
LEMMA SettleFillsEmptySlot ==
  ASSUME PoolInv, NEW w \in Workers, NEW s \in Settled, Settle(w, s)
  PROVE  /\ running[w] \in Items
         /\ outcome = "pending"
         /\ results[running[w]] = "none"
         /\ results' = [results EXCEPT ![running[w]] = s]
BY DEF PoolInv, TypeOK, Settle, Items

\* A result, once in its slot, stays as it is.
THEOREM PoolResultsFinal == Spec => ResultsAreFinal
<1>1. PoolInv /\ [Next]_vars =>
        [\A i \in Items : results[i] # "none" => results'[i] = results[i]]_vars
  <2> SUFFICES ASSUME PoolInv, Next,
                      NEW i \in Items, results[i] # "none"
               PROVE  results'[i] = results[i]
    OBVIOUS
  <2>1. ASSUME NEW w \in Workers, NEW s \in Settled, Settle(w, s)
        PROVE  results'[i] = results[i]
    BY <2>1, SettleFillsEmptySlot DEF PoolInv, TypeOK
  <2> QED
    BY <2>1 DEF Next, Call, Resolve
<1> QED
  BY <1>1, PoolInvariant, PTL DEF Spec, ResultsAreFinal

\* Every step of the pool is a step of Batch, or leaves it alone.
LEMMA BatchSimulation ==
  /\ Init => B!BatchInit
  /\ PoolInv /\ [Next]_vars => [B!BatchNext]_(B!batchVars)
<1>1. Init => B!BatchInit
  BY DEF Init, B!BatchInit, B!Items, Items
<1>2. PoolInv /\ [Next]_vars => [B!BatchNext]_(B!batchVars)
  <2> SUFFICES ASSUME PoolInv, [Next]_vars
               PROVE  [B!BatchNext]_(B!batchVars)
    OBVIOUS
  <2>1. CASE Call
    BY <2>1 DEF Call, B!BatchNext, B!BatchCall
  <2>2. ASSUME NEW w \in Workers, NEW s \in Settled, Settle(w, s)
        PROVE  B!BatchNext
    <3>1. B!BatchSettle(running[w], s)
      BY <2>2, SettleFillsEmptySlot DEF Settle, B!BatchSettle
    <3> QED
      BY <2>2, <3>1, SettleFillsEmptySlot
         DEF B!BatchNext, B!Items, B!Settled, Items, Settled
  <2>3. CASE Resolve
    <3>1. outcome' = "resolved" /\ NoHoleWhenResolved'
      BY <2>3, NextPreservesPoolInv, ResolvedIsComplete, PTL DEF Resolve
    <3>2. B!BatchResolve
      BY <2>3, <3>1 DEF Resolve, NoHoleWhenResolved, B!BatchResolve, B!Items, Items
    <3> QED BY <3>2 DEF B!BatchNext
  <2>4. CASE UNCHANGED vars
    BY <2>4 DEF vars, B!batchVars
  <2> QED
    BY <2>1, <2>2, <2>3, <2>4 DEF Next
<1> QED
  BY <1>1, <1>2

\* The pool implements Batch: what the callers of runWithConcurrency rely on
\* follows from the workers and the cursor, for every limit and every input.
THEOREM PoolImplementsBatch == Spec => ImplementsBatch
BY BatchSimulation, PoolInvariant, PTL DEF Spec, ImplementsBatch, B!BatchSpec

-----------------------------------------------------------------------------
(* The file analyses                                                       *)

\* What a batch may hold where: nothing before it starts and after it settles,
\* and no agent before its structure is there.
SessionInv ==
  /\ PoolInv
  /\ stage \in [Callers -> Stages]
  /\ dirs \in [Items -> SUBSET {"script", "session"}]
  /\ child \in [Items -> {"none", "up", "closed"}]
  /\ \A i \in Items :
       /\ stage[i] # "failed"
       /\ stage[i] = "idle" <=> i > next
       /\ stage[i] = "settled" <=> results[i] # "none"
       /\ stage[i] \in {"idle", "settled"} => dirs[i] = {}
       /\ child[i] = "up" => stage[i] \in Rpcs \cup {"closing", "unwinding"}

\* The upstream package is complete before the fan-out is called.
BuildInv ==
  /\ outcome # "uncalled" => stage[0] = "settled"
  /\ outcome = "uncalled" => \A i \in Items : stage[i] = "idle"
  /\ stage[0] \in {"extracting", "settled"} => Sentinels \subseteq present
  /\ stage[0] = "building" => {"graphology", "louvain"} \subseteq present
  /\ \A i \in Items : stage[i] \notin {"installing", "building"}

\* A batch that returns does so in a step of its worker.
LEMMA ReturnIsSettle ==
  ASSUME NEW i, NEW s \in Settled, Return(i, s)
  PROVE  Next
BY DEF Return, Next

\* A step of the fan-out is a step of the pool, or none.
LEMMA FanOutStepIsPoolStep ==
  ASSUME [FanOutNext]_fanOutVars
  PROVE  [Next]_vars
<1>1. CASE MainStep
  BY <1>1 DEF MainStep, Begin, Prepared, FanOut, FanOutResolves, WriteAnalyses, Next, vars
<1>2. ASSUME NEW c \in Callers, CallerStep(c)
      PROVE  [Next]_vars
  <2>1. CASE Fails(c)
    BY <2>1, ReturnIsSettle DEF Fails, Settled, vars
  <2>2. CASE Install(c) \/ Build(c)
    BY <2>2, <2>1 DEF Install, Build, Script, vars
  <2>3. CASE Close(c)
    BY <2>3, ReturnIsSettle DEF Close, Settled
  <2>4. CASE Extract(c) \/ Handshake(c) \/ Reply(c) \/ RpcFails(c) \/ SpawnError(c)
    BY <2>4, <2>1 DEF Extract, Handshake, Reply, RpcFails, SpawnError, vars
  <2> QED
    BY <1>2, <2>2, <2>3, <2>4 DEF CallerStep
<1>3. CASE UNCHANGED fanOutVars
  BY <1>3 DEF fanOutVars, vars
<1> QED
  BY <1>1, <1>2, <1>3 DEF FanOutNext

\* Whatever the batches do, the pool below them behaves as WorkerPool says.
THEOREM FanOutIsPool == FanOutSpec => Init /\ [][Next]_vars
BY FanOutStepIsPoolStep, PTL DEF FanOutSpec, FanOutInit

\* So the pool's invariant holds of the fan-out, ...
THEOREM FanOutPoolInvariant == FanOutSpec => []PoolInv
BY FanOutIsPool, InitPoolInv, NextPreservesPoolInv, PTL

\* ... nobody reads a hole in its results, ...
THEOREM FanOutResolvedComplete == FanOutSpec => []NoHoleWhenResolved
BY ResolvedIsComplete, FanOutPoolInvariant, PTL

\* ... a failed or slow batch holds back one worker and no more, ...
THEOREM FanOutWorkConserving == FanOutSpec => []WorkConserving
<1>1. PoolInv => WorkConserving
  BY InFlightCount DEF WorkConserving
<1> QED
  BY <1>1, FanOutPoolInvariant, PTL

\* ... and the fan-out implements Batch.
THEOREM FanOutImplementsBatch == FanOutSpec => ImplementsBatch
BY BatchSimulation, FanOutIsPool, FanOutPoolInvariant, PTL
   DEF ImplementsBatch, B!BatchSpec

-----------------------------------------------------------------------------
\* A batch the pool has not reached is not one it starts twice.
LEMMA StartedFacts ==
  /\ Started \subseteq Items
  /\ 0 \notin Started
  /\ FirstStage \in {"extracting", "installing"}
BY DEF Started, Items, FirstStage

\* No session and no build at the start.
LEMMA InitSessionInv == FanOutInit => SessionInv /\ BuildInv
<1> SUFFICES ASSUME FanOutInit PROVE SessionInv /\ BuildInv
  OBVIOUS
<1>1. PoolInv
  BY InitPoolInv DEF FanOutInit
<1> QED
  BY <1>1, PoolAssumption
     DEF FanOutInit, Init, SessionInv, BuildInv, Stages, Callers, Items

\* The steps in which batch i settles and its worker takes the next batch.
LEMMA ReturnPreservesSessionInv ==
  ASSUME SessionInv, NEW i \in Items, NEW s \in Settled, Return(i, s),
         child' \in [Items -> {"none", "up", "closed"}],
         child'[i] # "up",
         \A j \in Items \ {i} : child'[j] = child[j]
  PROVE  SessionInv'
<1> USE PoolAssumption
<1>1. PICK w \in Workers : running[w] = i /\ Settle(w, s)
  BY DEF Return
<1>2. PoolInv'
  BY <1>1, SettlePreservesPoolInv DEF SessionInv
<1>3. /\ next \in Nat /\ next' = next + 1 /\ i <= next
      /\ results' = [results EXCEPT ![i] = s] /\ results \in [Items -> Settled \cup {"none"}]
  BY <1>1 DEF SessionInv, PoolInv, TypeOK, Settle, Pull
<1>4. /\ Started \subseteq {next + 1} /\ i \notin Started
      /\ \A j \in Items : j > next' => j \notin Started /\ j > next
  BY <1>3 DEF Started, Items
<1>5. stage' = [c \in Callers |->
        IF c \in Started THEN FirstStage ELSE IF c = i THEN "settled" ELSE stage[c]]
  BY DEF Return, Enter
<1>6. stage' \in [Callers -> Stages]
  BY <1>5, StartedFacts DEF SessionInv, Stages
<1>7. dirs' \in [Items -> SUBSET {"script", "session"}]
  BY DEF Return, DirsWithout, SessionInv
<1>8. ASSUME NEW j \in Items
      PROVE  /\ stage'[j] # "failed"
             /\ stage'[j] = "idle" <=> j > next'
             /\ stage'[j] = "settled" <=> results'[j] # "none"
             /\ stage'[j] \in {"idle", "settled"} => dirs'[j] = {}
             /\ child'[j] = "up" => stage'[j] \in Rpcs \cup {"closing", "unwinding"}
  <2>0. j \in Callers
    BY DEF Items, Callers
  <2>1. CASE j \in Started
    <3>1. j = next + 1 /\ stage'[j] = FirstStage /\ j # i
      BY <2>0, <2>1, <1>4, <1>5
    <3>2. results'[j] = "none" /\ stage[j] = "idle"
      BY <3>1, <1>3 DEF SessionInv, PoolInv
    <3>3. child'[j] # "up"
      BY <3>1, <3>2 DEF SessionInv, Rpcs
    <3> QED
      BY <3>1, <3>2, <3>3, <1>3, StartedFacts
  <2>2. CASE j = i
    <3>1. stage'[i] = "settled" /\ results'[i] = s /\ i \in Int
      BY <2>0, <2>2, <1>3, <1>4, <1>5 DEF Items
    <3>2. dirs'[i] = {}
      BY <1>4 DEF Return, DirsWithout
    <3> QED
      BY <2>2, <3>1, <3>2, <1>3 DEF Settled
  <2>3. CASE j \notin Started /\ j # i
    <3>1. stage'[j] = stage[j] /\ dirs'[j] = dirs[j] /\ results'[j] = results[j]
          /\ child'[j] = child[j]
      BY <2>0, <2>3, <1>3, <1>5 DEF Return, DirsWithout
    <3>2. j > next <=> j > next'
      BY <2>3, <1>3 DEF Started, Items
    <3> QED
      BY <3>1, <3>2 DEF SessionInv
  <2> QED BY <2>1, <2>2, <2>3
<1> QED
  BY <1>2, <1>6, <1>7, <1>8 DEF SessionInv

\* The call starts the first batches.
LEMMA FanOutPreservesSessionInv == SessionInv /\ FanOut => SessionInv'
<1> SUFFICES ASSUME SessionInv, FanOut PROVE SessionInv'
  OBVIOUS
<1> USE PoolAssumption
<1>1. PoolInv'
  BY CallPreservesPoolInv DEF SessionInv, FanOut
<1>2. /\ next = 0 /\ next' = WorkerCount /\ results' = results /\ child' = child
      /\ WorkerCount \in 0..NumItems
  BY WorkerCountFacts DEF SessionInv, PoolInv, FanOut, Call
<1>3. stage' = [c \in Callers |->
        IF c \in Started THEN FirstStage ELSE IF c = 0 THEN "settled" ELSE stage[c]]
  BY DEF FanOut, Enter
<1>4. stage' \in [Callers -> Stages]
  BY <1>3, StartedFacts DEF SessionInv, Stages
<1>5. dirs' \in [Items -> SUBSET {"script", "session"}]
  BY DEF FanOut, DirsWithout, SessionInv
<1>6. ASSUME NEW j \in Items
      PROVE  /\ stage'[j] # "failed"
             /\ stage'[j] = "idle" <=> j > next'
             /\ stage'[j] = "settled" <=> results'[j] # "none"
             /\ stage'[j] \in {"idle", "settled"} => dirs'[j] = {}
             /\ child'[j] = "up" => stage'[j] \in Rpcs \cup {"closing", "unwinding"}
  <2>0. j \in Callers /\ j # 0 /\ j \in Nat
    BY DEF Items, Callers
  <2>1. stage[j] = "idle" /\ dirs[j] = {} /\ child[j] # "up" /\ results[j] = "none"
    BY <2>0, <1>2 DEF SessionInv, Rpcs, Items
  <2>2. CASE j \in Started
    BY <2>0, <2>1, <2>2, <1>2, <1>3, StartedFacts DEF Started
  <2>3. CASE j \notin Started
    BY <2>0, <2>1, <2>3, <1>2, <1>3 DEF FanOut, DirsWithout, Started, Items
  <2> QED BY <2>2, <2>3
<1> QED
  BY <1>1, <1>2, <1>4, <1>5, <1>6 DEF SessionInv

\* The steps of one batch that leave the pool alone.
LEMMA BatchStepPreservesSessionInv ==
  ASSUME SessionInv, NEW c \in Callers, UNCHANGED vars,
         NEW s \in Stages \ {"idle", "settled", "failed"},
         stage[c] \in Stages \ {"idle", "settled", "failed"},
         stage' = [stage EXCEPT ![c] = s],
         dirs' \in [Items -> SUBSET {"script", "session"}],
         \A j \in Items \ {c} : dirs'[j] = dirs[j],
         child' \in [Items -> {"none", "up", "closed"}],
         \A j \in Items \ {c} : child'[j] = child[j],
         c \in Items => (child'[c] = "up" => s \in Rpcs \cup {"closing", "unwinding"})
  PROVE  SessionInv'
<1>1. PoolInv'
  BY NextPreservesPoolInv DEF SessionInv
<1>2. next' = next /\ results' = results
  BY DEF vars
<1>3. stage' \in [Callers -> Stages]
  BY DEF SessionInv
<1>4. ASSUME NEW j \in Items
      PROVE  /\ stage'[j] # "failed"
             /\ stage'[j] = "idle" <=> j > next'
             /\ stage'[j] = "settled" <=> results'[j] # "none"
             /\ stage'[j] \in {"idle", "settled"} => dirs'[j] = {}
             /\ child'[j] = "up" => stage'[j] \in Rpcs \cup {"closing", "unwinding"}
  <2>0. j \in Callers
    BY DEF Items, Callers
  <2>1. CASE j = c
    BY <2>0, <2>1, <1>2 DEF SessionInv
  <2>2. CASE j # c
    <3>1. stage'[j] = stage[j] /\ dirs'[j] = dirs[j] /\ child'[j] = child[j]
      BY <2>0, <2>2 DEF SessionInv
    <3> QED BY <3>1, <1>2 DEF SessionInv
  <2> QED BY <2>1, <2>2
<1> QED
  BY <1>1, <1>3, <1>4 DEF SessionInv

\* Every step keeps what batches hold within the pool's batches in flight.
LEMMA StepPreservesSessionInv == SessionInv /\ [FanOutNext]_fanOutVars => SessionInv'
<1> SUFFICES ASSUME SessionInv, [FanOutNext]_fanOutVars PROVE SessionInv'
  OBVIOUS
<1>0. PoolInv'
  BY FanOutStepIsPoolStep, NextPreservesPoolInv DEF SessionInv
<1>1. CASE FanOut
  BY <1>1, FanOutPreservesSessionInv
<1>2. CASE Begin \/ Prepared
  <2>1. /\ \A j \in Items : stage'[j] = stage[j]
        /\ stage' \in [Callers -> Stages]
    <3>1. PICK s \in Stages : stage' = [stage EXCEPT ![0] = s]
      BY <1>2, StartedFacts DEF Begin, Prepared, GoTo, Stages
    <3> QED
      BY <3>1, PoolAssumption DEF SessionInv, Callers, Items
  <2> QED
    BY <1>0, <1>2, <2>1 DEF Begin, Prepared, vars, SessionInv
<1>3. CASE FanOutResolves \/ WriteAnalyses
  BY <1>0, <1>3 DEF FanOutResolves, WriteAnalyses, Resolve, ownVars, vars, SessionInv
<1>4. ASSUME NEW c \in Callers, CallerStep(c)
      PROVE  SessionInv'
  <2>1. CASE c \in Items /\ Return(c, "failed") /\ UNCHANGED child
             /\ stage[c] \in {"installing", "building", "extracting"}
    BY <2>1, ReturnPreservesSessionInv DEF SessionInv, Settled, Rpcs
  <2>2. CASE c = 0 /\ GoTo(0, "failed") /\ UNCHANGED <<vars, dirs, child>>
    <3>1. /\ \A j \in Items : stage'[j] = stage[j]
          /\ stage' \in [Callers -> Stages]
      BY <2>2 DEF GoTo, SessionInv, Callers, Items, Stages
    <3> QED
      BY <1>0, <2>2, <3>1 DEF vars, SessionInv
  <2>3. CASE Install(c)
    <3>1. CASE Fails(c)
      BY <2>1, <2>2, <2>3, <3>1 DEF Fails, Install, At
    <3>2. CASE GoTo(c, "building") /\ UNCHANGED <<vars, dirs, child>>
      BY <2>3, <3>2, BatchStepPreservesSessionInv
         DEF Install, At, GoTo, SessionInv, Stages, Rpcs
    <3> QED BY <2>3, <3>1, <3>2 DEF Install
  <2>4. CASE Build(c)
    <3>1. CASE Fails(c)
      BY <2>1, <2>2, <2>4, <3>1 DEF Fails, Build, At
    <3>2. CASE Script(c)
      <4>1. /\ dirs' \in [Items -> SUBSET {"script", "session"}]
            /\ \A j \in Items \ {c} : dirs'[j] = dirs[j]
        BY <3>2 DEF Script, SessionInv
      <4> QED
        BY <2>4, <3>2, <4>1, BatchStepPreservesSessionInv
           DEF Build, Script, At, GoTo, SessionInv, Stages, Rpcs
    <3> QED BY <2>4, <3>1, <3>2 DEF Build
  <2>5. CASE c \in Items /\ Extract(c)
    <3>1. CASE Fails(c)
      BY <2>1, <2>5, <3>1 DEF Fails, Extract, At, Items
    <3>2. CASE ~Fails(c)
      <4>1. /\ dirs' = [dirs EXCEPT ![c] = {"session"}]
            /\ child' = [child EXCEPT ![c] = "up"]
            /\ stage' = [stage EXCEPT ![c] = "initialize"] /\ UNCHANGED vars
        BY <2>5, <3>2 DEF Extract, GoTo
      <4> QED
        BY <2>5, <4>1, BatchStepPreservesSessionInv DEF Extract, At, SessionInv, Stages, Rpcs
    <3> QED BY <3>1, <3>2
  <2>6. CASE Handshake(c) \/ Reply(c) \/ RpcFails(c)
    BY <2>6, BatchStepPreservesSessionInv
       DEF Handshake, Reply, RpcFails, At, GoTo, SessionInv, Stages, Rpcs
  <2>7. CASE SpawnError(c)
    BY <1>0, <2>7 DEF SpawnError, vars, SessionInv
  <2>8. CASE c \in Items /\ Close(c)
    <3>1. PICK s \in Settled : Return(c, s)
      BY <2>8 DEF Close, Settled
    <3>2. child' = [child EXCEPT ![c] = "closed"]
      BY <2>8 DEF Close
    <3> QED
      BY <2>8, <3>1, <3>2, ReturnPreservesSessionInv DEF SessionInv
  <2> QED
    BY <1>4, <2>3, <2>4, <2>5, <2>6, <2>7, <2>8 DEF CallerStep
<1>5. CASE UNCHANGED fanOutVars
  BY <1>0, <1>5 DEF fanOutVars, ownVars, vars, SessionInv
<1> QED
  BY <1>1, <1>2, <1>3, <1>4, <1>5 DEF FanOutNext, MainStep

\* A batch has a directory or an agent only while it is in flight, so there are
\* never more agents than workers and none is left when the call is through.
THEOREM FanOutSessions == FanOutSpec => []SessionsFollowThePool
<1>1. SessionInv => SessionsFollowThePool
  <2> SUFFICES ASSUME SessionInv PROVE SessionsFollowThePool
    OBVIOUS
  <2>1. {i \in Items : dirs[i] # {} \/ child[i] = "up"} \subseteq InFlight
    <3> SUFFICES ASSUME NEW i \in Items, dirs[i] # {} \/ child[i] = "up"
                 PROVE  i \in InFlight
      OBVIOUS
    <3>1. stage[i] # "idle" /\ stage[i] # "settled"
      BY DEF SessionInv, Rpcs
    <3>2. i \in Int /\ next \in Nat
      BY DEF SessionInv, PoolInv, TypeOK, Items
    <3> QED
      BY <3>1, <3>2 DEF SessionInv, InFlight
  <2>2. IsFiniteSet(InFlight)
    <3>1. IsFiniteSet(Items) /\ InFlight \subseteq Items
      BY PoolAssumption, FS_Interval DEF InFlight, Items
    <3> QED BY <3>1, FS_Subset
  <2>3. {i \in Items : child[i] = "up"} \subseteq InFlight
    BY <2>1
  <2>4. /\ Cardinality({i \in Items : child[i] = "up"}) <= Cardinality(InFlight)
        /\ Cardinality({i \in Items : child[i] = "up"}) \in Nat
        /\ Cardinality(InFlight) \in Nat
    BY <2>2, <2>3, FS_Subset, FS_CardinalityType
  <2>5. Cardinality(InFlight) <= WorkerCount
    BY InFlightCount DEF SessionInv
  <2> QED
    BY <2>1, <2>4, <2>5, WorkerCountFacts, PoolAssumption DEF SessionsFollowThePool
<1> QED
  BY <1>1, InitSessionInv, StepPreservesSessionInv, PTL DEF FanOutSpec

\* The upstream package is settled before the fan-out and stays so.
LEMMA StepPreservesBuildInv ==
  ASSUME CompleteInstall, SessionInv, BuildInv, [FanOutNext]_fanOutVars
  PROVE  BuildInv'
<1>0. /\ stage \in [Callers -> Stages] /\ 0 \in Callers
      /\ \A j \in Items : j \in Callers /\ j # 0
  BY PoolAssumption DEF SessionInv, Callers, Items
<1>1. CASE FanOut
  <2>1. stage[0] = "settled" /\ Sentinels \subseteq present /\ present' = present
    BY <1>1 DEF FanOut, At, Enter, BuildInv
  <2>2. FirstStage = "extracting" /\ outcome' # "uncalled"
    BY <1>1, <2>1 DEF FirstStage, FanOut, Call
  <2>3. /\ stage'[0] = "settled"
        /\ \A j \in Items : stage'[j] \in {"extracting", stage[j]}
    BY <1>0, <1>1, <2>2, StartedFacts DEF FanOut, Enter
  <2> QED
    BY <2>1, <2>2, <2>3 DEF BuildInv
<1>2. CASE Begin
  <2>1. stage' = [stage EXCEPT ![0] = FirstStage] /\ present' = present /\ outcome' = outcome
    BY <1>2 DEF Begin, GoTo, vars
  <2>2. stage[0] = "idle"
    BY <1>2 DEF Begin, At
  <2> QED
    BY <1>0, <2>1, <2>2 DEF BuildInv, FirstStage
<1>3. CASE Prepared
  <2>1. PICK s \in {"settled", "failed"} : stage' = [stage EXCEPT ![0] = s]
    BY <1>3 DEF Prepared, GoTo
  <2>2. stage[0] = "extracting" /\ present' = present /\ outcome' = outcome
    BY <1>3 DEF Prepared, At, vars
  <2> QED
    BY <1>0, <2>1, <2>2 DEF BuildInv
<1>4. CASE FanOutResolves \/ WriteAnalyses
  BY <1>4 DEF FanOutResolves, WriteAnalyses, Resolve, ownVars, vars, BuildInv
<1>5. ASSUME NEW c \in Callers, CallerStep(c)
      PROVE  BuildInv'
  <2>1. ASSUME NEW i \in Items, NEW s \in Settled, Return(i, s)
        PROVE  BuildInv'
    <3>1. outcome = "pending" /\ outcome' = outcome
      BY <2>1, SettleFillsEmptySlot DEF Return, Settle, SessionInv
    <3>2. stage[0] = "settled" /\ Sentinels \subseteq present /\ present' = present
      BY <2>1, <3>1 DEF Return, Enter, BuildInv
    <3>3. FirstStage = "extracting"
      BY <3>2 DEF FirstStage
    <3>4. /\ stage'[0] = "settled"
          /\ \A j \in Items : stage'[j] \in {"extracting", "settled", stage[j]}
      BY <1>0, <2>1, <3>2, <3>3, StartedFacts DEF Return, Enter
    <3> QED
      BY <3>1, <3>2, <3>4 DEF BuildInv
  <2>2. ASSUME NEW s \in Rpcs \cup {"closing", "unwinding"}, c \in Items,
               stage[c] # "idle", stage' = [stage EXCEPT ![c] = s],
               UNCHANGED <<vars, present>>
        PROVE  BuildInv'
    <3>1. outcome' = outcome /\ outcome # "uncalled" /\ stage'[0] = stage[0]
      BY <1>0, <2>2 DEF vars, BuildInv
    <3>2. \A j \in Items : stage'[j] \in {s, stage[j]}
      BY <1>0, <2>2
    <3> QED
      BY <2>2, <3>1, <3>2 DEF BuildInv, Rpcs
  <2>3. CASE Install(c)
    <3>1. c = 0 /\ stage[0] = "installing"
      BY <2>3 DEF Install, At, BuildInv, Callers, Items
    <3>2. outcome = "uncalled" /\ outcome' = outcome
      BY <2>3, <3>1 DEF Install, Fails, BuildInv, Items, vars
    <3>3. \/ stage' = [stage EXCEPT ![0] = "failed"] /\ present' = present
          \/ /\ stage' = [stage EXCEPT ![0] = "building"]
             /\ {"graphology", "louvain"} \subseteq present'
      BY <2>3, <3>1 DEF Install, Fails, GoTo, Items
    <3> QED
      BY <1>0, <3>1, <3>2, <3>3 DEF BuildInv
  <2>4. CASE Build(c)
    <3>1. c = 0 /\ stage[0] = "building"
      BY <2>4 DEF Build, At, BuildInv, Callers, Items
    <3>2. outcome = "uncalled" /\ outcome' = outcome
      BY <2>4, <3>1 DEF Build, Script, Fails, BuildInv, Items, vars
    <3>3. \/ stage' = [stage EXCEPT ![0] = "failed"] /\ present' = present
          \/ /\ stage' = [stage EXCEPT ![0] = "extracting"]
             /\ present' = present \cup {"core"}
      BY <2>4, <3>1 DEF Build, Script, Fails, GoTo, Items
    <3> QED
      BY <1>0, <3>1, <3>2, <3>3 DEF BuildInv, Sentinels
  <2>5. CASE c \in Items /\ Extract(c)
    <3>1. CASE Fails(c)
      BY <1>0, <2>1, <2>5, <3>1 DEF Fails, Settled
    <3>2. CASE ~Fails(c)
      BY <2>2, <2>5, <3>2 DEF Extract, At, GoTo, Rpcs
    <3> QED BY <3>1, <3>2
  <2>6. CASE c \in Items /\ (Handshake(c) \/ Reply(c) \/ RpcFails(c))
    BY <2>2, <2>6 DEF Handshake, Reply, RpcFails, At, GoTo, Rpcs
  <2>7. CASE SpawnError(c)
    BY <2>7 DEF SpawnError, vars, BuildInv
  <2>8. CASE c \in Items /\ Close(c)
    BY <2>1, <2>8 DEF Close, Settled
  <2> QED
    BY <1>5, <2>3, <2>4, <2>5, <2>6, <2>7, <2>8 DEF CallerStep
<1>6. CASE UNCHANGED fanOutVars
  BY <1>6 DEF fanOutVars, ownVars, vars, BuildInv
<1> QED
  BY <1>1, <1>2, <1>3, <1>4, <1>5, <1>6 DEF FanOutNext, MainStep

\* When an install that succeeds installs everything, two installs are never
\* under way in one process, nor one while a script or a session runs.
THEOREM FanOutBuild == FanOutSpec => []BuildIsSettledFirst
<1>1. SessionInv /\ BuildInv => BuildIsSettledFirst
  <2> SUFFICES ASSUME SessionInv, BuildInv, CompleteInstall
               PROVE  /\ Cardinality(Installing) <= 1
                      /\ \A c \in Callers : stage[c] \in {"extracting", "settled"} \cup Rpcs =>
                           /\ Installing = {}
                           /\ outcome # "uncalled" => Sentinels \subseteq present
    BY DEF BuildIsSettledFirst
  <2>1. Installing \subseteq {0}
    BY DEF Installing, BuildInv, Callers, Items
  <2>2. Cardinality(Installing) <= 1
    <3>1. Installing = {} \/ Installing = {0}
      BY <2>1
    <3>2. Cardinality({0}) = 1
      BY FS_Singleton
    <3>3. Cardinality({}) = 0
      BY FS_EmptySet
    <3> QED BY <3>1, <3>2, <3>3
  <2>3. ASSUME NEW c \in Callers, stage[c] \in {"extracting", "settled"} \cup Rpcs
        PROVE  Installing = {} /\ (outcome # "uncalled" => Sentinels \subseteq present)
    <3>1. CASE c = 0
      BY <2>1, <2>3, <3>1 DEF Installing, BuildInv, Rpcs
    <3>2. CASE c # 0
      <4>1. c \in Items /\ outcome # "uncalled"
        BY <2>3, <3>2 DEF BuildInv, Callers, Items, Rpcs
      <4> QED
        BY <2>1, <4>1 DEF Installing, BuildInv
    <3> QED BY <3>1, <3>2
  <2> QED
    BY <2>2, <2>3
<1>2. ASSUME ~CompleteInstall PROVE BuildIsSettledFirst
  BY <1>2 DEF BuildIsSettledFirst
<1>3. FanOutSpec => []SessionInv
  BY InitSessionInv, StepPreservesSessionInv, PTL DEF FanOutSpec
<1>4. CASE CompleteInstall
  BY <1>1, <1>3, <1>4, InitSessionInv, StepPreservesBuildInv, PTL DEF FanOutSpec
<1>5. CASE ~CompleteInstall
  BY <1>2, <1>5, PTL
<1> QED BY <1>4, <1>5

-----------------------------------------------------------------------------
\* The variables SessionInv says nothing of.
DataOK ==
  /\ present \subseteq Sentinels
  /\ structure \in [Items -> SUBSET UNION {FilesOf[i] : i \in Items}]
  /\ narrative \in [Items -> SUBSET (StrayKeys \cup UNION {FilesOf[i] : i \in Items})]
  /\ process \in {"up", "crashed"}

\* What the scripts and the sessions report is of the batches.
LEMMA StepPreservesDataOK ==
  ASSUME DataOK, [FanOutNext]_fanOutVars
  PROVE  DataOK'
<1>1. CASE MainStep
  BY <1>1 DEF MainStep, Begin, Prepared, FanOut, FanOutResolves, WriteAnalyses, Enter,
              ownVars, DataOK
<1>2. ASSUME NEW c \in Callers, CallerStep(c)
      PROVE  DataOK'
  <2>1. CASE Fails(c)
    BY <2>1 DEF Fails, Return, Enter, DataOK
  <2>2. CASE Install(c)
    <3>1. CASE ~Fails(c)
      BY <2>2, <3>1 DEF Install, DataOK, Sentinels
    <3> QED BY <2>1, <2>2, <3>1
  <2>3. CASE Build(c)
    <3>1. CASE ~Fails(c)
      BY <2>3, <3>1 DEF Build, Script, DataOK, Sentinels
    <3> QED BY <2>1, <2>3, <3>1
  <2>4. CASE c \in Items /\ Extract(c)
    <3>1. CASE ~Fails(c)
      <4>1. PICK S \in SUBSET FilesOf[c] : structure' = [structure EXCEPT ![c] = S]
        BY <2>4, <3>1 DEF Extract
      <4> QED
        BY <2>4, <3>1, <4>1 DEF Extract, DataOK
    <3> QED BY <2>1, <2>4, <3>1
  <2>5. CASE c \in Items /\ Reply(c)
    <3>1. PICK K \in SUBSET (FilesOf[c] \cup StrayKeys) : narrative' = [narrative EXCEPT ![c] = K]
      BY <2>5 DEF Reply
    <3>2. K \subseteq StrayKeys \cup UNION {FilesOf[i] : i \in Items}
      BY <2>5
    <3> QED
      BY <2>5, <3>1, <3>2 DEF Reply, DataOK
  <2>6. CASE Handshake(c) \/ RpcFails(c) \/ SpawnError(c)
    BY <2>6 DEF Handshake, RpcFails, SpawnError, DataOK
  <2>7. CASE Close(c)
    BY <2>7 DEF Close, Return, Enter, DataOK
  <2> QED
    BY <1>2, <2>2, <2>3, <2>4, <2>5, <2>6, <2>7 DEF CallerStep
<1>3. CASE UNCHANGED fanOutVars
  BY <1>3 DEF fanOutVars, ownVars, DataOK
<1> QED
  BY <1>1, <1>2, <1>3 DEF FanOutNext

\* Every variable of the fan-out keeps its type.
THEOREM FanOutTypeCorrect == FanOutSpec => []FanOutTypeOK
<1>1. FanOutInit => DataOK
  BY DEF FanOutInit, DataOK
<1>2. SessionInv /\ DataOK => FanOutTypeOK
  BY DEF SessionInv, PoolInv, DataOK, FanOutTypeOK
<1> QED
  BY <1>1, <1>2, InitSessionInv, StepPreservesSessionInv, StepPreservesDataOK, PTL
     DEF FanOutSpec

-----------------------------------------------------------------------------
(* The counts of the report                                                *)

\* The files of a batch, with the batch.
Pairs(sets, S) == UNION {{i} \X sets[i] : i \in S}

\* The pairs SizeOver counts.
LEMMA PairsAre ==
  ASSUME NEW sets, NEW S
  PROVE  /\ \A i, f : <<i, f>> \in Pairs(sets, S) <=> i \in S /\ f \in sets[i]
         /\ \A p \in Pairs(sets, S) : \E i \in S : \E f \in sets[i] : p = <<i, f>>
BY DEF Pairs

\* All batches together have finitely many files.
LEMMA FilesAreFinite == IsFiniteSet(Pairs(FilesOf, Items))
<1> DEFINE Own == {{i} \X FilesOf[i] : i \in Items}
           H == [i \in Items |-> {i} \X FilesOf[i]]
<1>1. IsFiniteSet(Items)
  BY PoolAssumption, FS_Interval DEF Items
<1>2. H \in Surjection(Items, Own)
  BY DEF Surjection
<1>3. IsFiniteSet(Own)
  <2> HIDE DEF Own, H
  <2> QED BY <1>1, <1>2, FS_Surjection
<1>4. ASSUME NEW i \in Items PROVE IsFiniteSet({i} \X FilesOf[i])
  BY FanOutAssumption, FS_Singleton, FS_Product DEF Items
<1>5. \A T \in Own : IsFiniteSet(T)
  BY <1>4
<1> HIDE DEF Own
<1>6. IsFiniteSet(UNION Own)
  BY <1>3, <1>5, FS_UNION
<1> QED BY <1>6 DEF Own, Pairs

\* A file that is in one batch only is counted once with its batch and once without.
LEMMA CountedWithBatch ==
  ASSUME NEW sets, NEW S, IsFiniteSet(Pairs(sets, S)),
         \A i, j \in S : \A f : f \in sets[i] /\ f \in sets[j] => i = j
  PROVE  Cardinality(UNION {sets[i] : i \in S}) = Cardinality(Pairs(sets, S))
<1> DEFINE P == Pairs(sets, S)
           U == UNION {sets[i] : i \in S}
           H == [p \in P |-> p[2]]
<1>1. \A p \in P : \E i \in S : \E f \in sets[i] : p = <<i, f>>
  BY PairsAre
<1>2. \A i \in S : \A f \in sets[i] : <<i, f>> \in P
  BY PairsAre
<1>3. /\ \A f \in U : \E i \in S : f \in sets[i]
      /\ \A i \in S : \A f \in sets[i] : f \in U
  OBVIOUS
<1> HIDE DEF P, U
<1>4. H \in [P -> U]
  BY <1>1, <1>3
<1>5. ASSUME NEW p \in P, NEW q \in P, H[p] = H[q] PROVE p = q
  <2>1. PICK i \in S : \E f \in sets[i] : p = <<i, f>>
    BY <1>1
  <2>2. PICK f \in sets[i] : p = <<i, f>>
    BY <2>1
  <2>3. PICK j \in S : \E f_1 \in sets[j] : q = <<j, f_1>>
    BY <1>1
  <2>4. PICK g \in sets[j] : q = <<j, g>>
    BY <2>3
  <2>5. f = g
    BY <1>5, <2>2, <2>4
  <2> QED BY <2>2, <2>4, <2>5
<1>6. \A u \in U : \E p \in P : H[p] = u
  <2> SUFFICES ASSUME NEW u \in U PROVE \E p \in P : H[p] = u
    OBVIOUS
  <2>1. PICK i \in S : u \in sets[i]
    BY <1>3
  <2>2. <<i, u>> \in P /\ H[<<i, u>>] = u
    BY <1>2, <2>1
  <2> QED BY <2>2
<1>7. H \in Bijection(P, U)
  BY <1>4, <1>5, <1>6 DEF Bijection, Injection, Surjection, IsInjective
<1>8. ExistsBijection(P, U)
  BY <1>7, Zenon DEF ExistsBijection
<1> QED BY <1>8, FS_Bijection DEF P, U

\* Sets that have nothing in common count as many as they have together.
LEMMA TwoParts ==
  ASSUME NEW T1, NEW T2, IsFiniteSet(T1), IsFiniteSet(T2), T1 \cap T2 = {}
  PROVE  /\ Cardinality(T1 \cup T2) = Cardinality(T1) + Cardinality(T2)
         /\ Cardinality(T1) \in Nat /\ Cardinality(T2) \in Nat
<1>1. Cardinality(T1 \cup T2) = Cardinality(T1) + Cardinality(T2) - Cardinality(T1 \cap T2)
  BY FS_Union
<1>2. Cardinality(T1 \cap T2) = 0
  BY FS_EmptySet
<1>3. Cardinality(T1) \in Nat /\ Cardinality(T2) \in Nat
  BY FS_CardinalityType
<1> QED BY <1>1, <1>2, <1>3

\* A set in four parts has the size of the four together.
LEMMA FourParts ==
  ASSUME NEW T, IsFiniteSet(T),
         NEW T1, NEW T2, NEW T3, NEW T4, T = T1 \cup T2 \cup T3 \cup T4,
         T1 \cap T2 = {}, (T1 \cup T2) \cap T3 = {}, (T1 \cup T2 \cup T3) \cap T4 = {}
  PROVE  Cardinality(T) = Cardinality(T1) + Cardinality(T2) + Cardinality(T3) + Cardinality(T4)
<1>1. /\ IsFiniteSet(T1) /\ IsFiniteSet(T2) /\ IsFiniteSet(T3) /\ IsFiniteSet(T4)
      /\ IsFiniteSet(T1 \cup T2) /\ IsFiniteSet(T1 \cup T2 \cup T3)
  BY FS_Subset
<1>2. Cardinality(T1 \cup T2) = Cardinality(T1) + Cardinality(T2)
  BY <1>1, TwoParts
<1>3. Cardinality((T1 \cup T2) \cup T3) = Cardinality(T1 \cup T2) + Cardinality(T3)
  BY <1>1, TwoParts
<1>4. Cardinality((T1 \cup T2 \cup T3) \cup T4) = Cardinality(T1 \cup T2 \cup T3) + Cardinality(T4)
  BY <1>1, TwoParts
<1> QED BY <1>2, <1>3, <1>4

\* The report of the moment it is made counts every file once.
LEMMA MergedAddsUp ==
  ASSUME BatchesAreDisjoint
  PROVE  /\ Merged.total = Cardinality(Merged.analysed)
              + SizeOver([i \in Items |-> MissingStructure(i)], Succeeded)
              + SizeOver([i \in Items |-> MissingNarrative(i)], Succeeded)
              + SizeOver(FilesOf, Items \ Succeeded)
         /\ Merged.succeeded + Merged.failed = NumItems
<1> DEFINE both == [i \in Items |-> Analysed(i)]
           noStructure == [i \in Items |-> MissingStructure(i)]
           noNarrative == [i \in Items |-> MissingNarrative(i)]
           T == Pairs(FilesOf, Items)
           P1 == Pairs(both, Succeeded)
           P2 == Pairs(noStructure, Succeeded)
           P3 == Pairs(noNarrative, Succeeded)
           P4 == Pairs(FilesOf, Items \ Succeeded)
<1>1. Succeeded \subseteq Items
  BY DEF Succeeded
<1>2. \A i, f : /\ <<i, f>> \in T <=> i \in Items /\ f \in FilesOf[i]
                /\ <<i, f>> \in P1 <=> i \in Succeeded /\ f \in Analysed(i)
                /\ <<i, f>> \in P2 <=> i \in Succeeded /\ f \in MissingStructure(i)
                /\ <<i, f>> \in P3 <=> i \in Succeeded /\ f \in MissingNarrative(i)
                /\ <<i, f>> \in P4 <=> i \in Items \ Succeeded /\ f \in FilesOf[i]
  <2>1. \A i \in Succeeded : /\ both[i] = Analysed(i)
                             /\ noStructure[i] = MissingStructure(i)
                             /\ noNarrative[i] = MissingNarrative(i)
    BY <1>1
  <2> HIDE DEF both, noStructure, noNarrative
  <2>2. \A i, f : <<i, f>> \in T <=> i \in Items /\ f \in FilesOf[i]
    BY PairsAre
  <2>3. \A i, f : <<i, f>> \in P1 <=> i \in Succeeded /\ f \in both[i]
    BY PairsAre
  <2>4. \A i, f : <<i, f>> \in P2 <=> i \in Succeeded /\ f \in noStructure[i]
    BY PairsAre
  <2>5. \A i, f : <<i, f>> \in P3 <=> i \in Succeeded /\ f \in noNarrative[i]
    BY PairsAre
  <2>6. \A i, f : <<i, f>> \in P4 <=> i \in Items \ Succeeded /\ f \in FilesOf[i]
    BY PairsAre
  <2> HIDE DEF T, P1, P2, P3, P4
  <2> QED BY <2>1, <2>2, <2>3, <2>4, <2>5, <2>6
<1>3. /\ \A p \in T : p = <<p[1], p[2]>>
      /\ \A p \in P1 : p = <<p[1], p[2]>>
      /\ \A p \in P2 : p = <<p[1], p[2]>>
      /\ \A p \in P3 : p = <<p[1], p[2]>>
      /\ \A p \in P4 : p = <<p[1], p[2]>>
  BY PairsAre
<1> HIDE DEF T, P1, P2, P3, P4
<1>4. /\ T = P1 \cup P2 \cup P3 \cup P4
      /\ P1 \cap P2 = {} /\ (P1 \cup P2) \cap P3 = {} /\ (P1 \cup P2 \cup P3) \cap P4 = {}
  BY <1>1, <1>2, <1>3 DEF Analysed, MissingStructure, MissingNarrative
<1>5. IsFiniteSet(T)
  BY FilesAreFinite DEF T
<1>6. Cardinality(T) = Cardinality(P1) + Cardinality(P2) + Cardinality(P3) + Cardinality(P4)
  BY <1>4, <1>5, FourParts
<1>7. Cardinality(UNION {Analysed(i) : i \in Succeeded}) = Cardinality(P1)
  <2>1. IsFiniteSet(Pairs(both, Succeeded))
    BY <1>4, <1>5, FS_Subset DEF P1
  <2>2. \A i, j \in Succeeded : \A f : f \in both[i] /\ f \in both[j] => i = j
    BY <1>1 DEF BatchesAreDisjoint, Analysed
  <2>3. UNION {both[i] : i \in Succeeded} = UNION {Analysed(i) : i \in Succeeded}
    BY <1>1
  <2> HIDE DEF both
  <2> QED BY <2>1, <2>2, <2>3, CountedWithBatch DEF P1
<1>8. /\ Merged.total = Cardinality(T)
      /\ Merged.analysed = UNION {Analysed(i) : i \in Succeeded}
      /\ SizeOver(noStructure, Succeeded) = Cardinality(P2)
      /\ SizeOver(noNarrative, Succeeded) = Cardinality(P3)
      /\ SizeOver(FilesOf, Items \ Succeeded) = Cardinality(P4)
  BY DEF Merged, SizeOver, Pairs, T, P2, P3, P4
<1>9. Merged.succeeded + Merged.failed = NumItems
  <2>1. IsFiniteSet(Items)
    BY PoolAssumption, FS_Interval DEF Items
  <2>2. Cardinality(Succeeded) \in Nat
    BY <1>1, <2>1, FS_Subset, FS_CardinalityType
  <2> QED BY <2>2, PoolAssumption DEF Merged
<1> HIDE DEF noStructure, noNarrative
<1> QED BY <1>6, <1>7, <1>8, <1>9 DEF noStructure, noNarrative

\* Once the call has resolved every batch is settled: no step fills a slot, and none
\* changes what a batch has of structure or narrative.
LEMMA StepKeepsReport ==
  ASSUME SessionInv, ReportIsFinal, [FanOutNext]_fanOutVars
  PROVE  ReportIsFinal'
<1>1. ASSUME UNCHANGED <<outcome, results, structure, narrative, report>>
      PROVE  ReportIsFinal'
  BY <1>1 DEF ReportIsFinal, Merged, Succeeded, SizeOver, Analysed
<1>2. ASSUME outcome # "resolved", UNCHANGED report
      PROVE  ReportIsFinal'
  BY <1>2 DEF ReportIsFinal
<1>3. outcome = "resolved" => \A i \in Items : stage[i] = "settled"
  BY ResolvedIsComplete DEF SessionInv, NoHoleWhenResolved
<1>4. CASE FanOut \/ FanOutResolves
  BY <1>2, <1>4 DEF FanOut, Call, Enter, FanOutResolves, Resolve, ownVars
<1>5. CASE Begin \/ Prepared \/ UNCHANGED fanOutVars
  BY <1>1, <1>5 DEF Begin, Prepared, fanOutVars, ownVars, vars
<1>6. CASE WriteAnalyses
  <2>1. outcome' = "resolved" /\ report' = Merged /\ Merged' = Merged
    BY <1>6 DEF WriteAnalyses, vars, Merged, Succeeded, SizeOver, Analysed
  <2> QED BY <2>1 DEF ReportIsFinal
<1>7. ASSUME NEW c \in Callers, CallerStep(c)
      PROVE  ReportIsFinal'
  <2>1. UNCHANGED report
    BY <1>7 DEF CallerStep, Install, Build, Extract, Handshake, Reply, RpcFails, SpawnError,
                Close, Fails, Return, Enter, Script
  <2>2. CASE c \in Items
    <3>1. stage[c] # "settled"
      BY <1>7 DEF CallerStep, Install, Build, Extract, Handshake, Reply, RpcFails, SpawnError,
                  Close, At, Rpcs
    <3> QED BY <1>2, <1>3, <2>1, <2>2, <3>1
  <2>3. CASE c \notin Items
    <3>1. UNCHANGED <<outcome, results, structure, narrative>>
      BY <1>7, <2>3 DEF CallerStep, Install, Build, Fails, Script, vars
    <3> QED BY <1>1, <2>1, <3>1
  <2> QED BY <2>2, <2>3
<1> QED
  BY <1>4, <1>5, <1>6, <1>7 DEF FanOutNext, MainStep

\* If a file is in one batch only, the counts of the report add up: whatever fails,
\* every file was analysed, or is in a drop report or in a batch that failed.
THEOREM FanOutCountsAddUp ==
  ASSUME BatchesAreDisjoint
  PROVE  FanOutSpec => []CountsAddUp
<1>1. ReportIsFinal => CountsAddUp
  BY MergedAddsUp DEF ReportIsFinal, CountsAddUp
<1>2. FanOutInit => ReportIsFinal
  BY DEF FanOutInit, ReportIsFinal
<1> QED
  BY <1>1, <1>2, InitSessionInv, StepPreservesSessionInv, StepKeepsReport, PTL
     DEF FanOutSpec
=============================================================================
