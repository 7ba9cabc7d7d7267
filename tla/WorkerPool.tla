----------------------------- MODULE WorkerPool -----------------------------
(***************************************************************************)
(* runWithConcurrency, packages/understand/src/llm/concurrency.ts.         *)
(*                                                                         *)
(* Worker coroutines share the cursor `next`.  JavaScript runs one         *)
(* continuation at a time, so a step is what runs between two awaits: the  *)
(* synchronous call that starts every worker, the continuation of one      *)
(* `await fn(items[i], i)`, and the resolution of Promise.all.             *)
(* Items and slots are numbered from 1, the code's from 0.                 *)
(***************************************************************************)
EXTENDS Integers, Sequences, FiniteSets

CONSTANTS
  NumItems,  (* items.length                                   *)
  Limit      (* the `limit` argument; the call rejects below 1 *)

ASSUME PoolAssumption ==
  /\ NumItems \in Nat
  /\ Limit \in Int

VARIABLES
  next,      (* the shared cursor; a worker that finds it past the end   *)
             (* has moved it all the same                                *)
  running,   (* running[w]: the item worker w awaits, 0 once it returned *)
  results,   (* the input-indexed slots                                  *)
  outcome,   (* of the promise the caller holds                          *)
  starts     (* history: the items in the order fn was invoked on them   *)

vars == <<next, running, results, outcome, starts>>

Items    == 1..NumItems
Settled  == {"ok", "failed"}
Outcomes == {"uncalled", "pending", "resolved", "rejected"}

\* Math.min(limit, items.length); a rejected call starts no worker.
WorkerCount ==
  IF Limit < 1 THEN 0 ELSE IF Limit < NumItems THEN Limit ELSE NumItems

Workers == 1..WorkerCount

-----------------------------------------------------------------------------
Init ==
  /\ next = 0
  /\ running = [w \in Workers |-> 0]
  /\ results = [i \in Items |-> "none"]
  /\ outcome = "uncalled"
  /\ starts = <<>>

\* Array.from runs every worker up to its first await before the caller
\* gets the promise: worker w takes item w.
Call ==
  /\ outcome = "uncalled"
  /\ outcome' = IF Limit < 1 THEN "rejected" ELSE "pending"
  /\ next' = WorkerCount
  /\ running' = [w \in Workers |-> w]
  /\ starts' = [w \in Workers |-> w]
  /\ UNCHANGED results

\* next++ and the test behind it: worker w invokes fn on the next item, or
\* returns when there is none.
Pull(w) ==
  /\ next' = next + 1
  /\ \/ /\ next < NumItems
        /\ running' = [running EXCEPT ![w] = next + 1]
        /\ starts' = Append(starts, next + 1)
     \/ /\ next >= NumItems
        /\ running' = [running EXCEPT ![w] = 0]
        /\ UNCHANGED starts

\* Operators whose names start with Bug are faults the properties are tried
\* against; the specification never uses them.  Here the await has no catch: a
\* failing item ends its worker.
BugSettleEndsWorker(w, s) ==
  /\ running[w] # 0
  /\ results' = [results EXCEPT ![running[w]] = s]
  /\ \/ s = "ok" /\ Pull(w)
     \/ /\ s = "failed"
        /\ running' = [running EXCEPT ![w] = 0]
        /\ UNCHANGED <<next, starts>>
  /\ UNCHANGED outcome

\* No catch around the await: a failing item rejects the whole call.
BugSettleRejectsCall(w, s) ==
  /\ running[w] # 0
  /\ results' = [results EXCEPT ![running[w]] = s]
  /\ Pull(w)
  /\ outcome' = IF s = "failed" THEN "rejected" ELSE outcome

\* fn settles for the item worker w awaits: both arms of the try fill that
\* item's slot, and the worker goes round its loop.
Settle(w, s) ==
  /\ running[w] # 0
  /\ results' = [results EXCEPT ![running[w]] = s]
  /\ Pull(w)
  /\ UNCHANGED outcome

\* Completion read off the cursor, which overshoots the end.
BugResolveOnCursor ==
  /\ outcome = "pending"
  /\ next = NumItems
  /\ \A w \in Workers : running[w] = 0
  /\ outcome' = "resolved"
  /\ UNCHANGED <<next, running, results, starts>>

\* Promise.all resolves once every worker has returned.
Resolve ==
  /\ outcome = "pending"
  /\ \A w \in Workers : running[w] = 0
  /\ outcome' = "resolved"
  /\ UNCHANGED <<next, running, results, starts>>

Next ==
  \/ Call
  \/ \E w \in Workers, s \in Settled : Settle(w, s)
  \/ Resolve

\* The promise machinery runs every continuation it has queued; that fn
\* settles is what its caller has to ensure (a call of an AcpClient does: it
\* is rejected by its timer at the latest).
Fairness ==
  /\ WF_vars(Resolve)
  /\ \A w \in Workers : WF_vars(\E s \in Settled : Settle(w, s))

Spec == Init /\ [][Next]_vars /\ Fairness

-----------------------------------------------------------------------------
\* Invocations of fn that have not settled.
InFlight == {i \in Items : i <= next /\ results[i] = "none"}

TypeOK ==
  /\ next \in Nat
  /\ running \in [Workers -> 0..NumItems]
  /\ results \in [Items -> Settled \cup {"none"}]
  /\ outcome \in Outcomes
  /\ starts \in Seq(Items)

\* "At most `limit` invocations in flight at any time" (concurrency.ts:15),
\* counted over the items whose fn was invoked and has not settled.
AtMostLimitInFlight ==
  outcome \in {"pending", "resolved"} => Cardinality(InFlight) <= Limit

\* "Order of starts is preserved" (concurrency.ts:20): fn is invoked on the
\* items in input order, on each at most once, and never beyond the cursor.
StartsInInputOrder ==
  /\ Len(starts) = IF next < NumItems THEN next ELSE NumItems
  /\ \A k \in 1..Len(starts) : starts[k] = k

\* The resolved array has no hole: when the caller reads the results, every
\* item was started and every slot was filled by the item of that index.
NoHoleWhenResolved ==
  outcome = "resolved" =>
    /\ Len(starts) = NumItems
    /\ \A i \in Items : results[i] # "none"

\* A worker that settles an item takes the next one at once: while items wait
\* for their turn the pool is never below its width, so a failing or a slow
\* item holds back one worker and no more.
WorkConserving ==
  outcome = "pending" /\ next < NumItems => Cardinality(InFlight) = WorkerCount

\* The inductive invariant behind the four invariants above and the two action
\* properties below: the workers that have not returned partition the items in
\* flight, and a worker returns only when the cursor is past the end.
PoolInv ==
  /\ TypeOK
  /\ StartsInInputOrder
  /\ outcome = "uncalled" => next = 0
  /\ outcome = "pending" => Limit >= 1 /\ next >= WorkerCount
  /\ outcome = "resolved" =>
       Limit >= 1 /\ next >= WorkerCount /\ \A w \in Workers : running[w] = 0
  /\ \A w \in Workers :
       /\ running[w] # 0 =>
            /\ outcome = "pending"
            /\ running[w] <= next
            /\ results[running[w]] = "none"
            /\ \A v \in Workers : running[v] = running[w] => v = w
       /\ running[w] = 0 => outcome = "uncalled" \/ next >= NumItems
  /\ \A i \in InFlight : \E w \in Workers : running[w] = i
  /\ \A i \in Items : i > next => results[i] = "none"

\* Results are written once: a slot that has a result keeps it, whatever the
\* other workers do afterwards.
ResultsAreFinal ==
  [][\A i \in Items : results[i] # "none" => results'[i] = results[i]]_vars

\* The pool implements the promise its comment makes (Batch).
B == INSTANCE Batch WITH results <- results, outcome <- outcome
ImplementsBatch == B!BatchSpec
=============================================================================
