------------------------------- MODULE Batch -------------------------------
(***************************************************************************)
(* What runWithConcurrency promises its caller                             *)
(* (packages/understand/src/llm/concurrency.ts, the comment on the         *)
(* function): one settled result per input, a failed item never makes the  *)
(* call fail, and the promise resolves only when every slot is filled.     *)
(* Nothing is said of workers, of a cursor or of an order.                 *)
(***************************************************************************)
EXTENDS Integers

CONSTANTS
  NumItems,  (* items.length                                   *)
  Limit      (* the `limit` argument; the call rejects below 1 *)

VARIABLES
  results,   (* results[i]: "none", or the SettledResult of input i *)
  outcome    (* of the promise the caller holds                      *)

batchVars == <<results, outcome>>

Items    == 1..NumItems
Settled  == {"ok", "failed"}
Outcomes == {"uncalled", "pending", "resolved", "rejected"}

BatchInit ==
  /\ results = [i \in Items |-> "none"]
  /\ outcome = "uncalled"

\* The call: rejected at once for a limit below 1, pending otherwise.
BatchCall ==
  /\ outcome = "uncalled"
  /\ outcome' = IF Limit < 1 THEN "rejected" ELSE "pending"
  /\ UNCHANGED results

\* Some input that has no result gets one; nothing else changes.
BatchSettle(i, s) ==
  /\ outcome = "pending"
  /\ results[i] = "none"
  /\ results' = [results EXCEPT ![i] = s]
  /\ UNCHANGED outcome

BatchResolve ==
  /\ outcome = "pending"
  /\ \A i \in Items : results[i] # "none"
  /\ outcome' = "resolved"
  /\ UNCHANGED results

BatchNext ==
  \/ BatchCall
  \/ \E i \in Items, s \in Settled : BatchSettle(i, s)
  \/ BatchResolve

BatchSpec == BatchInit /\ [][BatchNext]_batchVars
=============================================================================
