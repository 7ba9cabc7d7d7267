---------------------------- MODULE FileAnalyses ----------------------------
(***************************************************************************)
(* The fan-out of the file analyzer: scanWithFileAnalyses                  *)
(* (packages/understand/src/orchestrator.ts), which runs                   *)
(* runFileAnalyzerOnBatch (llm/file-analyzer.ts) on every batch over the   *)
(* pool of WorkerPool, and ensureUpstreamBuilt (scripts.ts), which every   *)
(* script wrapper awaits before it starts its script.                      *)
(*                                                                         *)
(* A step is what the process does between two awaits; the invocations     *)
(* for different batches interleave at their awaits.  Caller 0 is the      *)
(* process before the fan-out, with the wrappers it awaits one by one.     *)
(***************************************************************************)
EXTENDS WorkerPool

CONSTANTS
  FilesOf,          (* FilesOf[i]: the paths of batch i                      *)
  StrayKeys,        (* other keys a reply may hold                           *)
  CompleteInstall,  (* whether an install that succeeds installs everything  *)
  SpawnMayFail      (* whether the start of an agent process may fail        *)

ASSUME FanOutAssumption ==
  /\ \A i \in 1..NumItems : IsFiniteSet(FilesOf[i])
  /\ IsFiniteSet(StrayKeys)
  /\ CompleteInstall \in BOOLEAN
  /\ SpawnMayFail \in BOOLEAN

VARIABLES
  present,    (* which of the files that the build check looks for exist     *)
  stage,      (* stage[c]: what caller c awaits                              *)
  dirs,       (* dirs[i]: the temporary directories batch i made and keeps   *)
  child,      (* child[i]: the agent process of batch i                      *)
  structure,  (* structure[i]: the paths extract-structure has results for   *)
  narrative,  (* narrative[i]: the paths the reply describes                 *)
  report,     (* what the call returned, and wrote to file-analyses.json     *)
  process     (* the process itself                                          *)

ownVars == <<present, stage, dirs, child, structure, narrative, report, process>>
fanOutVars == <<vars, ownVars>>

Callers   == 0..NumItems
Sentinels == {"core", "graphology", "louvain"}
Rpcs      == {"initialize", "newSession", "prompt"}

\* "closing" and "unwinding" are the finally block, without and with an error
\* on its way.
Stages == {"idle", "installing", "building", "extracting", "closing", "unwinding",
           "settled", "failed"} \cup Rpcs

NoReport == [analysed |-> {}, total |-> -1, succeeded |-> 0, failed |-> 0]

-----------------------------------------------------------------------------
FanOutInit ==
  /\ Init
  /\ present \in SUBSET Sentinels
  /\ stage = [c \in Callers |-> "idle"]
  /\ dirs = [i \in Items |-> {}]
  /\ child = [i \in Items |-> "none"]
  /\ structure = [i \in Items |-> {}]
  /\ narrative = [i \in Items |-> {}]
  /\ report = NoReport
  /\ process = "up"

\* The check of ensureUpstreamBuilt, in the continuation that calls a wrapper:
\* with all three files there is nothing to await before the script.
FirstStage == IF Sentinels \subseteq present THEN "extracting" ELSE "installing"

\* The invocations the pool starts in this step: the items past the cursor.
Started == {i \in Items : next < i /\ i <= next'}

Enter(i) ==
  /\ stage' = [c \in Callers |->
       IF c \in Started THEN FirstStage ELSE IF c = i THEN "settled" ELSE stage[c]]
  /\ UNCHANGED <<present, structure, narrative, report, process>>

\* Directories as they are after a step in which batch i keeps none: a script
\* that starts has its own, with its input and its output.
DirsWithout(i) ==
  dirs' = [j \in Items |->
    IF j \in Started /\ FirstStage = "extracting" THEN {"script"}
    ELSE IF j = i THEN {} ELSE dirs[j]]

\* runFileAnalyzerOnBatch settles for batch i: the worker that awaits it goes
\* on with the next batch, in the same step.
Return(i, s) ==
  /\ \E w \in Workers : running[w] = i /\ Settle(w, s)
  /\ Enter(i)
  /\ DirsWithout(i)

At(c, s)  == process = "up" /\ stage[c] = s
GoTo(c, s) == stage' = [stage EXCEPT ![c] = s]

\* Caller c's promise rejects before any session: the pool records a batch as
\* failed; the process before the fan-out gives up.
Fails(c) ==
  \/ /\ c \in Items
     /\ Return(c, "failed")
     /\ UNCHANGED child
  \/ /\ c = 0
     /\ GoTo(0, "failed")
     /\ UNCHANGED <<vars, present, dirs, child, structure, narrative, report, process>>

\* Caller c has what it waited for: its script starts.
Script(c) ==
  /\ GoTo(c, "extracting")
  /\ dirs' = IF c \in Items THEN [dirs EXCEPT ![c] = {"script"}] ELSE dirs
  /\ UNCHANGED <<vars, child, structure, narrative, report, process>>

-----------------------------------------------------------------------------
\* Operators whose names start with Bug are faults the properties are tried
\* against; the specification never uses them.  Here runScanProject starts its
\* script without the check.
BugBeginScansUnbuilt ==
  /\ At(0, "idle")
  /\ GoTo(0, "extracting")
  /\ UNCHANGED <<vars, present, dirs, child, structure, narrative, report, process>>

\* The process starts; its first wrapper, runScanProject, makes the check.
Begin ==
  /\ At(0, "idle")
  /\ GoTo(0, FirstStage)
  /\ UNCHANGED <<vars, present, dirs, child, structure, narrative, report, process>>

\* pnpm install ends.  What it installs is the upstream package's business:
\* without CompleteInstall it may succeed and leave the check unsatisfied.
Install(c) ==
  /\ At(c, "installing")
  /\ \/ Fails(c)
     \/ /\ \E P \in SUBSET {"graphology", "louvain"} :
             /\ CompleteInstall => P = {"graphology", "louvain"}
             /\ present' = present \cup P
        /\ GoTo(c, "building")
        /\ UNCHANGED <<vars, dirs, child, structure, narrative, report, process>>

\* pnpm build ends; the check behind it looks for the core package only, and
\* throws if that is missing.
Build(c) ==
  /\ At(c, "building")
  /\ \/ Fails(c)
     \/ Script(c) /\ present' = present \cup {"core"}

\* The deterministic scan and the narrative, which Pipeline has step by step.
Prepared ==
  /\ At(0, "extracting")
  /\ \E s \in {"settled", "failed"} : GoTo(0, s)
  /\ UNCHANGED <<vars, present, dirs, child, structure, narrative, report, process>>

\* runWithConcurrency is called on the batches: the first workers start.
FanOut ==
  /\ At(0, "settled")
  /\ Call
  /\ Enter(0)
  /\ DirsWithout(0)
  /\ UNCHANGED child

\* The script is done, whatever became of it, and its directory is removed;
\* a batch that has its structure makes the session's directory, spawns an
\* agent and sends initialize.
Extract(i) ==
  /\ At(i, "extracting")
  /\ \/ Fails(i)
     \/ /\ structure' \in {[structure EXCEPT ![i] = S] : S \in SUBSET FilesOf[i]}
        /\ GoTo(i, "initialize")
        /\ dirs' = [dirs EXCEPT ![i] = {"session"}]
        /\ child' = [child EXCEPT ![i] = "up"]
        /\ UNCHANGED <<vars, present, narrative, report, process>>

Handshake(i) ==
  /\ \/ At(i, "initialize") /\ GoTo(i, "newSession")
     \/ At(i, "newSession") /\ GoTo(i, "prompt")
  /\ UNCHANGED <<vars, present, dirs, child, structure, narrative, report, process>>

\* A reply that ends its turn and parses: the entries with a summary and a
\* complexity are kept, under whatever keys the model wrote.
Reply(i) ==
  /\ At(i, "prompt")
  /\ narrative' \in {[narrative EXCEPT ![i] = K] : K \in SUBSET (FilesOf[i] \cup StrayKeys)}
  /\ GoTo(i, "closing")
  /\ UNCHANGED <<vars, present, dirs, child, structure, report, process>>

\* The finally block does not cover the calls.
BugRpcFailsReturns(i) ==
  /\ process = "up" /\ stage[i] \in Rpcs
  /\ Return(i, "failed")
  /\ UNCHANGED child

\* A call that rejects (its timer, an error response, the end of the child),
\* and a reply that is refused: not end_turn, empty, or without an object.
RpcFails(i) ==
  /\ process = "up" /\ stage[i] \in Rpcs
  /\ GoTo(i, "unwinding")
  /\ UNCHANGED <<vars, present, dirs, child, structure, narrative, report, process>>

\* A process that cannot be started is reported by an 'error' event that no
\* one listens to: an uncaught exception.
SpawnError(i) ==
  /\ SpawnMayFail
  /\ At(i, "initialize")
  /\ process' = "crashed"
  /\ UNCHANGED <<vars, present, stage, dirs, child, structure, narrative, report>>

\* The finally block: shutdown() has returned or has been given up, and the
\* session's directory is removed; then the batch is merged, or the error goes
\* on its way.
Close(i) ==
  /\ \/ At(i, "closing") /\ Return(i, "ok")
     \/ At(i, "unwinding") /\ Return(i, "failed")
  /\ child' = [child EXCEPT ![i] = "closed"]

FanOutResolves == process = "up" /\ Resolve /\ UNCHANGED ownVars

-----------------------------------------------------------------------------
\* A file without either side is counted twice.
BugMissingNarrative(i) == FilesOf[i] \ narrative[i]

\* mergeBatchAnalyses: what is analysed needs both sides; a file without
\* structure counts there even if it has no narrative either.
Analysed(i)         == FilesOf[i] \cap structure[i] \cap narrative[i]
MissingStructure(i) == FilesOf[i] \ structure[i]
MissingNarrative(i) == (FilesOf[i] \cap structure[i]) \ narrative[i]
UnmatchedKeys(i)    == narrative[i] \ FilesOf[i]

Succeeded == {i \in Items : results[i] = "ok"}

\* What the sets of the batches in S have between them, counted batch by batch.
SizeOver(sets, S) == Cardinality(UNION {{i} \X sets[i] : i \in S})

Merged ==
  [analysed |-> UNION {Analysed(i) : i \in Succeeded},
   total |-> SizeOver(FilesOf, Items),
   succeeded |-> Cardinality(Succeeded),
   failed |-> NumItems - Cardinality(Succeeded)]

\* The merge over the batches that succeeded, the counts, and the file.
WriteAnalyses ==
  /\ process = "up"
  /\ outcome = "resolved"
  /\ report = NoReport
  /\ report' = Merged
  /\ UNCHANGED <<vars, present, stage, dirs, child, structure, narrative, process>>

-----------------------------------------------------------------------------
\* What caller c does next, whatever it is told.
CallerStep(c) ==
  \/ Install(c)
  \/ Build(c)
  \/ /\ c \in Items
     /\ Extract(c) \/ Handshake(c) \/ Reply(c) \/ RpcFails(c) \/ SpawnError(c) \/ Close(c)

\* What the function that fans out does itself.
MainStep == Begin \/ Prepared \/ FanOut \/ FanOutResolves \/ WriteAnalyses

FanOutNext == MainStep \/ \E c \in Callers : CallerStep(c)

\* Continuations that are queued are run, calls on an agent are settled by
\* their timers at the latest, and shutdown() gives up by itself.  That pnpm
\* and the scripts end is assumed: execFile is given no timeout.
FanOutFairness ==
  /\ WF_fanOutVars(MainStep)
  /\ \A c \in Callers : WF_fanOutVars(CallerStep(c))

FanOutSpec == FanOutInit /\ [][FanOutNext]_fanOutVars /\ FanOutFairness

-----------------------------------------------------------------------------
FanOutTypeOK ==
  /\ TypeOK
  /\ present \subseteq Sentinels
  /\ stage \in [Callers -> Stages]
  /\ dirs \in [Items -> SUBSET {"script", "session"}]
  /\ child \in [Items -> {"none", "up", "closed"}]
  /\ structure \in [Items -> SUBSET UNION {FilesOf[i] : i \in Items}]
  /\ narrative \in [Items -> SUBSET (StrayKeys \cup UNION {FilesOf[i] : i \in Items})]
  /\ process \in {"up", "crashed"}

\* A batch that has settled, however it ended, has no directory and no agent
\* left, and there are never more agents than the pool is wide: what a batch
\* holds it holds while the pool counts it as in flight.
SessionsFollowThePool ==
  /\ {i \in Items : dirs[i] # {} \/ child[i] = "up"} \subseteq InFlight
  /\ Cardinality({i \in Items : child[i] = "up"}) <= WorkerCount

Installing == {c \in Callers : stage[c] \in {"installing", "building"}}

\* The check before the build is made by every wrapper, also by all workers at
\* once: if an install that succeeds installs everything, the process never
\* has two installs under way, and none while a script or a session runs.
BuildIsSettledFirst ==
  CompleteInstall =>
    /\ Cardinality(Installing) <= 1
    /\ \A c \in Callers : stage[c] \in {"extracting", "settled"} \cup Rpcs =>
         /\ Installing = {}
         /\ outcome # "uncalled" => Sentinels \subseteq present

\* The counts a caller prints add up: every file of every batch was analysed,
\* or has its reason in its batch's drop report, or is in a batch that failed.
CountsAddUp ==
  report # NoReport =>
    /\ report.total = Cardinality(report.analysed)
         + SizeOver([i \in Items |-> MissingStructure(i)], Succeeded)
         + SizeOver([i \in Items |-> MissingNarrative(i)], Succeeded)
         + SizeOver(FilesOf, Items \ Succeeded)
    /\ report.succeeded + report.failed = NumItems

\* The inductive invariant behind CountsAddUp: nothing it counts changes any more
\* once the report was made.
ReportIsFinal == report # NoReport => outcome = "resolved" /\ report = Merged

\* What the script that makes the batches does: a file is in one of them.
BatchesAreDisjoint ==
  \A i, j \in Items : \A f : f \in FilesOf[i] /\ f \in FilesOf[j] => i = j

\* A process that fans out comes to an end of it, however many batches fail.
FanOutEnds == stage[0] = "settled" ~> (report # NoReport \/ process = "crashed")
=============================================================================
