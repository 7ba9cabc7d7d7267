------------------------------ MODULE Commands ------------------------------
(***************************************************************************)
(* The command lines of packages/understand/src/bin around the pipeline:   *)
(* each reads its arguments, runs scanWithGraph or one of the functions    *)
(* under it, prints what came back, holds it against a gate and exits.     *)
(* Commands of all kinds share the artifacts of one project directory.     *)
(*                                                                         *)
(* A command is the record of what tells it from the others.  Of the       *)
(* counts a gate looks at, the ones that depend on a model's reply are one *)
(* choice; Synthesis shows that the rest of its checks cannot fail.        *)
(***************************************************************************)
EXTENDS Pipeline

CONSTANTS
  Bins,               (* the commands that are run                          *)
  ConcurrencyArgs,    (* the second arguments they are given                *)
  DefaultConcurrency  (* DEFAULT_CONCURRENCY                                *)

VARIABLES
  command,  (* command[r]: what process r runs                              *)
  limit,    (* limit[r]: the width its fan-out is to have; 0 when it is over *)
  shown     (* history: the process that exited last, with its command and  *)
            (* exit status, until another is started                        *)

cvars == <<vars, command, limit, shown>>

-----------------------------------------------------------------------------
(* stops  phase of the pipeline in which the function it calls has returned *)
(* fanOut whether it takes a width for the fan-out                          *)
(* strict whether it refuses a width that is no positive integer            *)
(* needs  what its gate asks for                                            *)

DeterministicScan    == [stops |-> "narrating", fanOut |-> FALSE, strict |-> FALSE, needs |-> {}]
ScanWithNarrative    == [stops |-> "analyzing", fanOut |-> FALSE, strict |-> FALSE, needs |-> {}]
ScanWithFileAnalyses == [stops |-> "layering", fanOut |-> TRUE, strict |-> FALSE,
                         needs |-> {"a batch"}]
ScanWithArchitecture == [stops |-> "domaining", fanOut |-> TRUE, strict |-> FALSE,
                         needs |-> {"counts"}]
ScanWithDomains      == [stops |-> "assembling", fanOut |-> TRUE, strict |-> FALSE,
                         needs |-> {"counts"}]
ScanWithAssembler    == [stops |-> "touring", fanOut |-> TRUE, strict |-> FALSE,
                         needs |-> {"counts", "assemble pair", "no graph pair"}]
ScanWithGraph        == [stops |-> "ended", fanOut |-> TRUE, strict |-> FALSE,
                         needs |-> {"counts", "assemble pair", "graph pair"}]

\* Without the look at filesAnalyzed: every batch may have come back empty.
BugUnderstandCountsBatches ==
  [stops |-> "ended", fanOut |-> TRUE, strict |-> TRUE,
   needs |-> {"a batch", "counts", "assemble pair", "graph pair"}]

Understand           == [stops |-> "ended", fanOut |-> TRUE, strict |-> TRUE,
                         needs |-> {"a file", "counts", "assemble pair", "graph pair"}]

CommandLines ==
  {DeterministicScan, ScanWithNarrative, ScanWithFileAnalyses, ScanWithArchitecture,
   ScanWithDomains, ScanWithAssembler, ScanWithGraph, Understand}

ASSUME CommandsAssumption ==
  /\ Bins \subseteq CommandLines
  /\ DefaultConcurrency \in Nat \ {0}
  /\ ConcurrencyArgs \subseteq
       {"absent", "empty", "word", "zero", "negative", "suffixed", "number"}

NoCommand == [stops |-> "ended", fanOut |-> FALSE, strict |-> FALSE, needs |-> {}]
NoExit    == [run |-> 0, command |-> NoCommand, code |-> 0]

\* What Number.parseInt makes of an argument; NaN, like 0, is falsy.
ParseInt == [empty |-> 0, word |-> 0, zero |-> 0, negative |-> -3, suffixed |-> 2, number |-> 2]

\* Without the Math.max.
BugConcurrencyUnbounded(arg) ==
  IF arg = "absent" \/ ParseInt[arg] = 0 THEN DefaultConcurrency ELSE ParseInt[arg]

\* Math.max(1, Number.parseInt(arg, 10) || DEFAULT_CONCURRENCY)
Concurrency(arg) ==
  IF arg = "absent" \/ ParseInt[arg] = 0 THEN DefaultConcurrency
  ELSE IF ParseInt[arg] < 1 THEN 1 ELSE ParseInt[arg]

\* The width for the fan-out: /^[1-9]\d*$/ lets nothing through that Concurrency
\* would change.
Refused(c, arg) == c.strict /\ arg \notin {"absent", "number"}
Width(c, arg)   == IF c.fanOut THEN Concurrency(arg) ELSE 0

-----------------------------------------------------------------------------
CommandInit ==
  /\ Init
  /\ command = [r \in Runs |-> NoCommand]
  /\ limit = [r \in Runs |-> 0]
  /\ shown = NoExit

\* The process is gone; `how` is what its exit status says.
Exit(r, c, how, status_) ==
  /\ Ends(r, how)
  /\ command' = [command EXCEPT ![r] = NoCommand]
  /\ limit' = [limit EXCEPT ![r] = 0]
  /\ shown' = [run |-> r, command |-> c, code |-> status_]

\* No project is given, or a width the command refuses: it exits before it has
\* looked at anything.
UsageError(r, c) ==
  /\ MayStart(r)
  /\ \E arg \in ConcurrencyArgs : Exit(r, c, "failed", IF Refused(c, arg) THEN 2 ELSE 1)
  /\ UNCHANGED disk

Invoke(r, c, arg) ==
  /\ ~Refused(c, arg)
  /\ Start(r)
  /\ command' = [command EXCEPT ![r] = c]
  /\ limit' = [limit EXCEPT ![r] = Width(c, arg)]
  /\ shown' = NoExit

\* One check of a gate; `counts` are the layers, domains, edges and steps of the
\* tour the model came up with, `batch` whether one was analysed at all.
Meets(r, need, counts, batch) ==
  CASE need = "a file"        -> mem[r].analyses # {} \/ mem[r].batches = {}
    [] need = "a batch"       -> mem[r].analyses # {} \/ (mem[r].batches # {} /\ batch)
    [] need = "counts"        -> counts
    [] need = "assemble pair" -> \A v \in Reviewers : mem[r].graph.assemble[v] # NoVerdict
    [] need = "graph pair"    -> \A v \in Reviewers : verdicts[r][v] # NoVerdict
    [] need = "no graph pair" -> mem[r].graph.review = NoVerdicts

\* process.exit(ok ? 0 : 1)
Gate(r, counts, batch) ==
  IF \A need \in command[r].needs : Meets(r, need, counts, batch) THEN 0 ELSE 1

\* The function the command calls has returned: before the pipeline's end, or
\* with the rewritten graph.
Returns(r) ==
  /\ \/ In(r, command[r].stops) /\ UNCHANGED disk
     \/ RewriteGraph(r)
  /\ \E counts, batch \in BOOLEAN : Exit(r, command[r], "done", Gate(r, counts, batch))

\* main().catch
Fails(r) ==
  /\ ~In(r, command[r].stops)
  /\ Throws(r)
  /\ Exit(r, command[r], "failed", 1)

\* The fan-out is behind it.
FansOut(r) ==
  /\ ~In(r, command[r].stops)
  /\ AnalyzeFiles(r)
  /\ limit' = [limit EXCEPT ![r] = 0]
  /\ UNCHANGED <<command, shown>>

\* The other steps of the function the command calls.
GoesOn(r) ==
  /\ ~In(r, command[r].stops)
  /\ \/ ScanProject(r) \/ WriteScanResult(r) \/ ComputeBatches(r) \/ ReadBatches(r)
     \/ ReadScanResult(r) \/ MergeNarrative(r)
     \/ WriteArchitecture(r) \/ WriteDomains(r) \/ Assemble(r)
     \/ \E v \in Reviewers, reply \in Replies : ReviewerEnds(r, v, reply)
     \/ WriteAssembledGraph(r) \/ StampTour(r)
  /\ UNCHANGED <<command, limit, shown>>

CommandStep(r) == GoesOn(r) \/ FansOut(r) \/ Returns(r) \/ Fails(r)

Killed(r) ==
  /\ Crash(r)
  /\ command' = [command EXCEPT ![r] = NoCommand]
  /\ limit' = [limit EXCEPT ![r] = 0]
  /\ UNCHANGED shown

CommandNext ==
  \/ Edit /\ UNCHANGED <<command, limit, shown>>
  \/ \E r \in Runs, c \in Bins :
       UsageError(r, c) \/ \E arg \in ConcurrencyArgs : Invoke(r, c, arg)
  \/ \E r \in Runs : CommandStep(r) \/ Killed(r)

\* As in Pipeline: nothing a command awaits stays away for ever.
CommandSpec ==
  CommandInit /\ [][CommandNext]_cvars /\ \A r \in Runs : WF_cvars(CommandStep(r))

-----------------------------------------------------------------------------
(* Properties                                                              *)

UntilFanOut == {"scanning", "importing", "batching", "batched", "narrating", "merging", "analyzing"}

\* A command belongs to a running process, and the width of a fan-out to come is one
\* that runWithConcurrency works with, whatever the argument was: below 1 it rejects
\* the call (concurrency.ts:29, Call of WorkerPool), after all the scanning was done,
\* and NaN, which is not below 1, would start no worker and resolve with holes.
CommandTypeOK ==
  /\ command \in [Runs -> Bins \cup {NoCommand}]
  /\ shown \in [run : Runs \cup {0}, command : Bins \cup {NoCommand}, code : 0..2]
  /\ limit \in [Runs -> Nat]
  /\ \A r \in Runs :
       /\ command[r] # NoCommand => status[r] = "running"
       /\ command[r].fanOut /\ phase[r] \in UntilFanOut => limit[r] >= 1

\* The artifacts command c writes when nothing fails.
Makes(c) == IF c.stops = "ended" THEN Artifacts ELSE Left(c.stops)

\* A command whose function returned, and that was the last to be started, leaves
\* the work of one scan in everything it writes, and its own alone, whatever other
\* commands had done to the directory before it and whatever its gate said.  It
\* touches nothing that lies beyond it: that is left from others, and may be of
\* another scan.
CommandIsCoherent ==
  shown.run # 0 /\ status[shown.run] = "done" /\ Latest(shown.run) =>
    LET r == shown.run  made == Makes(shown.command)
    IN /\ \A a \in made : IsOf(a, r)
       /\ \A a \in made \ {"analyses"} : disk[a].files = disk["scan"].files
       /\ "graph" \in made =>
            /\ disk["graph"].analysed = disk["analyses"].files
            /\ disk["graph"].tour <=> shown.command.stops = "ended"
       /\ \A a \in Artifacts \ made : disk[a].by # r

\* Exit status 0 means that there is something in the graph: "Total file-analysis
\* loss is a hard fail regardless of batch transport outcomes"
\* (understand.ts:165-167), and every verdict is there; and a command that failed
\* or was misused never exits with 0.
ExitZeroIsEarned ==
  shown.run # 0 /\ shown.code = 0 =>
    /\ status[shown.run] = "done"
    /\ shown.command = Understand /\ Latest(shown.run) =>
         /\ disk["graph"].analysed # {}
         /\ Judged(disk["graph"].assemble, disk["graph"], FALSE)
         /\ Judged(disk["graph"].review, disk["graph"], TRUE)

-----------------------------------------------------------------------------
(* Inductive invariants                                                    *)

\* A command is in no phase beyond the one it stops in.
StaysWithin ==
  \A r \in Runs : status[r] = "running" /\ command[r].stops # "ended" =>
    ~Before(command[r].stops, phase[r])

\* The process that exited last has ended; it returned where its command stops, and
\* exited with 0 only then.
ShownIsOver ==
  LET r == shown.run  stops == shown.command.stops
  IN r # 0 =>
       /\ status[r] \in Ended
       /\ shown.code = 0 => status[r] = "done"
       /\ status[r] = "done" =>
            phase[r] = IF stops = "ended" THEN "toured" ELSE stops

\* An exit with 0 of Understand leaves a file analysed.
ShownIsEarned ==
  shown.run # 0 /\ shown.code = 0 /\ shown.command = Understand /\ Latest(shown.run) =>
    disk["graph"].analysed # {}

\* The inductive invariant behind CommandIsCoherent and ExitZeroIsEarned.
ExitInv == StaysWithin /\ ShownIsOver /\ ShownIsEarned
=============================================================================
