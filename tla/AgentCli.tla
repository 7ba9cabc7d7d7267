------------------------------ MODULE AgentCli ------------------------------
(***************************************************************************)
(* The mirepoix command: main() (packages/cli/src/main.ts) around one run  *)
(* of AgentLoop, with the parser of its flags (argv.ts), the JSONL logger  *)
(* (packages/core/src/log.ts) and the stdout renderer (render.ts) on the   *)
(* session's bus.                                                          *)
(*                                                                         *)
(* The logger appends synchronously, and each append may fail: appends     *)
(* nothing, or a part of its line, after which the next append goes on in  *)
(* that line.  The bus turns the exception into a bus:error, which the     *)
(* logger appends too; when that fails as well the bus drops it.           *)
(***************************************************************************)
EXTENDS AgentLoop, SequencesExt

CONSTANTS
  Argvs,          (* the command lines: sequences of words and flags         *)
  Directories,    (* the directories there are; one name of one may be "."   *)
  PromptFiles,    (* the names a --system-prompt-file may have               *)
  MaxDiskFaults   (* bound: appends that fail                                *)

ASSUME CliAssumption ==
  /\ NumRuns = 1
  /\ "." \in Directories
  /\ MaxDiskFaults \in Nat

VARIABLES
  stage,     (* where main() is, by the numbered stages of its header        *)
  readable,  (* <<directory, name>> of the files that can be read            *)
  args,      (* what parseArgv made of the command line                      *)
  cwd,       (* process.cwd(); the command is invoked in "."                 *)
  system,    (* the system prompt: <<>> until it is there, the default one, *)
             (* or the file it was read from                                *)
  subs,      (* who is subscribed to the session's bus                       *)
  log,       (* what <sessionId>.jsonl holds                                 *)
  faults,    (* history: appends that failed while the run was logged        *)
  shown,     (* what the renderer has printed                                *)
  exit       (* what main() returned, or "threw"; "none" until then          *)

cliVars == <<stage, readable, args, cwd, system, subs, log, faults, shown, exit>>
allVars == <<loopVars, cliVars>>

Default == <<"DEFAULT_SYSTEM_PROMPT">>

-----------------------------------------------------------------------------
(* argv.ts                                                                 *)

\* The last flag of a kind counts, and whatever is no flag belongs to the prompt.
LastOf(argv, flag) ==
  LET given == SelectSeq(argv, LAMBDA a : a.is = flag)
  IN IF given = <<>> THEN "null" ELSE Last(given).value

ParseArgv(argv) ==
  [promptFile |-> LastOf(argv, "--system-prompt-file"),
   workingDir |-> LastOf(argv, "--cwd"),
   empty      |-> \A i \in DOMAIN argv : argv[i].is # "word"]

-----------------------------------------------------------------------------
(* Subscribers of the bus                                                  *)

Header        == Ev("session:log-init", 0, 0)
Torn          == Ev("part of a line", 0, 0)
BusError(tag) == Ev("bus:error", 0, tag)

NewEvents == SubSeq(events', Len(events) + 1, Len(events'))

\* How the append for an event ends, and then the one for its bus:error.
Writes == {<<"whole">>} \cup ({"nothing", "part"} \X {"whole", "nothing", "part"})

\* Which appends of which new events fail.
Failing(w) == {p \in (DOMAIN w) \X {1, 2} : p[2] \in DOMAIN w[p[1]] /\ w[p[1]][p[2]] # "whole"}

Append1(line, how) ==
  CASE how = "whole"   -> <<line>>
    [] how = "part"    -> <<Torn>>
    [] how = "nothing" -> <<>>

\* Operators whose names start with Bug are faults the properties are tried
\* against; the specification never uses them.  Here bus:error is missing from
\* the list of tags the logger subscribes to.
BugAppended(e, write) == Append1(e, write[1])

Appended(e, write) ==
  Append1(e, write[1]) \o
  IF Len(write) = 1 THEN <<>> ELSE Append1(BusError(e.tag), write[2])

\* The logger's handlers, on each of the new events.
LogNewEvents ==
  IF "log" \notin subs THEN UNCHANGED <<log, faults>>
  ELSE \E w \in [DOMAIN NewEvents -> Writes] :
         /\ faults' = faults + Cardinality(Failing(w))
         /\ faults' <= MaxDiskFaults
         /\ log' = log \o FlattenSeq([i \in DOMAIN w |-> Appended(NewEvents[i], w[i])])

\* The lines the renderer prints for an event.  It looks at the message as the
\* provider sent it: calls found in the text are announced, and the text that
\* they were found in is printed as an answer.
Rendered(e) ==
  CASE e.tag = "tool:start" -> <<Ev("call", e.run, e.data)>>
    [] e.tag \in {"tool:end", "tool:error"} -> <<Ev("result", e.run, e.data[1])>>
    [] e.tag = "provider:response" ->
         (IF e.data[3] THEN <<Ev("rehydrated", e.run, e.data[1])>> ELSE <<>>) \o
         (IF e.data[2] # "null" THEN <<Ev("answer", e.run, e.data[1])>> ELSE <<>>)
    [] OTHER -> <<>>

RenderNewEvents ==
  shown' = IF "render" \notin subs THEN shown
           ELSE shown \o FlattenSeq([i \in DOMAIN NewEvents |-> Rendered(NewEvents[i])])

-----------------------------------------------------------------------------
(* Actions: the stages of main()                                           *)

CliInit ==
  /\ Init
  /\ stage = "argv"
  /\ readable \in SUBSET (Directories \X PromptFiles)
  /\ args = ParseArgv(<<>>)
  /\ cwd = "."
  /\ system = <<>>
  /\ subs = {}
  /\ log = <<>>
  /\ faults = 0
  /\ shown = <<>>
  /\ exit = "none"

\* main() is over.
Ends(how) ==
  /\ stage' = "over"
  /\ exit' = how

\* Stages 1 and 2.
ReadArguments ==
  /\ stage = "argv"
  /\ args' \in {ParseArgv(argv) : argv \in Argvs}
  /\ IF args'.empty THEN Ends("1") ELSE stage' = "prompt" /\ UNCHANGED exit
  /\ UNCHANGED <<loopVars, readable, cwd, system, subs, log, faults, shown>>

\* resolve() after the change of directory.
BugPromptPath(a) ==
  IF a.workingDir = "null" THEN <<cwd, a.promptFile>> ELSE <<a.workingDir, a.promptFile>>

\* resolve() and readFileSync() of the path, in the directory of the moment.
PromptPath(a) == <<cwd, a.promptFile>>

\* Stage 3.
LoadSystemPrompt ==
  /\ stage = "prompt"
  /\ \/ /\ args.promptFile = "null"
        /\ system' = Default
        /\ stage' = "cwd"
        /\ UNCHANGED exit
     \/ /\ args.promptFile # "null"
        /\ PromptPath(args) \in readable
        /\ system' = PromptPath(args)
        /\ stage' = "cwd"
        /\ UNCHANGED exit
     \/ /\ args.promptFile # "null"
        /\ PromptPath(args) \notin readable
        /\ Ends("1")
        /\ UNCHANGED system
  /\ UNCHANGED <<loopVars, readable, args, cwd, subs, log, faults, shown>>

\* Stage 4.
ChangeDirectory ==
  /\ stage = "cwd"
  /\ IF args.workingDir = "null" THEN stage' = "session" /\ UNCHANGED <<cwd, exit>>
     ELSE IF args.workingDir \in Directories
       THEN stage' = "session" /\ cwd' = args.workingDir /\ UNCHANGED exit
       ELSE Ends("1") /\ UNCHANGED cwd
  /\ UNCHANGED <<loopVars, readable, args, system, subs, log, faults, shown>>

\* Stages 5 to 10.  The making of the directory and the header of the log are in
\* no try: what they throw, main() throws.
OpenSession ==
  /\ stage = "session"
  /\ \/ /\ log' = <<Header>>
        /\ subs' = {"log", "render"}
        /\ stage' = "run"
        /\ UNCHANGED exit
     \/ /\ log' \in {<<>>, <<Torn>>}
        /\ Ends("threw")
        /\ UNCHANGED subs
  /\ UNCHANGED <<loopVars, readable, args, cwd, system, faults, shown>>

\* Stage 11: run() begins, and goes on, with the handlers called as it emits.
Run ==
  /\ stage = "run"
  /\ StartRun(1) \/ Resume(1)
  /\ LogNewEvents
  /\ RenderNewEvents
  /\ UNCHANGED <<stage, readable, args, cwd, system, subs, exit>>

\* The catch prints and falls through.
BugReturnAlwaysZero ==
  /\ stage = "run"
  /\ pc[1] \in Settled
  /\ Ends("0")
  /\ subs' = {}
  /\ UNCHANGED <<loopVars, readable, args, cwd, system, log, faults, shown>>

\* The rest of stage 11, or stage 12.
Return ==
  /\ stage = "run"
  /\ pc[1] \in Settled
  /\ Ends(IF pc[1] = "done" THEN "0" ELSE "1")
  /\ subs' = {}
  /\ UNCHANGED <<loopVars, readable, args, cwd, system, log, faults, shown>>

CliNext ==
  \/ ReadArguments \/ LoadSystemPrompt \/ ChangeDirectory \/ OpenSession
  \/ Run \/ Return

CliSpec == CliInit /\ [][CliNext]_allVars

-----------------------------------------------------------------------------
(* Properties                                                              *)

Tags(ms) == {ms[i].tag : i \in DOMAIN ms}

\* "0: Run completed normally (session:end ...)", "1: Usage error ... or run(...)
\* threw" (packages/cli/README.md:60-61).  A command that is refused leaves no
\* session behind, one that failed says so, whatever it had done until then; every
\* tool call that was printed has its result printed behind it; and nobody is left
\* on the bus.
ExitCodeIsHonest ==
  stage = "over" =>
    /\ exit = "0" <=> "session:end" \in Tags(events)
    /\ exit = "1" => (events = <<>> /\ log = <<>>) \/ pc[1] = "failed"
    /\ exit = "threw" => Header \notin ToSet(log)
    /\ \A i \in DOMAIN shown : shown[i].tag = "call" =>
         i < Len(shown) /\ shown[i + 1] = Ev("result", shown[i].run, shown[i].data)
    /\ subs = {}

\* The lines of the file that a reader can parse: a line in which a part of
\* another stands is lost with it.
Legible(lines) ==
  {i \in DOMAIN lines : lines[i] # Torn /\ (i > 1 => lines[i - 1] # Torn)}

Logged(lines)      == {lines[i] : i \in Legible(lines)}
Reported(lines)    == {i \in Legible(lines) : lines[i].tag = "bus:error"}
Missing(es, lines) == LET logged == Logged(lines) IN {i \in DOMAIN es : es[i] \notin logged}

InOrder(es, lines) ==
  LET legible == Legible(lines)
  IN \A i \in legible, a \in DOMAIN es : lines[i] = es[a] =>
       \A j \in legible, b \in DOMAIN es : i < j /\ lines[j] = es[b] => a < b

\* Behind a header that stands, the log never loses more events than appends
\* failed, and keeps the others in their order, each once.  As long as an append
\* leaves all of its line or nothing, each loss is on record as a bus:error, unless
\* that failed too.  (A part of a line swallows the report of it as well.)
LossesAreBounded ==
  log # <<>> /\ log[1] = Header =>
    /\ Cardinality(Missing(events, log)) <= faults
    /\ InOrder(events, log)
    /\ Torn \notin ToSet(log) =>
         Cardinality(Missing(events, log)) - Cardinality(Reported(log)) <= faults \div 2

\* "Resolved BEFORE --cwd chdir so relative --system-prompt-file paths bind to the
\* invocation directory" (main.ts:7-9): the session runs on the file the caller
\* meant, also when the directory it works in has one of that name, and is refused
\* if only that one exists; a refused command has not moved either.
PromptBindsToInvocationDir ==
  /\ system \notin {<<>>, Default} => system = <<".", args.promptFile>>
  /\ events # <<>> => (system = Default <=> args.promptFile = "null")
  /\ exit = "1" /\ events = <<>> => cwd = "."

-----------------------------------------------------------------------------
(* Inductive invariants                                                    *)

\* A part of a line at the end of the log takes the next line with it.
Dangling(lines) == IF Last(lines) = Torn THEN 1 ELSE 0

\* What is a line of the log besides the events.
IsOther(line) == line \in {Header, Torn} \/ line.tag = "bus:error"

Losses(es, lines, n) ==
  /\ lines # <<>>
  /\ \A i \in DOMAIN lines : IsOther(lines[i]) \/ lines[i] \in ToSet(es)
  /\ InOrder(es, lines)
  /\ Cardinality(Missing(es, lines)) + Dangling(lines) <= n
  /\ Torn \notin ToSet(lines) =>
       2 * (Cardinality(Missing(es, lines)) - Cardinality(Reported(lines))) <= n

\* What is printed up to an event: calls with their results, but for the call of
\* the last event.
Printed(es, lines) ==
  \A i \in DOMAIN lines : lines[i].tag = "call" =>
    IF i < Len(lines) THEN lines[i + 1] = Ev("result", lines[i].run, lines[i].data)
    ELSE /\ es # <<>> /\ Last(es).tag = "tool:start"
         /\ lines[i] = Ev("call", Last(es).run, Last(es).data)

Early == {"argv", "prompt", "cwd", "session"}

\* What main() has done when it has come to a stage, and left it.
StageInv ==
  /\ stage \in Early \cup {"run", "over"}
  /\ stage \in Early =>
       pc[1] = "idle" /\ events = <<>> /\ log = <<>> /\ shown = <<>> /\ subs = {} /\ exit = "none"
  /\ stage = "run" => subs = {"log", "render"} /\ exit = "none"
  /\ stage = "over" => subs = {} /\ exit \in {"0", "1", "threw"}
  /\ exit = "0" => pc[1] = "done"
  /\ exit = "1" => pc[1] = "failed" \/ (pc[1] = "idle" /\ log = <<>>)
  /\ exit = "threw" => pc[1] = "idle" /\ log \in {<<>>, <<Torn>>}
  /\ pc[1] = "idle" <=> events = <<>>
  /\ pc[1] = "idle" => shown = <<>>

\* Which prompt main() has, and where it is.
PromptInv ==
  /\ stage \in {"argv", "prompt", "cwd"} => cwd = "."
  /\ exit = "1" /\ pc[1] = "idle" => cwd = "."
  /\ stage \in {"argv", "prompt"} => system = <<>>
  /\ stage \in {"cwd", "session", "run"} \/ pc[1] # "idle" =>
       system = IF args.promptFile = "null" THEN Default ELSE <<".", args.promptFile>>
  /\ system \in {<<>>, Default, <<".", args.promptFile>>}

CliInv ==
  /\ StageInv
  /\ stage = "run" \/ pc[1] # "idle" => Losses(events, log, faults)
  /\ Printed(events, shown)
  /\ events # <<>> /\ Last(events).tag = "tool:start" => pc[1] = "tool"
=============================================================================
