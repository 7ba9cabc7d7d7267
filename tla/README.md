# Mirepoix in TLA+

TLA+ specifications of Mirepoix — the agent runtime (`packages/core`, `packages/ai`,
`packages/coding`), the ACP server and client that put it behind JSON-RPC (`packages/acp`,
`packages/understand/src/llm/acp-client.ts`) and the understand pipeline that drives a
fleet of such sessions (`packages/understand`) — with the TLC configurations that check
them and TLAPS proofs of what matters most. Paths below are relative to the repository
(`src/`); `PROJECT.json` ties every definition to its lines.

Contents: [the system](#the-system) · [inventory](#inventory) · [modules](#modules) ·
[runs](#runs) · [fairness](#fairness) · [findings](#findings) · [proofs](#proofs) ·
[what is only model-checked](#what-is-only-model-checked) · [limits](#what-is-not-modelled) ·
[plan](#plan)

## The system

    understand CLI ── scanWithGraph (orchestrator.ts)
                        │  phases, each on the result of the one before it;
                        │  each leaves an artifact in .understand-anything/intermediate/
                        ├─ upstream node scripts (scripts.ts)
                        ├─ file-analyzer fan-out ── runWithConcurrency (concurrency.ts)
                        ├─ architecture / domain / tour analyzers
                        ├─ assembleKnowledgeGraph (assembler.ts)
                        └─ two pairs of reviewers (face-off-reviewer.ts, graph-reviewer.ts)
                               │  every analyzer and every reviewer:
                               ▼
                        AcpClient (acp-client.ts) ── one child process per session
                               │  JSON-RPC lines on stdin / stdout
                               ▼
                        MirepoixAgent (packages/acp) ── sessions, cancel, updates, JSONL log
                               │
                               ▼
                        run() (core/loop.ts) ── callProvider (ai) / executeTool (coding)
                               │  every step is an event
                               ▼
                        Bus (core/bus.ts) ── logger, renderer, ACP updates

The program is single-threaded JavaScript in each process: what interleaves is what
runs *between* awaits — continuations of several runs on one session, handlers of the
server, callbacks of the client (a line, a timer, the exit of the child), workers of the
pool — and, one level up, processes: client and child, and two pipeline processes on
one project directory. In every module a step is what the code does from one await
(or one place another process can come between) to the next.

## Inventory

| component | state it keeps | operations | what is hard | what makes it correct | modelled by |
|---|---|---|---|---|---|
| Bus (`core/src/bus.ts`) | listeners per tag | `on` and its disposer, `off`, `emit`, `emitAsync`, meta events | handlers that register, dispose or emit while an emission is going on; errors of handlers of `bus:error` | an emission calls exactly the handlers registered when it began; a disposer removes its own registration; emissions return | `Bus` |
| Agent loop (`core/src/loop.ts`, `session.ts`) | message buffer, turn counter | `run()` | failures half-way through a turn; several runs on one session; ids of tool calls | requests are well formed; events tell the whole story, in order; every run settles | `AgentLoop` |
| Provider (`ai/src/provider.ts`, `rehydrate.ts`) | none | `callProvider`, `normalizeAssistantMessage`, extraction of tool calls from text | no timeout; made-up ids; calls hidden in prose | every call has an id unique in its request; a call written as text is found | outcomes in `AgentLoop`, extraction in `Replies` (not its XML fallback) |
| Session log (`core/src/log.ts`) | an open append target | attach, append, dispose | attach and dispose around a run; an append that fails, or half succeeds | one line per event while attached; losses are bounded by the failures | `AcpServer`, `AgentCli` |
| ACP server (`acp/src/index.ts`) | session map, one abort controller per session, subscriptions | `initialize`, `newSession`, `prompt`, `cancel` | cancel during a prompt; a second prompt before the first is answered | a prompt's stop reason is its own; updates are sent once; every prompt is answered | `AcpServer` |
| ACP client (`acp-client.ts`) | pending table with timers, buffers of the current prompt, exit code | `initialize`, `newSession`, `prompt`, `shutdown` | answer, timer and exit racing; late updates; a child that ignores signals | each call settles once; a returned prompt is complete; after `shutdown` the child is gone or was killed | `AcpClient` |
| Concurrency (`llm/concurrency.ts`) | cursor, slots | `runWithConcurrency` | workers sharing the cursor; failing items | no item lost or run twice, no more than the limit at a time, failures isolated | `WorkerPool`, `Batch` |
| File-analyzer fan-out (`llm/file-analyzer.ts`, `scanWithFileAnalyses`) | a session, two temporary directories per batch in flight | `runFileAnalyzerOnBatch`, `mergeBatchAnalyses` | sessions that fail in any call, agents that fail to start | nothing is held after its batch; every file is analysed or has its reason | `FileAnalyses` |
| Scripts (`scripts.ts`) | the upstream build on disk | `ensureUpstreamBuilt`, `run*` | the check before the build, by callers at the same time | the build is settled before anything runs on it | `Pipeline`, `FileAnalyses` (not `build-fingerprints`) |
| Orchestrator (`orchestrator.ts`) | phase results, artifacts on disk | `deterministicScan` … `scanWithGraph` | a phase that fails, a killed process, another process on the directory, stale artifacts | artifacts of a finished command belong together; a failure keeps what was written | `Pipeline` |
| Review (`face-off-reviewer.ts`, `graph-reviewer.ts`) | verdicts | `runReviewerPair` | a session that fails, a reply without a verdict | fails closed; verdicts are on the graph they are stored in | `Pipeline`; the search for the verdict in the reply: `Replies` |
| Parsers of replies (`llm/util.ts`, the `parse*` functions) | none | find the JSON in a model's text | prose with brackets, quotes and escapes around it | the first array that holds something is the one taken | `Replies` |
| Normalizers (`architecture-`, `domain-analyzer.ts`, `tour-builder.ts`) | none | one prompt each, then a normalizer | arbitrary replies of a model | each file in exactly one layer, each layer in exactly one domain, nothing a model asks for lost in silence | `Layers`, `Domains`, `Tour` |
| Assembler (`assembler.ts`) | none | `assembleKnowledgeGraph` | its contract with the normalizers | never throws on their output; edges have both ends; no symbol is lost | `Assembler` |
| Pipeline CLIs (`understand/src/bin`) | none | arguments, phases, gate, exit code | eight commands on one directory; exit code against the report | an exit code 0 is earned; a gate asks for what can be had | `Commands`, `Gates` |
| Agent CLI (`cli/src`) | none | one `run()` with logger and renderer | failures before and in the run; where paths bind | honest exit code; the prompt file the caller meant | `AgentCli` |
| Tools (`coding/src/execute.ts`, `bash.ts`) | files, child processes | `read`, `write`, `edit`, `bash` | `edit` as read, replace, write | an edit does what it says | `Tools` (`bash` is only what it may do to the file) |
| Context, prompts (`coding/src/context.ts`, `prompts.ts`) | none | read files into a string | — | — | not modelled |
| Terminal client (`tui/src`) | one session | prompt loop | a child that exits, timers | — | not modelled |
| `design/modernize-v0`, scripts, hooks, `mirepoix-zed` | none | stubs, shell | — | — | not modelled |

## Modules

| module | models | its actions |
|---|---|---|
| `Batch` | the contract of `runWithConcurrency`, without workers, cursor or order | `BatchCall`, `BatchSettle`, `BatchResolve` |
| `WorkerPool` | `runWithConcurrency` | `Call` (the synchronous start of all workers), `Settle` (the continuation of one `await fn(...)`, which takes the next item by `Pull`), `Resolve` (`Promise.all`) |
| `AgentLoop` | `run()` on one `Session`, `normalizeAssistantMessage` | `StartRun`; `ProviderThrows`, `ProviderReturnsNoMessage`, `ProviderReplies` after the provider's await; `ToolSettles` after the tool's |
| `AgentLoopProofs` | theorems on `AgentLoop` | |
| `AcpServer` | `MirepoixAgent` over `AgentLoop` (which it extends) | `NewSession`, `PromptUnknownSession`, `Prompt`, `LoopStep` (a step of a run with what its bus handlers do), `Answer` (after `await run(...)`), `Cancel` |
| `AcpServerProofs` | theorems on `AcpServer`, from those on `AgentLoop` | |
| `AcpClient` | `AcpClient`, its caller and the child's stdio | client: `Initialize`, `NewSession`, `Prompt`, `Resume`, `Fail`, `Timeout`, `ReadLine`, `ExitEvent`, `Shutdown`, `WaitEnds`, `WaitTimesOut`; child: `ChildReads`, `ChildUpdates`, `ChildAnswers`, `ChildDies` |
| `AcpClientProofs` | theorems on `AcpClient` | |
| `Bus` | `Bus` with its disposers and meta events | `On`, `Dispose`, `Off`, `Emit`, `CallHandler`, `HandlerEnds`, `Await`, `HandlerSettles`, `EmitMeta`, `Return` |
| `BusProofs` | theorems on `Bus` | |
| `FileAnalyses`, `MCFileAnalyses` | `scanWithFileAnalyses` over `WorkerPool` (which it extends), `runFileAnalyzerOnBatch`, `mergeBatchAnalyses`, `ensureUpstreamBuilt`, `runExtractStructure` | before the fan-out `Begin`, `Prepared`; `FanOut`, `FanOutResolves`, `WriteAnalyses`; of a caller `Install`, `Build`, `Extract`, `Handshake`, `Reply`, `RpcFails`, `SpawnError`, `Close` |
| `FileAnalysesProofs` | theorems on `WorkerPool`, and from those on `FileAnalyses` | |
| `Pipeline` | `scanWithGraph` and what it calls, with the reviewer pairs | one action per phase step, named after what the step does; `ReviewerEnds`; `Throws`, `Crash`, `Start`; `Edit` (of the project's sources) |
| `Commands`, `MCCommands` | the eight programs of `understand/src/bin` over `Pipeline` (which it extends) | `UsageError`, `Invoke`; `GoesOn`, `FansOut` (the steps of the pipeline a command goes through), `Returns` (the gate and the exit), `Fails`, `Killed` |
| `CommandsProofs` | theorems on `Pipeline`, and from those on `Commands` | |
| `AgentCli`, `MCAgentCli` | `main()` of the `mirepoix` command over `AgentLoop` (which it extends), `parseArgv`, the logger with appends that fail, the renderer | the numbered stages of `main()`: `ReadArguments`, `LoadSystemPrompt`, `ChangeDirectory`, `OpenSession`, `Run`, `Return` |
| `AgentCliProofs` | theorems on `AgentCli`, from those on `AgentLoop`; theorems on `Replies` | |
| `Tools` | `executeTool` on one file, whose content is a sequence of characters | `Read`, `Write`, `Edit`, `UnknownTool`, `Shell` |
| `Replies` | `extractBracketedSpan`, the parsers that retry and those that do not, `extractJsonObjects` and `tryParseToolCallsFromContent` | `Stream` (one more token of the reply); the algorithms are operators on the text so far |
| `Layers` | `computeDirectoryGroups`, `normalizeLayers` | `BeginLayers`; one turn of the outer loop from `NextLayer` to `EndLayer`, of the inner loop `ClaimGroup`; `AssignFiles` (what follows the loops), `ReplyWithoutLayers` |
| `Domains` | the input check of `runDomainAnalyzer`, `normalizeDomains` | `BeginDomains`, `NextDomain`, `ClaimLayer`, `EndDomain`, `AssignLayers`, `ReplyWithoutDomains` |
| `Assembler` | `assembleKnowledgeGraph` | `Assemble` |
| `Tour` | `normalizeTourSteps` | `BeginTour`, `TakeStep` (one turn of the loop over the sorted steps), `NumberSteps`, `ReplyWithoutSteps` |
| `Gates` | what the command lines check of layers, domains and tour | operators on the state of `Tour` |
| `Synthesis`, `MCSynthesis` | the chain one after the other; the project TLC runs it on | |
| `SynthesisProofs` | theorems on every module of the chain, within `Synthesis` | |

Composition: `AcpServer` and `AgentCli` both extend `AgentLoop`; a step of theirs that
advances a run is that run's step of `AgentLoop` conjoined with what the subscribers of the
bus do in it. `FileAnalyses` extends `WorkerPool`: its `FanOut`, the return of a batch
and `FanOutResolves` are the pool's `Call`, `Settle` and `Resolve`, and everything a session does in
between leaves the pool alone. `Commands` extends `Pipeline` the same way.
`AcpClient` has the child reduced to what `AcpServer` puts on its stdout; `Pipeline` has the
fan-out reduced to what `Batch` promises and sessions reduced to what `AcpClient` promises
(`CallerReturns`).
`Layers`, `Domains`, `Assembler`, `Tour` and `Gates` extend one another in this order, and
`Synthesis` closes the chain: what one normalizer returns is what the next function gets.
`Pipeline` and `Synthesis` split `scanWithGraph` between them, the one taking its failures and
its disk, the other its data; in `Commands` what a gate finds in the data is a free choice, in
`GatesAreExact` it is what the normalizers leave.

Refinement: `Batch` is the comment on `runWithConcurrency` as a specification: every item is
settled once, in any order, and the call resolves when all are. `WorkerPool` instantiates it, `B
== INSTANCE Batch`, with `outcome` and `results` for the abstract ones; its workers, cursor and
order are what the abstract one does not have. `ImplementsBatch` (`B!BatchSpec`) is a property
of `file_analyses`, where the pool's items are whole sessions with builds, scripts and failures,
and a theorem of both
modules (`PoolImplementsBatch`, `FanOutImplementsBatch`).

How state corresponds to code: variables carry the source's names (`messages`, `turn`,
`pending`, `listeners`, `next`, `results`); comments at each `VARIABLES` say which field, local
or promise each one is. Variables marked *history* (`events`, `sent`, `starts`, `regs`,
`called`, `shown`, `done`, `faults`) and the tags `run`, `from`, `by`, `of` exist in no field of
the code; they record what happened so that properties can speak of it, and no guard of an
action that models code reads them to decide what the code decides.

Abstractions of data: message texts are kinds (`"text"`, `"null"`), tool results keep whether
they fit the 200-character preview, chunks are tagged with the prompt that caused them and a
number, artifacts are the set of project files they cover and the process that made them. A
reply of a model is any sequence of entries, and of claims within an entry, that gets past the
check of its fields; a normalizer's locals are reset when it has returned, and the tour forgets
what it does not read. `groupIds` is a set, because the code walks the list for files it does
not have yet; a domain's `layerIds` and the `primaryNodeIds` of a step of the tour are bags:
nobody reads their order, but the assembler throws on a repetition, and the tour compares sorted
lists. `updates` of `AcpServer` is a set of notifications, each with its place in what was sent.
Of the anomalies those are kept that a property reads. In `Replies` a text is a sequence of
tokens (brackets, quotes, backslashes, an entry, other text), because what the scanners get
wrong or right is the nesting of these; in `Tools` contents are characters, because two of them
mean something to `String.prototype.replace`; in `AgentCli` a line of the log stands whole or
torn. Operators whose names start with `Bug` are plausible faults (a dropped guard, a missing
reset); the specifications never use them, each is substituted for the definition that follows
it to see that a property notices.

## Runs

| run | instance | checks |
|---|---|---|
| `file_analyses` | 4 batches (5 files) on 2 workers, any part of the upstream build present, sessions that fail in any call, agents that may fail to start, replies about files of other batches | `WorkConserving`: while batches wait, the pool works at its full width. `SessionsFollowThePool`: a directory or an agent is held only by a batch in flight. `BuildIsSettledFirst`: never two installs at a time, and nothing runs during one. `CountsAddUp`: every file is analysed, or in a drop report, or in a failed batch. `FanOutEnds`. `ImplementsBatch`. |
| `acp_server` | 2 prompts of a client that waits, 2 turns of up to 2 tool calls, provider failures, replies without message, throwing tools, cancels at any time | of the loop: `RequestsWellFormed` (whenever the provider is called, every tool call is answered by the messages right behind it, in order, and ids are unique within a run), `EventGrammar`, `EventsReconstructHistory` (the buffer can be rebuilt from the events); of the server: `StopReasonIsOwn`, `UpdatesSentOnce`, `CancelReachesInFlight` (a cancel aborts the prompt that is unanswered, and no other) |
| `acp_server_overlap` | 2 prompts of a client that does not wait, 1 turn of up to 2 tool calls, cancels at any time, provider failures, replies without message, malformed arguments, throwing tools | `ToolCallsClosedAtAnswer`: when a prompt is answered the updates of its tool calls are closed. `LogFollowsEvents`: the log is the header and the events up to a point, up to now while the session is open. `OwnHistoryWellFormed`: what one run contributed is well formed on its own, although runs share the buffer. `EveryPromptAnswered`: every prompt gets an answer, although a prompt may find another's controller, or none, behind its run. |
| `acp_client` | 2 prompts of 3 updates, a child that dies or hangs at any time, timers at any time | `PendingIffUnsettled`: the table holds exactly the calls whose promise is open, and none once the exit was seen. `ResultIsComplete`: a prompt that returned has every chunk and tool call the child sent for it, in order. `ClosedMeansGoneOrKilled`. `CallerReturns`. |
| `bus` | 2 handlers, 2 registrations, 2 emissions, `off()` | `EmissionIsComplete`: an emission that returned called every registration it found when it began, once and in order. `DisposersAreExact`: as long as nobody used `off()`, what is registered is what was registered and not disposed. `EmissionsReturn`. |
| `commands` | 2 commands of any of the 8 kinds in sequence, every kind of concurrency argument, 1 file, 1 edit of the sources, a pair of reviewers | `CommandIsCoherent`: what a finished command leaves is its own and of one scan, whatever others left there. `FailureKeepsArtifacts`. `GraphAttests`: verdicts on disk are full pairs, on this very graph, with the tour exactly when they should have seen it, and fail closed. `ExitZeroIsEarned`. `CommandTypeOK`: among the types, that no fan-out gets a width below 1. `EveryRunEnds`. For commands that overlap `GraphAttests` and `CommandTypeOK` are theorems. |
| `synthesis` | 3 files in 3 directory groups (one at the root), 3 layer ids with `layer:shared` and a stray `domain:shared`, 3 domain ids with `domain:shared` and a stray `layer:a`; up to 3 entries per reply | `FilesInOneLayer`, `LayersInOneDomain`: whatever the model replies, both are partitions with unique ids, and an id names a layer or a domain. `ClaimsAreAccounted`, `StepsAreAccounted`: what the model asked for is honoured or reported, and the tour can be walked. `AssemblySucceeds`: none of the assembler's throws is reached, and no symbol is lost. `GatesAreExact`: the checks of the command lines hold on every outcome, but for scarcity (too few nodes or steps). |
| `agent_cli` | 7 command lines, a prompt file in either directory, both or none, one run of 2 turns with failing providers and malformed arguments, 2 appends that fail whole or in part | `ExitCodeIsHonest`, `LossesAreBounded`: the log loses no more events than appends failed, in order, and each loss is reported unless the report failed too. `PromptBindsToInvocationDir`. |
| `replies` | every text of up to 7 tokens of 6 kinds | `FirstArrayWins`: what the parsers take from a reply is the first array with an entry. `CallsAreRecovered`: whatever the text, what rehydration takes from it are balanced calls, in order and each behind the one before; a call in the text itself is found if no stray bracket or backslash stands before its end; and in a text without any there is nothing else. Both against definitions by sets of positions, without the state of a loop. |
| `agent_loop_session_end`, `acp_server_cancel_log`, `tools_edit` | violations | `SessionEndOncePerRun`, `LogRecordsEveryEvent`, `EditDoesWhatItSays`: see findings |

Type invariants are stated module by module. Those of `WorkerPool`, `FileAnalyses`,
`AgentLoop`, `AcpServer` (`AcpTypeOK`), `AcpClient`, `Bus`, `Pipeline` and `Commands` are
theorems; the types of the `Synthesis` chain are a part of its invariants (`LayersInv`,
`DomainsInv`, `TourInv`). `CommandTypeOK` is checked as well, because it says more than types.

**Bounds, and why they are enough.** `FileAnalyses`: four batches on two workers are the
smallest instance in which a worker takes another item after its first while the other is held
and one is left over at the end, and both workers see failures; one batch has two files, of
which one may be lost and one kept. The proofs cover every size. `AgentLoop`: the second run
starts from the buffer the first left, so two runs show what a failed run does to its successor;
two turns show a turn after tool results and the exhausted limit; two calls show a failure
between two tool results of one message. `AcpServer`: two prompts are what one controller field
can confuse; malformed arguments, which end a run in the middle of a turn, are in the
overlapping run and in `agent_cli`, because the requests of a run that follows them on the same
session are *not* well formed. There one turn is enough: its two calls leave a run suspended at three awaits for the other
prompt, its controller and a cancel to come between, and at the end of the turn its own
history is what its next request would hold (`OwnHistoryWellFormed` asks the same of both). `AcpClient`: three updates hold a chunk, an opened tool call and
its update, or two tool calls; a second prompt meets the buffers of the first. `Bus`: two
registrations are two of one function, where a disposer or `off()` may take the wrong one, or
one of each; two emissions nest one in the other, and the meta events nest below that.
`Commands`: the second command meets everything the first can leave; one file is enough to tell
covered from not covered, one edit to tell two scans apart. `Synthesis`: three entries are an
id, another and the first again, the shortest reply in which a merge meets what came between;
claims within an entry are not bounded for layers (a set) and not for domains (a layer is
claimed at most once); a tour step names up to two nodes, which may be one node twice, two
nodes, or one that does not exist. Each group holds one file, and a layer takes a group
whole, so more files of one group show nothing new; the theorems cover any number. `AgentCli`:
one failed append and its failed report, or two losses, or a part of a line and what is glued to
it. `Replies`: seven tokens hold two arrays with entries and something between them, or an array
behind a string with an escaped quote in it. `Tools`: contents of three characters and arguments
of up to two, the empty one and `$` and `&` among them; arguments that are no strings, which
the tool's schema rules out, are not modelled. `CHECK_DEADLOCK FALSE` everywhere: calls, runs, prompts,
commands and texts are finitely many and all of them end; that they end *well* is what the
liveness properties say.

## Fairness

* `WorkerPool`: a queued continuation runs. That `fn` settles is the caller's duty.
* `FileAnalyses`: continuations run; a call on an agent is settled by its timer at the latest
  and `shutdown()` gives up by itself (`CallerReturns` of `AcpClient`). That `pnpm` and the
  upstream scripts end is an assumption: `execFile` is given no timeout. Which outcome a step
  has is free.
* `AgentLoop`, `AcpServer`: the provider and the tool dispatcher answer, well or badly.
  `callProvider` sets no timeout and the server never hands its abort signal to `run()`, so this
  is an assumption on the environment and *not* a property of the code: `EveryPromptAnswered`
  says that nothing in the server adds a way to hang.
* `AcpClient`: timers fire, continuations run, the caller reaches its `finally`. Nothing is
  assumed of the child: it need not answer, read, or die on a signal.
* `Bus`: handlers return and their promises settle; whether they use the bus is up to them.
* `Pipeline`, `Commands`: a running process takes its next step: scripts end (as above),
  sessions return (`CallerReturns`). Which outcome a step has is free, and nobody need start or
  kill a process.
* `AgentCli`, `Replies`, `Tools`: none; their properties are about safety.

## What holds for a waiting client only

`StopReasonIsOwn`, `UpdatesSentOnce` and `CancelReachesInFlight`, and `RequestsWellFormed`
below them, are checked with `Overlapping = FALSE`: a session holds one `abortController`
field and one message buffer, and a second `session/prompt` before the first is answered
replaces the one and is mixed into the other. `packages/acp/src/index.ts:149` then reads
the controller after the await and may find another prompt's, or `null`, in which case the
prompt is answered with an error; and each of the two sends the updates of both. ACP clients
wait for the answer of a prompt, and both clients in this repository do; `acp_server_overlap`
checks what holds regardless, that every prompt is answered among it.

## Findings

Each is a run with `expect: violation`: the property is what the repository says, the trace
is what the code does.

1. `SessionEndOncePerRun` — `core/README.md:102` says `session:end` is emitted exactly once per
   `run` call; a run whose provider fails (`loop.ts:118`), or whose tool arguments are not JSON
   (`loop.ts:144`), settles without it.
2. `LogRecordsEveryEvent` — `session/cancel` disposes the logger and does not stop the run: what
   the run emits afterwards is in no log.
3. `EditDoesWhatItSays` — `edit` passes the model's `new_string` to `String.prototype.replace`
   as a string (`execute.ts:46`), where `$$` is one dollar sign and `$&` the text that was
   matched: an edit that inserts them reports success and writes something else, against
   "Replace old_string with new_string in a file" (`tools.ts:53`). Also visible in the model:
   occurrences that overlap count as one (`execute.ts:40`), so that "uniquely" holds of the
   counting only; and an empty `old_string` splits a text into its characters, so that it is
   unique in an empty file and in one of two characters, where the edit inserts at the front.

Met while modelling, and visible in the models, without a run of their own:

* ADR-005 says any state of the session can be rebuilt from the log; `tool:end` carries the
  first 200 characters of a result, so `EventsReconstructHistory` holds for shorter results only
  (add `"long result"` to `Faults` of `AcpServer.cfg` to see it fail).
* "A re-run can pick up from here" (`orchestrator.ts:485-486`, `669-670`): every entry point
  starts from `deterministicScan`, as `Start` of `Pipeline` does.
* After a prompt timed out, the next prompt on the same client may return text the child sent
  for the first: `handleNotification` (`acp-client.ts:163-170`) filters by session, not by
  prompt. Every caller in the repository shuts its client down after a failure; `Retries = TRUE`
  in `AcpClient` is one that does not.
* "Per-batch failures are isolated" (`file-analyzer.ts:28`): an agent that cannot be started
  ends the process, because nobody listens to the child's `'error'` (`acp-client.ts:100`);
  `SpawnError` of `FileAnalyses`.
* The drop report's comment lets its counts sum to the files lost (`file-analyzer.ts:62-63`),
  and the warning adds them up as files; keys of a reply that match no file are counted too
  (`456-461`). `CountsAddUp` leaves them out.
* The doc of `normalizeTourSteps` (`tour-builder.ts:527-529`) drops a step whose
  `primaryNodeIds` "as a set" are those of an earlier step; the key is the sorted *list*
  (`:560`), a bag in `Tour`, and `["A", "A"]` has another key than `["A"]`.
* `normalizeDomains` drops an entry under a layer's id, so that domains and layers can be told
  apart (`domain-analyzer.ts:483-488`), but makes its own `domain:shared` without that check,
  and `normalizeLayers` only flags a layer of that name. `LayersInOneDomain` excepts this id;
  without the exception TLC finds the collision.
* "We retry from each subsequent `[`" (`architecture-analyzer.ts:518-520`): the loop ends at the
  first bracket that is never closed (`:526`), also when an array stands behind it.
  `FirstArrayWins` has this as its premise.
* In rehydration a `}` that closes nothing takes the depth below zero (`rehydrate.ts:29-30`),
  and a backslash outside a string hides the character behind it (`:17-20`): calls that stand
  behind one may be lost, and objects within an object be taken for calls. `CallsAreRecovered`
  promises to find the calls before it, and of what is taken that it is balanced and parses,
  anywhere. A `{` that is never closed swallows the calls behind it: they are then not calls
  in the text itself.
* "Never rejects" (`concurrency.ts:16`): a limit below 1 rejects the call (`:29`), as `Call` of
  `WorkerPool` does. The commands never pass one (`CommandTypeOK`).
* An append that leaves a part of a line swallows the report of its own failure, which is
  appended to the same line. `LossesAreBounded` promises a report for clean losses only.
* `cli/README.md:40` has `--cwd` change the directory "before any I/O"; the prompt file is read
  first, as `main.ts:58-61` explains. `PromptBindsToInvocationDir` follows the code.

## Proofs

TLAPS proves the following for every value of the constants that satisfies the named
assumptions of the modules (`PoolAssumption`, `FanOutAssumption`, `LoopAssumption`,
`CliAssumption`, `ClientAssumption`, `BusAssumption`, `PipelineAssumption`, `CommandsAssumption`,
`LayersAssumption`, `DomainsAssumption`, `AssemblerAssumption`, `TourAssumption`,
`GatesAssumption`, `RepliesAssumption`: what kinds of things the constants are, how they include
one another, and that the files of a project are finitely many); TLC evaluates each of them on
the instances above. A theorem that needs more says so in its `ASSUME`, and these are all of
them:

| hypothesis | what it stands for | theorems |
|---|---|---|
| `~Overlapping` (server, loop) | a client that waits for the answer of a prompt, as both clients in the repository do | `RequestsWellFormedAlways`, `ServerRequests`, `StopReasonIsOwnAlways`, `UpdatesSentOnceAlways`, `CancelReachesInFlightAlways` |
| `"bad arguments" \notin Faults` | the model's arguments are JSON; otherwise the run ends in the middle of a turn (`loop.ts:144`) and leaves calls without answers to the next | `RequestsWellFormedAlways`, `ServerRequests` |
| `"long result" \notin Faults` | results fit the 200 characters of `tool:end` | `EventsReconstructHistoryAlways`, `ServerReconstructs` |
| `~Retries` | the caller gives its client up at the first failure, as every caller in the repository does | `ClientResults` |
| `BatchesAreDisjoint` | the upstream `compute-batches` puts a file in one batch | `FanOutCountsAddUp` |
| `~Overlapping` (pipeline, commands) | processes take turns on a project directory | `PipelineWork`, `PipelineKeepsArtifacts`, `CommandWork`, `CommandKeepsArtifacts`, `CommandExits`, `CommandIsCoherentAlways`, `ExitZeroIsEarnedAlways` |

The runs that check these properties satisfy the same hypotheses, so a theorem says of every
size what its run says of one.

**`FileAnalysesProofs`** begins with the pool (any number of items, any limit, also below 1).
The inductive invariant `PoolInv` adds to `TypeOK` what connects cursor, workers and slots: an
item before the cursor without a result is held by exactly one worker, items past the cursor
are untouched, and a worker is idle only if the cursor has passed the end. Without it
`NoHoleWhenResolved` is not inductive: a state in which a worker stopped early and the others
finish would satisfy it until `Resolve`. From it: `PoolTypeCorrect`, `PoolLimit` (never more
than `Limit` items in flight: each of them maps to its worker, and a set with an injection into
`1..k` has at most `k` members), `PoolWorkConserving`, `PoolStartOrder`,
`PoolResolvedComplete`, `PoolResultsFinal` (a filled slot never changes) and
`PoolImplementsBatch` (initial states map to initial states, each step to a step of `Batch` or
a stutter).

A step of the fan-out (any batches, any width) is a step of the pool or leaves its variables
alone (`FanOutIsPool`), so what was proved of the pool holds of the fan-out:
`FanOutPoolInvariant`, `FanOutWorkConserving`, `FanOutImplementsBatch`. The invariant
`SessionInv` ties each batch's stage to the pool (idle exactly beyond the cursor, settled
exactly when its slot is filled) and says where it may hold what; from it `FanOutSessions`,
whose bound on the agents is that of `PoolLimit`. `BuildInv` says that the build is complete
before the fan-out is called; from it `FanOutBuild`, under the assumption `CompleteInstall` that
an install which succeeds installs everything. Without it workers may find the build incomplete
after an install and install at once, which is why the property carries the assumption as its
premise. `FanOutCountsAddUp`: the report is a function of the results and is final once written
(`ReportIsFinal`); the files split into the analysed, the lost of each kind and those of failed
batches, and these parts are shown to be disjoint, whence the sums.

**`AgentLoopProofs`** (any number of runs, turns and calls, runs that overlap unless said
otherwise). `LoopTypesAlways` carries what a phase of a run means for its current message and
call. `EventGrammarAlways` needs `GrammarInv`: the events of a run up to now are a prefix of its
grammar that ends where the run stands; the property alone does not say at which event the next
one has to fit. `EventsReconstructHistoryAlways` is inductive with the types. For
`RequestsWellFormedAlways` a request is the whole buffer, and what must be known of it between
requests is `AnswersInv` (every call of a settled turn has its answer right behind it, in order,
and those of the turn under way up to the current call) and `CallIdsInv` (an id names the
turn it was made in and its place there, no turn is ahead of its run, and a turn has one message
with calls).
`OwnHistoryWellFormedAlways` is the same of the subsequence one run pushed, when others push in
between: `OwnInv` follows the messages of a run by their number, not by their index.
`NoEventTwice` is about what `events` is made of: the data of an event say at which step of its
run it was emitted, and `PastInv` has that a run is past every event it has emitted and that the
calls of a turn ascend. So a line of a log stands for one event, which is what the proofs about
logs need of it.

**`AcpServerProofs`** (any number of prompts). A step of the server is a step of the loop or
leaves its variables alone (`StepOfLoop`), so the results above are carried over:
`ServerLoop`, `ServerRequests`, `ServerReconstructs`. `SrvInv` relates the sessions, the runs
and the subscriptions; with `OneInFlight`, which a client that waits maintains, the
session's controller is the one of the prompt in flight, and nobody else is subscribed. From
these `StopReasonIsOwnAlways`, `UpdatesSentOnceAlways` and the action property
`CancelReachesInFlightAlways`, which says of all prompts whether a cancel aborts them.
`ToolCallsClosedAlways` and `LogFollowsEventsAlways` hold whether
or not prompts overlap: an open update belongs to a run that is at that very call
(`OpenUpdatesInv`), and the log is the header and an initial part of the events (`LogInv`).

**`AgentCliProofs`** (any command lines, any files, any number of turns, calls and failing
appends). None of the three properties is inductive. `StageInv` and `PromptInv` say, stage by
stage, what `main()` has done; from `PromptInv` comes `PromptBindsAlways`. `Losses` strengthens
`LossesAreBounded` in two ways: a part of a line at the end of the log counts as one more event
to be lost, because the next line will be glued to it, and every line that is neither header,
part nor report is an event. `Printed` lets a call stand last on the screen only while the loop
is at that very tool (`EventGrammar` of the loop says what comes behind it). A step of the run
hands several events to the logger and the renderer, in one step of the model: it is shown what
one event does to the log, for each way its two appends can end (`EventLosses`), and to the
screen (`PrintedEvent`); the rest is an induction over the events of the step. The prover has no
induction over sequences, so there is a lemma for it: what fails of some number fails of a least
one (`InductionTo`), and `FlattenSeq` is a function on prefixes (`FlattenByPrefix`). That an event
is not in the log yet when it is appended is `NoEventTwice`. The theorems are
`ExitCodeIsHonestAlways`, `LossesAreBoundedAlways` and `PromptBindsAlways`.

The same module proves the two properties of `Replies`, for replies of any length, because they
rest on the same induction over numbers. The loops of the code are recursive functions of the
position (`Scan`, `Lexed`, `Rehydration`, and `ParsedArray`, which recurs on a later cursor);
`RecursionUpTo` builds such a function from its step, up to any position, so that each loop can
be unfolded turn by turn (`ScanTurns`, `LexTurns`, `RehydrationTurns`, `SearchTurns`). The
properties speak of hidden quotes and of counted brackets, which are not local:
`BackslashStep`, `InStringStep` and `DepthStep` say what one more character does to them, and
`InStringFrom` and `DepthFrom` that it does not matter where one began to read, if that was in
no string. `JSON.parse` is in a string where the text is in one (`Reads`), because what parses
has no backslash outside a string; on such a span it agrees with the scanner, character by
character (`Scans`), so the spans that parse are the pairs that parse (`SpanOfPair`,
`PairOfSpan`). `FirstArrayWinsAlways` follows by induction from the last cursor down to the
first (`FoundHere`). `CallsAreRecoveredAlways` has an invariant of the loop of
`extractJsonObjects` for the part of a text that is orderly, in three parts: what it counts is
what the text says (`CountsAt`), the bracket it has noted is the one that opened where none was
open (`StartAt`), and what it has found are the objects that have ended, in order (`FoundAt`). A
stray backslash or closing bracket breaks the first two. What is left on any text is another
invariant (`SpansAreTaken`): behind the bracket that is noted the loop reads as `JSON.parse`
does, as long as that reads on (`SpanAt`), and what has been found are pairs that parse, in order
and before that bracket (`TakenAt`). Since nothing that was found is lost (`FoundStays`), the
calls of an orderly beginning are among the result of the whole.

**`AcpClientProofs`** (any number of prompts and updates). The inductive invariant `ClientInv`
adds to `TypeOK`, `PendingIffUnsettled` and `ClosedMeansGoneOrKilled` that calls not made yet
are unsettled, that the caller's position bounds the calls made, and that a caller in
`shutdown()` has closed stdin; the table alone is not inductive, since a new id might meet a
settled promise. From it, with or without retries: `ClientTypeCorrect`, `ClientTable`,
`ClientShutdown`. `ClientResults` is about what a prompt returns, and follows a chunk from the
child's stdin to the result. Its invariant `CollectInv` says of the
pipes that a call is read once, worked on once and answered last (`WireInv`); of what was sent
that chunks and tool calls are numbered in the order sent and each tool call is closed by the
update behind it (`SentInv`); of the caller that every call before its position was fulfilled
(`CallerInv`, which is where giving up is used); of the buffers that they hold what was read of
the current prompt, so that read and unread parts make up what was sent (`BuffersInv`); and that
what a prompt returned was answered first (`ResultsInv`).

**`BusProofs`** (any handlers, any depth, no hypotheses). `BusInv` has types and `FramesInv`:
every emission on the stack or awaited has called an initial part of the snapshot it took and
has the rest before it, whatever was registered or disposed since. From it
`EmissionIsCompleteAlways`. `DisposersAreExactAlways` is its own invariant on top of the types:
the proof counts the occurrences of a function in a list, and what removing the first one found
does to the count.

**`CommandsProofs`** begins with the pipeline (any number of processes, any roster). The
inductive invariant `PipelineInv` says, phase by phase, what graph a running process holds and
what the verdicts collected so far are about. From it `PipelineTypeCorrect` and
`PipelineGraphAttests`: whatever other processes do to the directory, the graph on disk carries
full verdicts on itself. The point of the proof is that no step of it needs anything of the other
artifacts. When processes take turns more can be said: `WorkInv` has, phase by phase, what the
running process holds in memory and what the last one left on disk, and from it comes
`PipelineKeepsArtifacts`.

Every step of a command (any commands, any arguments) is a step of `Pipeline`, or ends its
process and leaves the disk alone, so `PipelineInv` holds (`CommandInvariant`), and with it
`CommandGraphAttests`. `CommandTypeCorrect` is about the widths: the invariant says that a running
command that has its fan-out before it holds the width that `Concurrency` made of its argument,
which is at least 1 for every argument. For commands that take turns `WorkInv` holds as well
(`CommandWork`), and with it `CommandKeepsArtifacts`; `ExitInv` says that a command is in no phase
beyond the one it stops in, and where the one that exited last must have ended to show its status
(`CommandExits`), and from the two come `CommandIsCoherentAlways` and `ExitZeroIsEarnedAlways`.

**`SynthesisProofs`** (any finite set of files, any depth of groups, any ids, replies of any
length). `FilesInOneLayer` speaks of the result and is not inductive while the reply is read.
The invariant `LayersInv` adds what the loops keep: the groups of an accepted layer, and of
the entry at hand, are those `assignedGroup` has under its id, and ids are accepted once; so
two accepted layers share no group, a file's group is in at most one of them, and the sweep
adds the files of none. It is proved for all of `Synthesis`: the later phases leave the
layers alone until the tour forgets them. From it `SynthesisFilesInOneLayer`, and with
`ClaimsInv` (a claim made so far is in an accepted layer or was reported)
`SynthesisClaimsAccounted`. `DomainsInv` is the counterpart for domains, with bags in place of
sets: `SynthesisLayersInOneDomain`. That both are partitions is what the assembler's checks
need: `SynthesisGraph` says what it puts together, `SynthesisAssembles` that it never throws.
`TourInv` says that the kept steps ascend in their order and that each step offered so far was
kept or has the reason for which the code drops it: `SynthesisStepsAccounted`.
`SynthesisGatesExact` is about counting: a gate compares the number of appearances with the
number of files, which tells a partition from anything else only because appearances and files
are shown to be in bijection, and because a set of files that covers too little or twice has
another count.

## What is only model-checked

* Every liveness property: fairness and `ENABLED` are beyond the prover.
* The violations: a counterexample is a counterexample.

Not claimed at all:

* `ResultIsComplete` for a caller that retries (see findings);
* `RequestsWellFormed` after arguments that are not JSON, and for prompts that overlap, where a
  request may hold the other run's half-finished turn (`OwnHistoryWellFormed` is what is left);
* the reason a prompt is answered with, and how often an update is sent, when prompts overlap;
* an answer to a prompt whose provider never settles, and the survival of the process when an
  agent cannot be started (`FanOutEnds` takes that crash for an end);
* anything of workers that find the upstream build incomplete after an install
  (`BuildIsSettledFirst` has the complete install as its premise);
* `DisposersAreExact` once `off()` was called, a second `shutdown()` of a client and one with
  calls pending: nothing in `src/` does any of these;
* what holds of artifacts when processes overlap beyond `GraphAttests`.

The hazards of `PROJECT.json` that these concern carry a note that says so.

## What is not modelled

* Text: prompts, briefs, previews of sources, hub scores, complexity buckets, what is printed
  (except that a renderer prints a call and its result together), the XML fallback of
  `rehydrate.ts`, and file names in `scripts.ts`.
* `context.ts`, `prompts.ts`: pure reading of files into one string.
* `tui/src`: another ACP client, through the SDK's connection, one prompt at a time; timers of
  180 s and `process.exit` with the child's code. Its protocol is that of `AcpServer` with a
  client that waits.
* `bash.ts`: a promise that settles on `'close'` or `'error'`. A command that leaves a process
  in the background with its stdout open is not settled until that ends; there is no timeout,
  and the loop's fairness assumes that there is no need of one. Output is decoded chunk by
  chunk, so that a character cut by a chunk is lost.
* `build-fingerprints`, the search for the plugin's directory and its workspace root in
  `scripts.ts`.
* `design/modernize-v0`: stubs. Shell scripts, hooks, CI and `mirepoix-zed`: wrappers around
  external tools.
* An uncaught exception (a broken pipe, an unhandled rejection) ends the process: in `AcpClient`
  and `Bus` it ends the behaviour, in `FileAnalyses` a failed start of an agent is `SpawnError`,
  in `Pipeline` it is `Crash`.
* A limit that is not a number (`NaN`) for `runWithConcurrency`, which gives an array of holes;
  no command passes one (`CommandTypeOK`).
* Disk-full errors in the writes of `Pipeline`; a killed process takes its script with it.

## Plan

Left, in this order; each step leaves the earlier runs as they are.

1. **Client and server** — `AcpClient`'s child replaced by `AcpServer`; the reduced child of
   `AcpClient` shown to be implemented by it, step by step.
2. **Terminal client**, **bash** as a process with pipes.
