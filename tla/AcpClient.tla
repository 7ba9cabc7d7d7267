----------------------------- MODULE AcpClient ------------------------------
(***************************************************************************)
(* AcpClient, packages/understand/src/llm/acp-client.ts: the client end of *)
(* JSON-RPC over the stdio of a child process, driven by one caller the    *)
(* way the analyzers drive it: initialize, session/new, prompts one after  *)
(* the other, shutdown in a finally block.                                 *)
(*                                                                         *)
(* The thread of the client runs one callback at a time: a line read, a    *)
(* timer, the exit of the child, the continuation of an await.  readline   *)
(* hands over all the lines of a chunk before any continuation runs, so a  *)
(* settled call and the caller's next step are two steps.                  *)
(*                                                                         *)
(* The child is the agent of AcpServer, reduced to what it puts on its     *)
(* stdout.  Calls are numbered as the code numbers them: 1 is initialize,  *)
(* 2 session/new, the others are prompts.  Lines that change nothing       *)
(* (blank, not JSON, other notifications) are left out.                    *)
(***************************************************************************)
EXTENDS Integers, Sequences, FiniteSets

CONSTANTS
  MaxPrompts,   (* bound: prompts of the session                            *)
  MaxUpdates,   (* bound: session/update notifications of one prompt        *)
  Retries       (* whether the caller prompts again after a failed prompt   *)

ASSUME ClientAssumption ==
  /\ MaxPrompts \in Nat
  /\ MaxUpdates \in Nat
  /\ Retries \in BOOLEAN

VARIABLES
  caller,      (* what the caller does or awaits                            *)
  nextId,      (* this.nextId                                               *)
  pending,     (* the keys of this.pending; each has a timer armed          *)
  settled,     (* settled[c]: how the promise of call c settled             *)
  exitCode,    (* whether this.exitCode is set, i.e. 'exit' was delivered   *)
  sessionId,   (* whether this.currentSessionId is set                      *)
  text,        (* this.currentText, as the chunks it is made of             *)
  toolCalls,   (* this.currentToolCalls                                     *)
  result,      (* result[c]: what prompt c returned, NoResult before        *)
  signal,      (* how far the shutdown has gone                             *)
  child,       (* the child process: "running" or "dead"                    *)
  stdin,       (* calls written to the child and not read yet               *)
  working,     (* prompts the child works on                                *)
  stdout,      (* lines the child wrote and the client has not read         *)
  sent         (* history: sent[c], the updates of prompt c                 *)

table   == <<nextId, pending, settled>>
buffers == <<sessionId, text, toolCalls>>
server  == <<child, stdin, working, stdout, sent>>
vars    == <<caller, table, exitCode, buffers, result, signal, server>>

Calls    == 1..(MaxPrompts + 2)
Made     == 1..(nextId - 1)
Closing  == {"stdin", "SIGTERM", "SIGKILL"}
Outcomes == {"none", "result", "error", "timeout", "exit"}
NoResult == [text |-> <<>>, toolCalls |-> <<>>, returned |-> FALSE]

\* Lines on stdout: responses by the member they carry, updates by their kind.
Responses == {"result", "error"}
Updates   == {"chunk", "tool_call", "tool_call_update"}
Lines     == [kind : Responses \cup Updates, call : Calls, n : Nat]

Reply(c, how)      == [kind |-> how, call |-> c, n |-> 0]
Update(kind, c, n) == [kind |-> kind, call |-> c, n |-> n]

-----------------------------------------------------------------------------
Init ==
  /\ caller = "created"
  /\ nextId = 1
  /\ pending = {}
  /\ settled = [c \in Calls |-> "none"]
  /\ exitCode = FALSE
  /\ sessionId = FALSE
  /\ text = <<>>
  /\ toolCalls = <<>>
  /\ result = [c \in Calls |-> NoResult]
  /\ signal = "none"
  /\ child = "running"
  /\ stdin = <<>>
  /\ working = {}
  /\ stdout = <<>>
  /\ sent = [c \in Calls |-> <<>>]

-----------------------------------------------------------------------------
(* Calls                                                                   *)

\* call(): refused once the child is known to be gone; else the call gets an
\* id, a timer and a place in the map, and is written to the child.
Call(awaiting) ==
  \/ /\ exitCode
     /\ caller' = "failed"
     /\ UNCHANGED <<table, stdin>>
  \/ /\ ~exitCode
     /\ caller' = awaiting
     /\ nextId' = nextId + 1
     /\ pending' = pending \cup {nextId}
     /\ stdin' = IF child = "running" THEN Append(stdin, nextId) ELSE stdin
     /\ UNCHANGED settled

Initialize ==
  /\ caller = "created"
  /\ Call("initialize")
  /\ UNCHANGED <<exitCode, buffers, result, signal, child, working, stdout, sent>>

NewSession ==
  /\ caller = "initialized"
  /\ Call("session/new")
  /\ UNCHANGED <<exitCode, buffers, result, signal, child, working, stdout, sent>>

\* prompt(): the buffers are reset, the call is made.
Prompt ==
  /\ caller = "open"
  /\ nextId \in Calls
  /\ text' = <<>>
  /\ toolCalls' = <<>>
  /\ Call("session/prompt")
  /\ UNCHANGED <<exitCode, sessionId, result, signal, child, working, stdout, sent>>

\* The call the caller awaits.
Awaited == nextId - 1

\* The continuation of a call that was answered: newSession() stores the
\* session and resets the buffers, prompt() returns what they hold.
Resume ==
  /\ caller \in {"initialize", "session/new", "session/prompt"}
  /\ settled[Awaited] = "result"
  /\ caller' = IF caller = "initialize" THEN "initialized" ELSE "open"
  /\ \/ /\ caller = "session/new"
        /\ sessionId' = TRUE
        /\ text' = <<>>
        /\ toolCalls' = <<>>
     \/ caller # "session/new" /\ UNCHANGED buffers
  /\ result' = IF caller = "session/prompt"
                 THEN [result EXCEPT ![Awaited] =
                        [text |-> text, toolCalls |-> toolCalls, returned |-> TRUE]]
                 ELSE result
  /\ UNCHANGED <<table, exitCode, signal, server>>

\* The continuation of a call that was rejected.
Fail ==
  /\ caller \in {"initialize", "session/new", "session/prompt"}
  /\ settled[Awaited] \in {"error", "timeout", "exit"}
  /\ caller' \in {"failed"} \cup
       (IF Retries /\ caller = "session/prompt" THEN {"open"} ELSE {})
  /\ UNCHANGED <<table, exitCode, buffers, result, signal, server>>

-----------------------------------------------------------------------------
(* What settles a call                                                     *)

\* Operators whose names start with Bug are faults the properties are tried
\* against; the specification never uses them.  Here the entry is dropped, the
\* promise not rejected.
BugTimeoutSilent(c) ==
  /\ c \in pending
  /\ pending' = pending \ {c}
  /\ UNCHANGED <<caller, nextId, settled, exitCode, buffers, result, signal, server>>

\* The timer of call c fires.
Timeout(c) ==
  /\ c \in pending
  /\ pending' = pending \ {c}
  /\ settled' = [settled EXCEPT ![c] = "timeout"]
  /\ UNCHANGED <<caller, nextId, exitCode, buffers, result, signal, server>>

\* handleLine on a response; the answer to a call that is not pending any more
\* is dropped.
HandleReply(line) ==
  /\ line.kind \in Responses
  /\ pending' = pending \ {line.call}
  /\ settled' = IF line.call \in pending
                  THEN [settled EXCEPT ![line.call] = line.kind] ELSE settled
  /\ UNCHANGED <<nextId, buffers>>

\* The first entry with the tool-call id of the update; 0 when there is none.
EntryOf(n) ==
  LET found == {i \in DOMAIN toolCalls : toolCalls[i].id = n}
  IN IF found = {} THEN 0 ELSE CHOOSE i \in found : \A j \in found : i <= j

\* The end of a tool call is not looked at.
BugUpdateIgnoresToolUpdate(line) ==
  /\ line.kind \in Updates
  /\ text' = IF sessionId /\ line.kind = "chunk" THEN Append(text, line) ELSE text
  /\ toolCalls' = IF sessionId /\ line.kind = "tool_call"
       THEN Append(toolCalls, [id |-> line.n, call |-> line.call,
                               status |-> "in_progress"])
       ELSE toolCalls
  /\ UNCHANGED <<table, sessionId>>

\* handleNotification: session/update of the current session is collected.
\* It carries no prompt; `call` is ours.
HandleUpdate(line) ==
  /\ line.kind \in Updates
  /\ text' = IF sessionId /\ line.kind = "chunk" THEN Append(text, line) ELSE text
  /\ toolCalls' =
       IF sessionId /\ line.kind = "tool_call" THEN
         Append(toolCalls, [id |-> line.n, call |-> line.call,
                            status |-> "in_progress"])
       ELSE IF sessionId /\ line.kind = "tool_call_update" /\ EntryOf(line.n) # 0 THEN
         [toolCalls EXCEPT ![EntryOf(line.n)].status = "completed"]
       ELSE toolCalls
  /\ UNCHANGED <<table, sessionId>>

ReadLine ==
  /\ stdout # <<>>
  /\ stdout' = Tail(stdout)
  /\ HandleReply(Head(stdout)) \/ HandleUpdate(Head(stdout))
  /\ UNCHANGED <<caller, exitCode, result, signal, child, stdin, working, sent>>

\* The map is left as it is.
BugExitLeavesPending ==
  /\ child = "dead"
  /\ ~exitCode
  /\ exitCode' = TRUE
  /\ UNCHANGED <<caller, table, buffers, result, signal, server>>

\* 'exit' is delivered, maybe before the last lines are read: every pending
\* call is rejected.
ExitEvent ==
  /\ child = "dead"
  /\ ~exitCode
  /\ exitCode' = TRUE
  /\ pending' = {}
  /\ settled' = [c \in Calls |-> IF c \in pending THEN "exit" ELSE settled[c]]
  /\ UNCHANGED <<caller, nextId, buffers, result, signal, server>>

-----------------------------------------------------------------------------
(* Shutdown                                                                *)

\* shutdown(), from the finally block of the caller: after a failure or when
\* it wants no more prompts.  Without the child it returns at once.
Shutdown ==
  /\ caller \in {"open", "failed"}
  /\ \/ exitCode /\ caller' = "closed" /\ UNCHANGED signal
     \/ ~exitCode /\ caller' = "closing" /\ signal' = "stdin"
  /\ UNCHANGED <<table, exitCode, buffers, result, server>>

\* waitForExit resolves.
WaitEnds ==
  /\ caller = "closing"
  /\ exitCode
  /\ caller' = "closed"
  /\ UNCHANGED <<table, exitCode, buffers, result, signal, server>>

\* The timer of SIGTERM ends the shutdown.
BugWaitTimesOutNoKill ==
  /\ caller = "closing"
  /\ ~exitCode
  /\ \/ signal = "stdin" /\ signal' = "SIGTERM" /\ UNCHANGED caller
     \/ signal = "SIGTERM" /\ caller' = "closed" /\ UNCHANGED signal
  /\ UNCHANGED <<table, exitCode, buffers, result, server>>

\* waitForExit times out: the next stronger means, and none after SIGKILL.
WaitTimesOut ==
  /\ caller = "closing"
  /\ ~exitCode
  /\ \/ signal = "stdin" /\ signal' = "SIGTERM" /\ UNCHANGED caller
     \/ signal = "SIGTERM" /\ signal' = "SIGKILL" /\ UNCHANGED caller
     \/ signal = "SIGKILL" /\ caller' = "closed" /\ UNCHANGED signal
  /\ UNCHANGED <<table, exitCode, buffers, result, server>>

-----------------------------------------------------------------------------
(* The child: AcpServer behind its pipes                                   *)

\* A request is read: a prompt is worked on, the others are answered.
ChildReads ==
  /\ child = "running"
  /\ stdin # <<>>
  /\ stdin' = Tail(stdin)
  /\ \/ /\ Head(stdin) > 2
        /\ working' = working \cup {Head(stdin)}
        /\ UNCHANGED stdout
     \/ /\ Head(stdin) <= 2
        /\ \E how \in Responses :
             stdout' = Append(stdout, Reply(Head(stdin), how))
        /\ UNCHANGED working
  /\ UNCHANGED <<caller, table, exitCode, buffers, result, signal, child, sent>>

\* A tool call of prompt c is open: it was reported, its end was not.
ToolOpen(c) == sent[c] # <<>> /\ sent[c][Len(sent[c])].kind = "tool_call"

\* The tool calls reported for prompt c.  Ids start over with every prompt, as
\* those of rehydrated calls do.
ToolsIn(s, k) == Cardinality({i \in 1..k : s[i].kind = "tool_call"})
ToolCount(c)  == ToolsIn(sent[c], Len(sent[c]))

\* A session/update of prompt c: text, or the start or the end of a tool call,
\* one call at a time.
ChildUpdates(c) ==
  /\ child = "running"
  /\ c \in working
  /\ Len(sent[c]) < MaxUpdates
  /\ \E u \in IF ToolOpen(c) THEN {Update("tool_call_update", c, ToolCount(c))}
              ELSE {Update("chunk", c, Len(sent[c]) + 1),
                    Update("tool_call", c, ToolCount(c) + 1)} :
       /\ sent' = [sent EXCEPT ![c] = Append(@, u)]
       /\ stdout' = Append(stdout, u)
  /\ UNCHANGED <<caller, table, exitCode, buffers, result, signal, child, stdin, working>>

\* Prompt c is answered: no tool call is open then (AcpServer,
\* ToolCallsClosedAtAnswer), and no update of it follows.
ChildAnswers(c) ==
  /\ child = "running"
  /\ c \in working
  /\ ~ToolOpen(c)
  /\ working' = working \ {c}
  /\ \E how \in Responses : stdout' = Append(stdout, Reply(c, how))
  /\ UNCHANGED <<caller, table, exitCode, buffers, result, signal, child, stdin, sent>>

\* The child ends: a crash, the end of its stdin, a signal.
ChildDies ==
  /\ child = "running"
  /\ child' = "dead"
  /\ UNCHANGED <<caller, table, exitCode, buffers, result, signal, stdin, working,
                 stdout, sent>>

-----------------------------------------------------------------------------
Client ==
  \/ Initialize \/ NewSession \/ Prompt \/ Resume \/ Fail
  \/ ReadLine \/ ExitEvent
  \/ \E c \in Calls : Timeout(c)
  \/ Shutdown \/ WaitEnds \/ WaitTimesOut

Child == ChildReads \/ ChildDies \/ \E c \in Calls : ChildUpdates(c) \/ ChildAnswers(c)

Next == Client \/ Child

\* Timers fire, continuations run, and the caller goes on to its finally
\* block; the child owes nothing, it need not even die.
Fairness ==
  /\ WF_vars(Initialize \/ NewSession \/ Resume \/ Fail)
  /\ WF_vars(Shutdown)
  /\ WF_vars(WaitEnds \/ WaitTimesOut)
  /\ \A c \in Calls : WF_vars(Timeout(c))

Spec == Init /\ [][Next]_vars /\ Fairness
-----------------------------------------------------------------------------
(* Properties                                                              *)

TypeOK ==
  /\ caller \in {"created", "initialize", "initialized", "session/new", "open",
                 "session/prompt", "failed", "closing", "closed"}
  /\ nextId \in 1..(MaxPrompts + 3)
  /\ pending \subseteq Calls
  /\ settled \in [Calls -> Outcomes]
  /\ exitCode \in BOOLEAN
  /\ sessionId \in BOOLEAN
  /\ signal \in Closing \cup {"none"}
  /\ child \in {"running", "dead"}
  /\ stdin \in Seq(Calls)
  /\ stdout \in Seq(Lines)
  /\ sent \in [Calls -> Seq(Lines)]
  /\ working \subseteq Calls

\* The map holds exactly the calls whose promise has not settled, and it is
\* empty once the exit of the child is known: no call is forgotten with a timer
\* left running, and none hangs on a dead child (acp-client.ts:117-125).
PendingIffUnsettled ==
  /\ pending = {c \in Made : settled[c] = "none"}
  /\ exitCode => pending = {}

\* Text t is what the first k updates of s say, in their order: the number of a chunk
\* is its place among the updates.
ChunksOf(t, s, k) ==
  /\ {t[i] : i \in DOMAIN t} = {s[i] : i \in {j \in 1..k : s[j].kind = "chunk"}}
  /\ \A i, j \in DOMAIN t : i < j => t[i].n < t[j].n

\* A prompt that returns has collected what the agent emitted for it and nothing
\* else, even if the child died behind its answer: every chunk, in order, and
\* every tool call with its end (the analyzers warn of tool calls by this list).
\* Holds for a caller that gives up at the first failure.
ResultIsComplete ==
  \A c \in Calls : result[c].returned =>
    /\ ChunksOf(result[c].text, sent[c], Len(sent[c]))
    /\ Len(result[c].toolCalls) = ToolCount(c)
    /\ \A i \in DOMAIN result[c].toolCalls :
         result[c].toolCalls[i] = [id |-> i, call |-> c, status |-> "completed"]

\* shutdown() returns to its caller when the child is gone, or after SIGKILL:
\* no child that merely ignores SIGTERM is left to run.
ClosedMeansGoneOrKilled ==
  caller = "closed" => exitCode \/ signal = "SIGKILL"

\* The inductive invariant behind PendingIffUnsettled and
\* ClosedMeansGoneOrKilled: calls not made yet are unsettled, the caller's
\* position bounds the calls made, and a caller in shutdown() has closed stdin.
ClientInv ==
  /\ TypeOK
  /\ PendingIffUnsettled
  /\ \A c \in Calls : c >= nextId => settled[c] = "none"
  /\ caller = "created" => nextId = 1
  /\ caller \in {"initialize", "initialized"} => nextId = 2
  /\ caller = "closing" => signal \in Closing
  /\ ClosedMeansGoneOrKilled

-----------------------------------------------------------------------------
(* The inductive invariant behind ResultIsComplete                         *)

\* The calls the child has not read, and the calls it has nothing to do for and
\* nothing more to say about but its answer: a call is read once, worked on once
\* and answered last.
Unread == {stdin[i] : i \in DOMAIN stdin}
Quiet  == {c \in Calls \ (working \cup Unread) : ~ToolOpen(c)}

AskedInv ==
  /\ \A i, j \in DOMAIN stdin : i # j => stdin[i] # stdin[j]
  /\ \A c \in Unread : c < nextId
  /\ \A c \in Calls : c \in working \/ sent[c] # <<>> =>
       2 < c /\ c < nextId /\ c \notin Unread

AnsweredInv ==
  /\ \A k \in DOMAIN stdout :
       /\ stdout[k].call < nextId
       /\ stdout[k].call \notin Unread
       /\ stdout[k].kind \in Responses =>
            /\ stdout[k].call \in Quiet
            /\ \A j \in DOMAIN stdout : j > k => stdout[j].call # stdout[k].call
  /\ \A c \in Calls : settled[c] = "result" =>
       /\ c \in Quiet
       /\ \A k \in DOMAIN stdout : stdout[k].call # c

WireInv == AskedInv /\ AnsweredInv

\* What the updates of a prompt look like.
SentInv ==
  \A c \in Calls : \A i \in DOMAIN sent[c] :
    /\ sent[c][i].call = c
    /\ sent[c][i].kind \in Updates
    /\ sent[c][i].kind = "chunk" => sent[c][i].n = i
    /\ sent[c][i].kind # "chunk" => sent[c][i].n = ToolsIn(sent[c], i)
    /\ sent[c][i].kind = "tool_call_update" <=>
         i > 1 /\ sent[c][i - 1].kind = "tool_call"

\* The calls the caller has behind it were answered well.
CallerInv ==
  /\ caller \in {"initialize", "session/new", "session/prompt"} =>
       \A c \in Calls : c < Awaited => settled[c] = "result"
  /\ caller \in {"initialized", "open"} =>
       \A c \in Calls : c <= Awaited => settled[c] = "result"
  /\ caller = "session/new" => nextId = 3
  /\ caller = "open" => nextId > 2 /\ sessionId
  /\ caller = "session/prompt" => nextId > 3 /\ sessionId

\* The first k updates of prompt c were read, and the buffers hold what they say;
\* the others are on their way, and behind them its answer or nothing.
ReadSoFar(c, k) ==
  /\ ChunksOf(text, sent[c], k)
  /\ Len(toolCalls) = ToolsIn(sent[c], k)
  /\ \A i \in DOMAIN toolCalls :
       toolCalls[i] = [id |-> i, call |-> c,
                       status |-> IF i = Len(toolCalls) /\ sent[c][k].kind = "tool_call"
                                    THEN "in_progress" ELSE "completed"]
  /\ Len(stdout) \in {Len(sent[c]) - k, Len(sent[c]) - k + 1}
  /\ \A i \in DOMAIN stdout :
       IF i <= Len(sent[c]) - k THEN stdout[i] = sent[c][k + i]
       ELSE stdout[i] \in {Reply(c, how) : how \in Responses}

Entries == [id : Nat, call : Calls, status : {"in_progress", "completed"}]

BuffersInv ==
  /\ text \in Seq(Lines)
  /\ toolCalls \in Seq(Entries)
  /\ caller = "session/prompt" => \E k \in 0..Len(sent[Awaited]) : ReadSoFar(Awaited, k)

\* What a prompt returned was answered first.
ResultsInv ==
  /\ DOMAIN result = Calls
  /\ \A c \in Calls : result[c].returned => settled[c] = "result"

CollectInv == WireInv /\ SentInv /\ CallerInv /\ BuffersInv /\ ResultsInv /\ ResultIsComplete

-----------------------------------------------------------------------------
\* The caller gets through its calls and its finally block, whatever the child
\* does: answers late or never, dies, ignores its stdin and SIGTERM.
CallerReturns == <>(caller = "closed")
=============================================================================
