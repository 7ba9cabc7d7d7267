----------------------------- MODULE AgentLoop ------------------------------
(***************************************************************************)
(* run(), packages/core/src/loop.ts, on one Session                        *)
(* (packages/core/src/session.ts), with normalizeAssistantMessage          *)
(* (packages/ai/src/provider.ts).                                          *)
(*                                                                         *)
(* A run suspends at two awaits only: the provider and executeTool.  A     *)
(* step is what run() does from one of them to the next, all of it         *)
(* synchronous: bus.emit calls its handlers before it returns.  Several    *)
(* runs may be made on one session, and they share its message buffer and  *)
(* its turn counter.                                                       *)
(*                                                                         *)
(* Message texts, tool names and results are reduced to what the           *)
(* properties tell apart.  The fields `run` and `from` say which run an    *)
(* event or a message comes from; the code keeps no such field.            *)
(***************************************************************************)
EXTENDS Integers, Sequences, FiniteSets

CONSTANTS
  NumRuns,      (* bound: calls of run() made on the session               *)
  MaxTurns,     (* options.maxTurns                                        *)
  MaxCalls,     (* bound: tool calls in one assistant message              *)
  Faults,       (* what the environment may do wrong, see FaultKinds       *)
  Overlapping   (* whether a run may start before the previous one settled *)

FaultKinds ==
  {"provider throws",   (* fetch fails, the status is not ok                *)
   "no message",        (* a 200 whose first choice has no message          *)
   "bad arguments",     (* native tool-call arguments that are not JSON     *)
   "tool throws",       (* the injected dispatcher rejects                  *)
   "long result"}       (* a tool result longer than the 200-char preview   *)

ASSUME LoopAssumption ==
  /\ NumRuns \in Nat
  /\ MaxTurns \in Nat
  /\ MaxCalls \in Nat
  /\ Faults \subseteq FaultKinds
  /\ Overlapping \in BOOLEAN

VARIABLES
  messages,   (* session.messages                                           *)
  turn,       (* session.turn                                               *)
  pc,         (* pc[r]: what run r awaits, or how its promise settled       *)
  at,         (* at[r]: the local variable `turn` of run r                  *)
  calls,      (* calls[r]: tool calls of the turn not answered yet; the one *)
              (* being executed is first                                    *)
  events      (* history: everything emitted on session.bus                 *)

loopVars == <<messages, turn, pc, at, calls, events>>

Runs    == 1..NumRuns
Settled == {"done", "failed"}
PCs     == {"idle", "provider", "tool"} \cup Settled

-----------------------------------------------------------------------------
(* Messages and events                                                     *)

\* A tool-call id: <<r, t, k>> when the provider issued it (these are unique),
\* <<0, t, k>> for `call_${turn}_${i}`.
Turns   == IF MaxTurns = 0 THEN {0} ELSE 0..(MaxTurns - 1)
CallIds == (0..NumRuns) \X Turns \X (1..MaxCalls)
NoCall  == <<>>

Msg(role, r, text, ids, answers) ==
  [role |-> role, from |-> r, text |-> text, calls |-> ids, answers |-> answers]

SystemMsg               == Msg("system", 0, "prompt", <<>>, NoCall)
UserMsg(r)              == Msg("user", r, "prompt", <<>>, NoCall)
AssistantMsg(r, c, ids) == Msg("assistant", r, c, ids, NoCall)
ToolMsg(r, id, res)     == Msg("tool", r, res, <<>>, id)

Ev(tag, r, data) == [tag |-> tag, run |-> r, data |-> data]

\* result.slice(0, TOOL_RESULT_PREVIEW_CHARS).
Preview(res) == IF res = "long" THEN "first 200 chars" ELSE res

\* What executeTool may come back with; "error" is the text made of a throw.
ToolResults ==
  {"short"} \cup (IF "long result" \in Faults THEN {"long"} ELSE {})
            \cup (IF "tool throws" \in Faults THEN {"error"} ELSE {})

ArgKinds == {"json"} \cup (IF "bad arguments" \in Faults THEN {"garbage"} ELSE {})

-----------------------------------------------------------------------------
(* The provider                                                            *)

\* An AssistantMessage: tool calls in tool_calls, or written as JSON in the
\* text (`inText` of them), or none.
Replies(r, t) ==
  {[text |-> "text", native |-> <<>>, inText |-> n] : n \in 0..MaxCalls}
  \cup
  {[text |-> "null", native |-> [k \in DOMAIN a |-> [id |-> <<r, t, k>>, args |-> a[k]]],
    inText |-> 0] : a \in UNION {[1..n -> ArgKinds] : n \in 1..MaxCalls}}

\* normalizeAssistantMessage: calls found in the text are given an id made of
\* the turn and their position, and JSON.stringify'd arguments.
Normalize(msg, t) ==
  IF msg.native = <<>> /\ msg.inText > 0
  THEN [text |-> "null", rehydrated |-> TRUE,
        calls |-> [k \in 1..msg.inText |-> [id |-> <<0, t, k>>, args |-> "json"]]]
  ELSE [text |-> msg.text, rehydrated |-> FALSE, calls |-> msg.native]

-----------------------------------------------------------------------------
(* What run() does between two awaits.  `log` is what it has emitted so    *)
(* far in the step.                                                        *)

\* The promise of run r settles; its locals are gone.
Finish(r, how, log) ==
  /\ pc' = [pc EXCEPT ![r] = how]
  /\ calls' = [calls EXCEPT ![r] = <<>>]
  /\ events' = log
  /\ UNCHANGED <<turn, at>>

\* The head of the for loop: one more request, or session:end when the turns
\* are used up.
BeginTurn(r, t, log) ==
  \/ /\ t < MaxTurns
     /\ turn' = t
     /\ at' = [at EXCEPT ![r] = t]
     /\ pc' = [pc EXCEPT ![r] = "provider"]
     /\ calls' = [calls EXCEPT ![r] = <<>>]
     /\ events' = Append(log, Ev("provider:request", r, <<t, Len(messages')>>))
  \/ /\ t >= MaxTurns
     /\ Finish(r, "done",
               Append(log, Ev("session:end", r, <<"max_turns", MaxTurns>>)))

\* The head of the loop over tool calls: JSON.parse throws out of run(), with
\* no event; otherwise executeTool is called.
BeginCall(r, cs, log) ==
  \/ /\ Head(cs).args = "garbage"
     /\ Finish(r, "failed", log)
  \/ /\ Head(cs).args = "json"
     /\ pc' = [pc EXCEPT ![r] = "tool"]
     /\ calls' = [calls EXCEPT ![r] = cs]
     /\ events' = Append(log, Ev("tool:start", r, Head(cs).id))
     /\ UNCHANGED <<turn, at>>

-----------------------------------------------------------------------------
(* Actions                                                                 *)

Init ==
  /\ messages = <<SystemMsg>>
  /\ turn = 0
  /\ pc = [r \in Runs |-> "idle"]
  /\ at = [r \in Runs |-> 0]
  /\ calls = [r \in Runs |-> <<>>]
  /\ events = <<>>

\* run() is called: the user message goes on the tape and the first turn
\* begins.  Runs are numbered in the order of the calls.
StartRun(r) ==
  /\ pc[r] = "idle"
  /\ \A q \in Runs : q < r => pc[q] # "idle"
  /\ Overlapping \/ \A q \in Runs : q < r => pc[q] \in Settled
  /\ messages' = Append(messages, UserMsg(r))
  /\ BeginTurn(r, 0, events \o <<Ev("session:start", r, 0), Ev("message:user", r, 0)>>)

\* Operators whose names start with Bug are faults the properties are tried
\* against; the specification never uses them.  Here the catch does not
\* rethrow: the loop goes on with the next turn.
BugProviderThrowsGoesOn(r) ==
  /\ "provider throws" \in Faults
  /\ pc[r] = "provider"
  /\ UNCHANGED messages
  /\ BeginTurn(r, at[r] + 1, Append(events, Ev("provider:error", r, at[r])))

\* provider() rejects: provider:error, and run() rethrows.
ProviderThrows(r) ==
  /\ "provider throws" \in Faults
  /\ pc[r] = "provider"
  /\ Finish(r, "failed", Append(events, Ev("provider:error", r, at[r])))
  /\ UNCHANGED messages

\* provider() resolves with undefined: normalizeAssistantMessage throws on it,
\* outside any try.
ProviderReturnsNoMessage(r) ==
  /\ "no message" \in Faults
  /\ pc[r] = "provider"
  /\ Finish(r, "failed", events)
  /\ UNCHANGED messages

\* The reply is pushed as the provider sent it, and emitted normalized.
BugProviderReplyPushedRaw(r, msg) ==
  /\ pc[r] = "provider"
  /\ LET norm == Normalize(msg, at[r])
         ids  == [k \in DOMAIN norm.calls |-> norm.calls[k].id]
         log  == events \o
                   <<Ev("provider:response", r, <<at[r], msg.text, norm.rehydrated>>),
                     Ev("message:assistant", r, <<norm.text, ids>>)>>
     IN /\ messages' = Append(messages, AssistantMsg(r, msg.text, ids))
        /\ \/ norm.calls # <<>> /\ BeginCall(r, norm.calls, log)
           \/ /\ norm.calls = <<>>
              /\ Finish(r, "done",
                        Append(log, Ev("session:end", r, <<"model_done", at[r] + 1>>)))

\* provider() resolves: the reply is emitted and pushed, then its tool calls
\* begin, or the run ends because there is none.
ProviderReplies(r, msg) ==
  /\ pc[r] = "provider"
  /\ LET norm == Normalize(msg, at[r])
         ids  == [k \in DOMAIN norm.calls |-> norm.calls[k].id]
         log  == events \o
                   <<Ev("provider:response", r, <<at[r], msg.text, norm.rehydrated>>),
                     Ev("message:assistant", r, <<norm.text, ids>>)>>
     IN /\ messages' = Append(messages, AssistantMsg(r, norm.text, ids))
        /\ \/ norm.calls # <<>> /\ BeginCall(r, norm.calls, log)
           \/ /\ norm.calls = <<>>
              /\ Finish(r, "done",
                        Append(log, Ev("session:end", r, <<"model_done", at[r] + 1>>)))

\* The catch around executeTool goes on without a tool message.
BugToolThrowNotPushed(r, res) ==
  /\ pc[r] = "tool"
  /\ LET id   == Head(calls[r]).id
         rest == Tail(calls[r])
         log  == Append(events,
                   IF res = "error" THEN Ev("tool:error", r, <<id, res>>)
                                    ELSE Ev("tool:end", r, <<id, Preview(res)>>))
     IN /\ messages' = IF res = "error" THEN messages
                                        ELSE Append(messages, ToolMsg(r, id, res))
        /\ \/ rest # <<>> /\ BeginCall(r, rest, log)
           \/ rest = <<>> /\ BeginTurn(r, at[r] + 1, log)

\* executeTool settles: its event, its tool message, then the next call of the
\* turn or the next turn.
ToolSettles(r, res) ==
  /\ pc[r] = "tool"
  /\ LET id   == Head(calls[r]).id
         rest == Tail(calls[r])
         log  == Append(events,
                   IF res = "error" THEN Ev("tool:error", r, <<id, res>>)
                                    ELSE Ev("tool:end", r, <<id, Preview(res)>>))
     IN /\ messages' = Append(messages, ToolMsg(r, id, res))
        /\ \/ rest # <<>> /\ BeginCall(r, rest, log)
           \/ rest = <<>> /\ BeginTurn(r, at[r] + 1, log)

\* What a suspended run does next.
Resume(r) ==
  \/ ProviderThrows(r)
  \/ ProviderReturnsNoMessage(r)
  \/ \E msg \in Replies(r, at[r]) : ProviderReplies(r, msg)
  \/ \E res \in ToolResults : ToolSettles(r, res)

Next == \E r \in Runs : StartRun(r) \/ Resume(r)

\* The environment answers: a request to the provider ends, with a reply or
\* an error, and so does a tool.  run() itself sets no timeout on either.
Fairness == \A r \in Runs : WF_loopVars(Resume(r))

Spec == Init /\ [][Next]_loopVars /\ Fairness
-----------------------------------------------------------------------------
(* Properties                                                              *)

Emitted(r, tags) == SelectSeq(events, LAMBDA e : e.run = r /\ e.tag \in tags)

Texts == {"prompt", "text", "null", "short", "long", "error"}

Message ==
  [role : {"system", "user", "assistant", "tool"}, from : 0..NumRuns, text : Texts,
   calls : Seq(CallIds), answers : CallIds \cup {NoCall}]

ToolCall == [id : CallIds, args : {"json", "garbage"}]

TypeOK ==
  /\ messages \in Seq(Message)
  /\ turn \in Turns
  /\ pc \in [Runs -> PCs]
  /\ at \in [Runs -> Turns]
  /\ calls \in [Runs -> Seq(ToolCall)]
  /\ \A i \in 1..Len(events) : events[i].run \in Runs

\* The calls of message i are answered by the messages right behind it, in order.
CallsAnswered(ms, i) ==
  \A k \in DOMAIN ms[i].calls :
    i + k \in DOMAIN ms /\ ms[i + k].answers = ms[i].calls[k]

\* A tool message answers a call of a message that stands so many places before.
IsAnswer(ms, i) ==
  ms[i].role = "tool" =>
    \E k \in 1..(i - 1) :
      k \in DOMAIN ms[i - k].calls /\ ms[i - k].calls[k] = ms[i].answers

\* Every tool call of an assistant message is answered by the tool messages
\* right behind it, in order, and a tool message stands nowhere else: what a
\* chat-completions provider demands of the messages it is sent.
Answered(ms) == \A i \in DOMAIN ms : CallsAnswered(ms, i) /\ IsAnswer(ms, i)

\* No two tool calls of one run have the same id, so a tool:end or a
\* tool message is never taken for the answer to another call of the run.
CallIdsUniqueWithinRun ==
  \A i, j \in DOMAIN messages :
    messages[i].from = messages[j].from =>
      \A k \in DOMAIN messages[i].calls, l \in DOMAIN messages[j].calls :
        messages[i].calls[k] = messages[j].calls[l] => i = j /\ k = l

\* Every request is made with a well-formed history (loop.ts:114 sends
\* session.messages as it stands), in which no two calls of one run have the
\* same id.  Tools that throw and providers that fail in an earlier run of the
\* session leave nothing unanswered behind.
RequestsWellFormed ==
  \A r \in Runs : pc[r] = "provider" =>
    Answered(messages) /\ CallIdsUniqueWithinRun

\* Which of the first i messages run r wrote, the n-th of them, and all of them in
\* their order.
Wrote(ms, r, i) == {j \in 1..i : ms[j].from = r}
Nth(ms, r, n)   == {i \in Wrote(ms, r, Len(ms)) : Cardinality(Wrote(ms, r, i)) = n}
Own(ms, r) ==
  [n \in 1..Cardinality(Wrote(ms, r, Len(ms))) |-> ms[CHOOSE i \in Nth(ms, r, n) : TRUE]]

\* With runs overlapping on one session the same holds of the part of the
\* history a run wrote itself, also of what it leaves behind when it ends by
\* itself (loop.ts:172-177), whatever the other runs pushed in between.
OwnHistoryWellFormed ==
  \A r \in Runs : pc[r] \in {"provider", "done"} => Answered(Own(messages, r))

\* Which event of a run comes next (the event table of core/README.md, and the
\* sequences type-smoke/loop-end-to-end.ts asserts).
Follows ==
  {<<"session:start", "message:user">>,
   <<"message:user", "provider:request">>, <<"message:user", "session:end">>,
   <<"provider:request", "provider:response">>, <<"provider:request", "provider:error">>,
   <<"provider:response", "message:assistant">>,
   <<"message:assistant", "tool:start">>, <<"message:assistant", "session:end">>}
  \cup {<<"tool:start", done>> : done \in {"tool:end", "tool:error"}}
  \cup ({"tool:end", "tool:error"} \X {"tool:start", "provider:request", "session:end"})

\* Of the events of its run, event j is the last before event i.
ComesBefore(es, j, i) ==
  /\ es[j].run = es[i].run
  /\ \A k \in (j + 1)..(i - 1) : es[k].run # es[i].run

GoesWith(es, j, i) ==
  /\ ComesBefore(es, j, i)
  /\ <<es[j].tag, es[i].tag>> \in Follows
  /\ es[i].tag \in {"tool:end", "tool:error"} => es[i].data[1] = es[j].data

\* Event i is the first of its run, or goes with the one before it.
InPlace(es, i) ==
  \/ /\ es[i].tag = "session:start"
     /\ \A j \in 1..(i - 1) : es[j].run # es[i].run
  \/ \E d \in 1..(i - 1) : GoesWith(es, i - d, i)

Grammatical(es) == \A i \in DOMAIN es : InPlace(es, i)

\* The events of one run follow the grammar, from session:start on, whatever
\* other runs of the session emit in between, and a tool:end or tool:error
\* names the call that was started last.
EventGrammar == Grammatical(events)

\* The message an event stands for.
MessageOf(e) ==
  CASE e.tag = "message:user"      -> UserMsg(e.run)
    [] e.tag = "message:assistant" -> AssistantMsg(e.run, e.data[1], e.data[2])
    [] OTHER                       -> ToolMsg(e.run, e.data[1], e.data[2])

\* The events that stand for a message, and how many of the first n do.
OnTape       == {"message:user", "message:assistant", "tool:end", "tool:error"}
Taped(es, n) == {i \in 1..n : es[i].tag \in OnTape}
Tape(es, n)  == Cardinality(Taped(es, n))

\* The conversation as an auditor rebuilds it from the events: behind the system
\* prompt, the n-th message is the one the n-th of them stands for.
Tells(es, ms) ==
  /\ Len(ms) = 1 + Tape(es, Len(es))
  /\ ms[1] = SystemMsg
  /\ \A i \in DOMAIN es : es[i].tag \in OnTape => ms[1 + Tape(es, i)] = MessageOf(es[i])

\* "From the log alone, an auditor can reconstruct any state the session was in
\* at any point" (adrs/ADR-005-context-ownership-and-observability.md:22): the
\* events emitted so far determine the message buffer, in its order.
EventsReconstructHistory == Tells(events, messages)

-----------------------------------------------------------------------------
(* Inductive invariants                                                    *)

\* Event i is the last one of run r.
IsLast(es, r, i) ==
  /\ i \in DOMAIN es
  /\ es[i].run = r
  /\ \A j \in DOMAIN es : j > i => es[j].run # r

\* What run r awaits, with calls cs to answer, can be told from its last event.
Fits(es, r, awaits, cs) ==
  /\ awaits = "idle" => \A i \in DOMAIN es : es[i].run # r
  /\ awaits = "provider" =>
       \E i \in DOMAIN es : IsLast(es, r, i) /\ es[i].tag = "provider:request"
  /\ awaits = "tool" =>
       \E i \in DOMAIN es :
         /\ IsLast(es, r, i) /\ es[i].tag = "tool:start"
         /\ cs # <<>> /\ es[i].data = Head(cs).id

\* Behind EventGrammar.
GrammarInv == EventGrammar /\ \A r \in Runs : Fits(events, r, pc[r], calls[r])

\* One message has calls that are not answered, and they are cs.
AnsweredUpTo(ms, cs) ==
  /\ \A j \in DOMAIN ms : IsAnswer(ms, j)
  /\ \E i \in DOMAIN ms :
       /\ \A j \in DOMAIN ms \ {i} : CallsAnswered(ms, j)
       /\ Len(ms[i].calls) = (Len(ms) - i) + Len(cs)
       /\ \A k \in DOMAIN ms[i].calls :
            IF k <= Len(ms) - i THEN ms[i + k].answers = ms[i].calls[k]
                                ELSE cs[k - (Len(ms) - i)].id = ms[i].calls[k]

\* Behind RequestsWellFormed: while a tool is executed just its calls are open.
AnswersInv ==
  /\ (\A r \in Runs : pc[r] # "tool") => Answered(messages)
  /\ \A r \in Runs : pc[r] = "tool" => AnsweredUpTo(messages, calls[r])
  /\ \A r \in Runs : \A k \in DOMAIN calls[r] : calls[r][k].args = "json"
  /\ \A q, r \in Runs :
       q < r /\ pc[r] # "idle" => pc[q] \in Settled

\* Behind OwnHistoryWellFormed: what AnswersInv says, of the messages of each run,
\* none of which is lost by picking them out.
OwnInv ==
  \A r \in Runs :
    /\ \A n \in 1..Cardinality(Wrote(messages, r, Len(messages))) : Nth(messages, r, n) # {}
    /\ pc[r] = "idle" => Own(messages, r) = <<>>
    /\ pc[r] \in {"provider", "done"} => Answered(Own(messages, r))
    /\ pc[r] = "tool" => AnsweredUpTo(Own(messages, r), calls[r])

\* An id names its turn and its place, and a turn has one message with calls.
CallIdsInv ==
  /\ \A i \in DOMAIN messages : \A k \in DOMAIN messages[i].calls :
       LET r == messages[i].from  id == messages[i].calls[k]
       IN /\ r \in Runs /\ pc[r] # "idle"
          /\ id[3] = k
          /\ id[2] <= at[r] /\ (pc[r] = "provider" => id[2] < at[r])
  /\ \A i, j \in DOMAIN messages : messages[i].from = messages[j].from =>
       \A k \in DOMAIN messages[i].calls, l \in DOMAIN messages[j].calls :
         messages[i].calls[k][2] = messages[j].calls[l][2] => i = j

\* A run awaits something p in turn t, with calls cs to answer and n messages on
\* the tape: it is past event e.
IsPast(e, p, t, cs, n) ==
  LET Over(u) == u \in 0..t /\ (p = "provider" => u < t)
      Up(id)  == Over(id[2]) /\ (p = "tool" /\ id[2] = t => id[3] \in 1..Head(cs).id[3])
  IN /\ p # "idle"
     /\ e.tag = "provider:request"  => e.data[2] \in 0..n
     /\ e.tag = "provider:response" => Over(e.data[1])
     /\ e.tag = "message:assistant" =>
          IF e.data[2] = <<>> THEN p = "done" ELSE Over(e.data[2][1][2])
     /\ e.tag = "tool:start" => Up(e.data)
     /\ e.tag \in {"tool:end", "tool:error"} =>
          Up(e.data[1]) /\ ~(p = "tool" /\ e.data[1] = Head(cs).id)
     /\ e.tag = "provider:error" => p = "failed"
     /\ e.tag = "session:end"    => p = "done"

\* Behind what is said of a log of the events: no event is emitted twice, since a
\* run is past all of its own, and one that is done has said so.
NoneTwice(es) == \A i, j \in DOMAIN es : es[i] = es[j] => i = j

CallsAscend(r) ==
  pc[r] = "tool" => \A k \in DOMAIN calls[r] :
    calls[r][k].id[2] = at[r] /\ calls[r][k].id[3] = Head(calls[r]).id[3] + k - 1

PastInv ==
  /\ NoneTwice(events)
  /\ \A r \in Runs : CallsAscend(r)
  /\ \A i \in DOMAIN events :
       LET r == events[i].run IN IsPast(events[i], pc[r], at[r], calls[r], Len(messages))
  /\ \A r \in Runs : pc[r] = "done" =>
       \E i \in DOMAIN events : events[i].run = r /\ events[i].tag = "session:end"

-----------------------------------------------------------------------------
\* "Emitted exactly once per `run` call" (packages/core/README.md:102, of
\* session:end), for the runs that have settled.
SessionEndOncePerRun ==
  \A r \in Runs : pc[r] \in Settled => Len(Emitted(r, {"session:end"})) = 1
=============================================================================
