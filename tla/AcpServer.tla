----------------------------- MODULE AcpServer ------------------------------
(***************************************************************************)
(* MirepoixAgent, packages/acp/src/index.ts, over AgentLoop: the handlers  *)
(* of session/new, session/prompt and session/cancel for one session, with *)
(* its JSONL logger (packages/core/src/log.ts) and the bus subscriptions   *)
(* that turn events into session/update notifications.  Sessions share no  *)
(* state, so one stands for any number.                                    *)
(*                                                                         *)
(* Handlers are async functions on one thread: a session/prompt is         *)
(* suspended while its run is, and anything else may be handled meanwhile, *)
(* a cancel or, when the client does not wait (Overlapping), another       *)
(* prompt.  Prompt p makes run p.                                          *)
(***************************************************************************)
EXTENDS AgentLoop

VARIABLES
  session,   (* "none", "open" (in the sessions map), "deleted"             *)
  ctrl,      (* state.abortController: the prompt that made it, 0 for null  *)
  aborted,   (* prompts whose controller has been aborted                   *)
  subs,      (* prompts whose bus subscriptions are in place                *)
  answer,    (* answer[p]: "none" before p arrives, "pending", the          *)
             (* stopReason it is answered with, or "error"                  *)
  logging,   (* whether the logger is subscribed                            *)
  log,       (* the lines of <sessionId>.jsonl                              *)
  updates    (* the session/update notifications sent, each with the place  *)
             (* of its event in the history, which is their order; `copies` *)
             (* are the subscriptions that sent it                          *)

serverVars == <<session, ctrl, aborted, subs, answer, logging, log, updates>>
acpVars    == <<loopVars, serverVars>>

Prompts == Runs
Answers == {"end_turn", "cancelled", "error"}
Header  == Ev("session:log-init", 0, 0)

\* AbortController.abort() on state.abortController, if there is one.
Abort == aborted \cup (IF ctrl = 0 THEN {} ELSE {ctrl})

-----------------------------------------------------------------------------
(* Subscribers of the session's bus                                        *)

NewEvents == SubSeq(events', Len(events) + 1, Len(events'))

\* createSessionLogger: one line per event while it is subscribed.
LogNewEvents == log' = IF logging THEN log \o NewEvents ELSE log

\* subscribeBus: the raw text of a reply, when there is one, and the start and
\* the end of each tool call.
Forwarded(e) ==
  \/ e.tag = "provider:response" /\ e.data[2] # "null"
  \/ e.tag \in {"tool:start", "tool:end", "tool:error"}

SendUpdates ==
  updates' = updates \cup
    {[nr |-> i, event |-> events'[i], copies |-> subs] :
       i \in {j \in (Len(events) + 1)..Len(events') : subs # {} /\ Forwarded(events'[j])}}

-----------------------------------------------------------------------------
(* Actions                                                                 *)

AcpInit ==
  /\ Init
  /\ session = "none"
  /\ ctrl = 0
  /\ aborted = {}
  /\ subs = {}
  /\ answer = [p \in Prompts |-> "none"]
  /\ logging = FALSE
  /\ log = <<>>
  /\ updates = {}

\* session/new: the log file gets its header, the logger is subscribed, the
\* session enters the map.
NewSession ==
  /\ session = "none"
  /\ session' = "open"
  /\ logging' = TRUE
  /\ log' = <<Header>>
  /\ UNCHANGED <<loopVars, ctrl, aborted, subs, answer, updates>>

\* Prompts are numbered in the order they arrive; a client that waits sends the
\* next one when the last is answered.
Arrives(p) ==
  /\ session # "none"
  /\ answer[p] = "none"
  /\ \A q \in Prompts : q < p => answer[q] # "none"
  /\ Overlapping \/ \A q \in Prompts : answer[q] # "pending"

PromptUnknownSession(p) ==
  /\ Arrives(p)
  /\ session = "deleted"
  /\ answer' = [answer EXCEPT ![p] = "error"]
  /\ UNCHANGED <<loopVars, session, ctrl, aborted, subs, logging, log, updates>>

\* session/prompt up to the await of run(): the controller found is aborted and
\* replaced, the bus subscribed to, the run started.
Prompt(p) ==
  /\ Arrives(p)
  /\ session = "open"
  /\ StartRun(p)
  /\ aborted' = Abort
  /\ ctrl' = p
  /\ subs' = subs \cup {p}
  /\ answer' = [answer EXCEPT ![p] = "pending"]
  /\ LogNewEvents
  /\ SendUpdates
  /\ UNCHANGED <<session, logging>>

\* The run of prompt p goes on.  Nothing tells it of a cancel.
LoopStep(p) ==
  /\ Resume(p)
  /\ LogNewEvents
  /\ SendUpdates
  /\ UNCHANGED <<session, ctrl, aborted, subs, answer, logging>>

\* Operators whose names start with Bug are faults the properties are tried
\* against; the specification never uses them.  Here the signal is not
\* looked at.
BugStopReasonIgnoresSignal(p) == IF pc[p] = "failed" THEN "error" ELSE "end_turn"

\* What session/prompt comes back with: the failure of its run, else what the
\* controller says that is in the session state now; a null one throws.
StopReason(p) ==
  IF pc[p] = "failed" \/ ctrl = 0 THEN "error"
  ELSE IF ctrl \in aborted THEN "cancelled" ELSE "end_turn"

\* The finally block does not unsubscribe.
BugAnswerStaysSubscribed(p) ==
  /\ answer[p] = "pending"
  /\ pc[p] \in Settled
  /\ answer' = [answer EXCEPT ![p] = StopReason(p)]
  /\ ctrl' = 0
  /\ UNCHANGED <<loopVars, session, aborted, subs, logging, log, updates>>

\* The finally block disposes of the logger too.
BugAnswerStopsLog(p) ==
  /\ answer[p] = "pending"
  /\ pc[p] \in Settled
  /\ answer' = [answer EXCEPT ![p] = StopReason(p)]
  /\ subs' = subs \ {p}
  /\ ctrl' = 0
  /\ logging' = FALSE
  /\ UNCHANGED <<loopVars, session, aborted, log, updates>>

\* A prompt whose controller is gone is taken for one that has its answer.
BugAnswerNeedsController(p) ==
  /\ answer[p] = "pending"
  /\ pc[p] \in Settled
  /\ ctrl # 0
  /\ answer' = [answer EXCEPT ![p] = StopReason(p)]
  /\ subs' = subs \ {p}
  /\ ctrl' = 0
  /\ UNCHANGED <<loopVars, session, aborted, logging, log, updates>>

\* The run is raced against the abort signal.
BugAnswerOnAbort(p) ==
  /\ answer[p] = "pending"
  /\ pc[p] \in Settled \/ p \in aborted
  /\ answer' = [answer EXCEPT ![p] = StopReason(p)]
  /\ subs' = subs \ {p}
  /\ ctrl' = 0
  /\ UNCHANGED <<loopVars, session, aborted, logging, log, updates>>

\* session/prompt from the await on; in every case the finally block
\* unsubscribes and nulls the controller.
Answer(p) ==
  /\ answer[p] = "pending"
  /\ pc[p] \in Settled
  /\ answer' = [answer EXCEPT ![p] = StopReason(p)]
  /\ subs' = subs \ {p}
  /\ ctrl' = 0
  /\ UNCHANGED <<loopVars, session, aborted, logging, log, updates>>

\* The controller is left alone.
BugCancelWithoutAbort ==
  /\ session = "open"
  /\ logging' = FALSE
  /\ session' = "deleted"
  /\ UNCHANGED <<loopVars, ctrl, aborted, subs, answer, log, updates>>

\* session/cancel: the controller is aborted, the logger unsubscribed, the
\* session leaves the map.  A cancel of an unknown session does nothing.
Cancel ==
  /\ session = "open"
  /\ aborted' = Abort
  /\ logging' = FALSE
  /\ session' = "deleted"
  /\ UNCHANGED <<loopVars, ctrl, subs, answer, log, updates>>

AcpNext ==
  \/ NewSession
  \/ Cancel
  \/ \E p \in Prompts :
       PromptUnknownSession(p) \/ Prompt(p) \/ LoopStep(p) \/ Answer(p)

\* Continuations run, and the provider and the tools answer (see AgentLoop);
\* the client owes nothing.
AcpFairness == \A p \in Prompts : WF_acpVars(LoopStep(p)) /\ WF_acpVars(Answer(p))

AcpSpec == AcpInit /\ [][AcpNext]_acpVars /\ AcpFairness

-----------------------------------------------------------------------------
(* Properties                                                              *)

AcpTypeOK ==
  /\ session \in {"none", "open", "deleted"}
  /\ ctrl \in Prompts \cup {0}
  /\ aborted \subseteq Prompts
  /\ subs \subseteq Prompts
  /\ answer \in [Prompts -> Answers \cup {"none", "pending"}]
  /\ logging \in BOOLEAN
  /\ \A u \in updates : u.copies \in (SUBSET Prompts) \ {{}}

\* A cancel aborts the prompt that is in flight when it arrives, and no prompt
\* that has been answered or is still to come.  Holds for a client that waits for
\* its answers.
CancelReachesInFlight ==
  [][session = "open" /\ session' = "deleted" =>
       \A p \in Prompts :
         p \in aborted' <=> p \in aborted \/ answer[p] = "pending"]_acpVars

\* A prompt is answered "cancelled" exactly when its controller was aborted
\* before the answer, and "end_turn" when it was not (index.ts:149).  Holds for
\* a client that waits.
StopReasonIsOwn ==
  \A p \in Prompts : answer[p] \in {"end_turn", "cancelled"} =>
    (answer[p] = "cancelled" <=> p \in aborted)

\* The client is sent every update once, by the subscription of the prompt
\* whose run it is about.  Holds for a client that waits.
UpdatesSentOnce == \A u \in updates : u.copies = {u.event.run}

\* Update v tells prompt p's client of the end of the tool call that u started.
Closes(v, u, p) ==
  /\ v.nr > u.nr
  /\ v.event.run = p
  /\ v.event.tag \in {"tool:end", "tool:error"}
  /\ v.event.data[1] = u.event.data
  /\ p \in v.copies

\* When a prompt is answered no tool call of its run is left in_progress at the
\* client: each tool_call sent for it was followed by its tool_call_update.
ToolCallsClosedAtAnswer ==
  \A p \in Prompts : answer[p] \in Answers =>
    \A u \in updates : u.event.run = p /\ u.event.tag = "tool:start" =>
      \E v \in updates : Closes(v, u, p)

\* The file holds the header and the events up to a point; up to now, as long
\* as the session is open, over all of its prompts.
LogFollowsEvents ==
  session # "none" =>
    /\ Len(log) <= Len(events) + 1
    /\ log = SubSeq(<<Header>> \o events, 1, Len(log))
    /\ session = "open" => Len(log) = Len(events) + 1

\* "The log records every event the harness emitted"
\* (adrs/ADR-005-context-ownership-and-observability.md:22).
LogRecordsEveryEvent == session # "none" => log = <<Header>> \o events

\* Every prompt gets an answer, a cancelled or a superseded one too.
EveryPromptAnswered ==
  \A p \in Prompts : answer[p] = "pending" ~> answer[p] \in Answers

-----------------------------------------------------------------------------
(* Inductive invariants                                                    *)

\* A prompt has its subscriptions and its run for as long as it is in flight.
PendingInv ==
  \A p \in Prompts :
    /\ answer[p] = "none" => pc[p] = "idle"
    /\ pc[p] \in {"provider", "tool"} => answer[p] = "pending"
    /\ p \in subs <=> answer[p] = "pending"
    /\ session = "none" => answer[p] = "none"

\* A client that waits has one prompt in flight, and the controller is its own.
OneInFlight ==
  /\ \A p \in Prompts : answer[p] = "pending" => ctrl = p
  /\ ctrl # 0 => answer[ctrl] = "pending"
  /\ \A p \in aborted : answer[p] # "none"

\* A tool call that is open at the client is the one its run awaits.
OpenUpdatesInv ==
  \A u \in updates :
    /\ u.nr \in DOMAIN events /\ u.event = events[u.nr]
    /\ u.event.tag = "tool:start" =>
         \/ \E v \in updates : Closes(v, u, u.event.run)
         \/ pc[u.event.run] = "tool" /\ u.event.data = Head(calls[u.event.run]).id

\* Line by line, what LogFollowsEvents says of the file.
LogInv ==
  /\ logging <=> session = "open"
  /\ session = "none" => events = <<>>
  /\ session # "none" =>
       /\ Len(log) \in 1..(Len(events) + 1) /\ log[1] = Header
       /\ \A i \in 1..(Len(log) - 1) : log[i + 1] = events[i]
       /\ session = "open" => Len(log) = Len(events) + 1
=============================================================================
