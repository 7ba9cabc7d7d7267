--------------------------- MODULE AcpServerProofs --------------------------
(***************************************************************************)
(* Proofs about AcpServer, over those about AgentLoop: any number of       *)
(* prompts, of turns and of tool calls, and any faults of the environment. *)
(* The run behind a prompt takes its steps as AgentLoop says, so what is   *)
(* invariant of the session's runs is invariant of the server.             *)
(***************************************************************************)
EXTENDS AcpServer, AgentLoopProofs

\* Every step of the server is a step of the loop it drives, or leaves the loop alone.
LEMMA StepOfLoop == [AcpNext]_acpVars => [Next]_loopVars
BY DEF AcpNext, acpVars, NewSession, Cancel, PromptUnknownSession, Prompt, LoopStep,
       Answer, Next, Prompts, serverVars

-----------------------------------------------------------------------------
(* Runs and prompts                                                        *)

\* A prompt that is answered at all starts its run, and moves no other.
LEMMA PromptShape ==
  ASSUME LoopInv, NEW p \in Prompts, Prompt(p)
  PROVE  /\ Elsewhere(p) /\ pc[p] = "idle" /\ pc'[p] \in {"provider", "done"}
         /\ Emits(events, events', p) /\ Announced(p)
BY StartRunShape, StartRunEmits DEF LoopInv, LoopTypes, Prompts, Prompt

SrvInv == LoopInv /\ AcpTypeOK /\ PendingInv

\* A new server has answered nothing.
LEMMA SrvInit == AcpInit => SrvInv
<1> SUFFICES ASSUME AcpInit PROVE SrvInv
  OBVIOUS
<1>1. LoopInv
  BY LoopInvInit DEF AcpInit
<1>2. AcpTypeOK
  BY DEF AcpInit, AcpTypeOK
<1>3. PendingInv
  BY DEF AcpInit, PendingInv, Init, Prompts
<1> QED
  BY <1>1, <1>2, <1>3 DEF SrvInv

\* What an update is sent to: subscriptions that are in place.
LEMMA UpdateTypes ==
  ASSUME AcpTypeOK, SendUpdates
  PROVE  \A u \in updates' : u.copies \in (SUBSET Prompts) \ {{}}
BY DEF AcpTypeOK, SendUpdates

\* Every step of the server keeps prompts, runs and answers together.
LEMMA SrvNext == SrvInv /\ [AcpNext]_acpVars => SrvInv'
<1> SUFFICES ASSUME SrvInv, [AcpNext]_acpVars PROVE SrvInv'
  OBVIOUS
<1>0. LoopInv /\ AcpTypeOK /\ PendingInv
  BY DEF SrvInv
<1>1. LoopInv'
  BY <1>0, StepOfLoop, LoopInvNext
<1> SUFFICES AcpTypeOK' /\ PendingInv'
  BY <1>1 DEF SrvInv
<1>2. CASE UNCHANGED acpVars
  BY <1>0, <1>2 DEF acpVars, serverVars, loopVars, AcpTypeOK, PendingInv
<1>3. CASE NewSession
  BY <1>0, <1>3 DEF NewSession, loopVars, AcpTypeOK, PendingInv
<1>4. CASE Cancel
  BY <1>0, <1>4 DEF Cancel, Abort, loopVars, AcpTypeOK, PendingInv
<1>5. ASSUME NEW p \in Prompts, PromptUnknownSession(p) PROVE AcpTypeOK' /\ PendingInv'
  <2>1. /\ answer[p] = "none" /\ answer' = [answer EXCEPT ![p] = "error"]
        /\ session \notin {"none"}
        /\ UNCHANGED <<loopVars, session, ctrl, aborted, subs, logging, log, updates>>
    BY <1>5 DEF PromptUnknownSession, Arrives
  <2> QED
    BY <1>0, <2>1 DEF loopVars, AcpTypeOK, PendingInv, Answers
<1>6. ASSUME NEW p \in Prompts, Prompt(p) PROVE AcpTypeOK' /\ PendingInv'
  <2>1. /\ Elsewhere(p) /\ pc'[p] \in {"provider", "done"}
    BY <1>0, <1>6, PromptShape
  <2>2. /\ session = "open" /\ answer[p] = "none" /\ aborted' = Abort /\ ctrl' = p
        /\ subs' = subs \cup {p} /\ answer' = [answer EXCEPT ![p] = "pending"]
        /\ UNCHANGED <<session, logging>>
    BY <1>6 DEF Prompt, Arrives
  <2>3. \A u \in updates' : u.copies \in (SUBSET Prompts) \ {{}}
    BY <1>0, <1>6, UpdateTypes DEF Prompt
  <2>4. AcpTypeOK'
    BY <1>0, <2>2, <2>3 DEF AcpTypeOK, Abort
  <2>5. PendingInv'
    BY <1>0, <2>1, <2>2 DEF PendingInv, Elsewhere, AcpTypeOK, Prompts
  <2> QED
    BY <2>4, <2>5
<1>7. ASSUME NEW p \in Prompts, LoopStep(p) PROVE AcpTypeOK' /\ PendingInv'
  <2>1. /\ Elsewhere(p) /\ pc[p] \in {"provider", "tool"}
    BY <1>0, <1>7, ResumeShape DEF LoopStep, Prompts
  <2>2. UNCHANGED <<session, ctrl, aborted, subs, answer, logging>>
    BY <1>7 DEF LoopStep
  <2>3. \A u \in updates' : u.copies \in (SUBSET Prompts) \ {{}}
    BY <1>0, <1>7, UpdateTypes DEF LoopStep
  <2>4. AcpTypeOK'
    BY <1>0, <2>2, <2>3 DEF AcpTypeOK
  <2>5. PendingInv'
    BY <1>0, <2>1, <2>2 DEF PendingInv, Elsewhere, Prompts
  <2> QED
    BY <2>4, <2>5
<1>8. ASSUME NEW p \in Prompts, Answer(p) PROVE AcpTypeOK' /\ PendingInv'
  <2>1. /\ answer[p] = "pending" /\ pc[p] \in Settled
        /\ answer' = [answer EXCEPT ![p] = StopReason(p)]
        /\ subs' = subs \ {p} /\ ctrl' = 0
        /\ UNCHANGED <<loopVars, session, aborted, logging, log, updates>>
    BY <1>8 DEF Answer
  <2>2. StopReason(p) \in Answers
    BY DEF StopReason, Answers
  <2>3. AcpTypeOK'
    BY <1>0, <2>1, <2>2 DEF AcpTypeOK
  <2>4. PendingInv'
    BY <1>0, <2>1, <2>2 DEF PendingInv, loopVars, AcpTypeOK, Answers, Settled
  <2> QED
    BY <2>3, <2>4
<1> QED
  BY <1>2, <1>3, <1>4, <1>5, <1>6, <1>7, <1>8 DEF AcpNext

-----------------------------------------------------------------------------
(* A client that waits for its answers                                     *)

\* At the start nothing is in flight.
LEMMA OneInFlightInit == AcpInit => OneInFlight
BY DEF AcpInit, OneInFlight

\* The subscriptions are then those of the prompt in flight.
LEMMA OwnSubscription ==
  ASSUME SrvInv, OneInFlight, NEW p \in Prompts, answer[p] = "pending"
  PROVE  subs = {p}
<1>1. \A q \in Prompts : q \in subs <=> q = p
  BY DEF SrvInv, PendingInv, OneInFlight
<1>2. subs \subseteq Prompts
  BY DEF SrvInv, AcpTypeOK
<1> QED
  BY <1>1, <1>2

\* Where prompts do not overlap, a prompt finds no other subscribed, pending or
\* abortable.
LEMMA FirstInFlight ==
  ASSUME ~Overlapping, SrvInv, OneInFlight, NEW p \in Prompts, Prompt(p)
  PROVE  ctrl = 0 /\ subs = {} /\ Abort = aborted /\ \A q \in Prompts : answer[q] # "pending"
<1>1. \A q \in Prompts : answer[q] # "pending"
  BY DEF Prompt, Arrives
<1>2. subs \subseteq Prompts /\ ctrl \in Prompts \cup {0}
  BY DEF SrvInv, AcpTypeOK
<1>3. subs = {} /\ ctrl = 0
  BY <1>1, <1>2 DEF SrvInv, PendingInv, OneInFlight
<1> QED
  BY <1>1, <1>3 DEF Abort

\* It stays so: a prompt is over before the next one begins.
LEMMA OneInFlightNext ==
  ASSUME ~Overlapping, SrvInv, OneInFlight, [AcpNext]_acpVars
  PROVE  OneInFlight'
<1>0. AcpTypeOK
  BY DEF SrvInv
<1>1. CASE UNCHANGED acpVars
  BY <1>1 DEF acpVars, serverVars, OneInFlight
<1>2. CASE NewSession
  BY <1>2 DEF NewSession, OneInFlight
<1>3. CASE Cancel
  BY <1>3 DEF Cancel, Abort, OneInFlight
<1>4. ASSUME NEW p \in Prompts, PromptUnknownSession(p) PROVE OneInFlight'
  <2>1. answer[p] = "none" /\ answer' = [answer EXCEPT ![p] = "error"]
        /\ UNCHANGED <<ctrl, aborted>>
    BY <1>4 DEF PromptUnknownSession, Arrives
  <2> QED
    BY <1>0, <2>1 DEF OneInFlight, AcpTypeOK
<1>5. ASSUME NEW p \in Prompts, Prompt(p) PROVE OneInFlight'
  <2>1. /\ aborted' = aborted /\ ctrl' = p /\ answer' = [answer EXCEPT ![p] = "pending"]
        /\ \A q \in Prompts : answer[q] # "pending"
    BY <1>5, FirstInFlight DEF Prompt
  <2> QED
    BY <1>0, <2>1 DEF OneInFlight, AcpTypeOK
<1>6. ASSUME NEW p \in Prompts, LoopStep(p) PROVE OneInFlight'
  BY <1>6 DEF LoopStep, OneInFlight
<1>7. ASSUME NEW p \in Prompts, Answer(p) PROVE OneInFlight'
  <2>1. /\ answer[p] = "pending" /\ answer' = [answer EXCEPT ![p] = StopReason(p)]
        /\ ctrl' = 0 /\ aborted' = aborted /\ StopReason(p) \in Answers
    BY <1>7 DEF Answer, StopReason, Answers
  <2> QED
    BY <1>0, <2>1 DEF OneInFlight, AcpTypeOK, Answers
<1> QED
  BY <1>1, <1>2, <1>3, <1>4, <1>5, <1>6, <1>7 DEF AcpNext

\* An answer is made of the events of its own run.
LEMMA StopReasonNext ==
  ASSUME ~Overlapping, SrvInv, OneInFlight, StopReasonIsOwn, [AcpNext]_acpVars
  PROVE  StopReasonIsOwn'
<1>0. AcpTypeOK
  BY DEF SrvInv
<1>1. CASE UNCHANGED acpVars
  BY <1>1 DEF acpVars, serverVars, StopReasonIsOwn
<1>2. CASE NewSession
  BY <1>2 DEF NewSession, StopReasonIsOwn
<1>3. CASE Cancel
  <2>1. \A p \in Prompts : answer[p] \in {"end_turn", "cancelled"} =>
          (p \in aborted' <=> p \in aborted)
    BY <1>3 DEF Cancel, Abort, OneInFlight
  <2> QED
    BY <1>3, <2>1 DEF Cancel, StopReasonIsOwn
<1>4. ASSUME NEW p \in Prompts, PromptUnknownSession(p) PROVE StopReasonIsOwn'
  <2>1. answer' = [answer EXCEPT ![p] = "error"] /\ UNCHANGED aborted
    BY <1>4 DEF PromptUnknownSession
  <2> QED
    BY <1>0, <2>1 DEF StopReasonIsOwn, AcpTypeOK
<1>5. ASSUME NEW p \in Prompts, Prompt(p) PROVE StopReasonIsOwn'
  <2>1. aborted' = aborted /\ answer' = [answer EXCEPT ![p] = "pending"]
    BY <1>5, FirstInFlight DEF Prompt
  <2> QED
    BY <1>0, <2>1 DEF StopReasonIsOwn, AcpTypeOK
<1>6. ASSUME NEW p \in Prompts, LoopStep(p) PROVE StopReasonIsOwn'
  BY <1>6 DEF LoopStep, StopReasonIsOwn
<1>7. ASSUME NEW p \in Prompts, Answer(p) PROVE StopReasonIsOwn'
  <2>1. /\ answer' = [answer EXCEPT ![p] = StopReason(p)] /\ aborted' = aborted
        /\ ctrl = p
    BY <1>7 DEF Answer, OneInFlight
  <2>2. StopReason(p) \in {"end_turn", "cancelled"} =>
          (StopReason(p) = "cancelled" <=> p \in aborted)
    BY <2>1 DEF StopReason
  <2> QED
    BY <1>0, <2>1, <2>2 DEF StopReasonIsOwn, AcpTypeOK
<1> QED
  BY <1>1, <1>2, <1>3, <1>4, <1>5, <1>6, <1>7 DEF AcpNext

\* One subscriber is there to send what a run emits.
LEMMA UpdatesSentOnceNext ==
  ASSUME ~Overlapping, SrvInv, OneInFlight, UpdatesSentOnce, [AcpNext]_acpVars
  PROVE  UpdatesSentOnce'
<1>0. LoopInv
  BY DEF SrvInv
<1>1. CASE UNCHANGED updates
  BY <1>1 DEF UpdatesSentOnce
<1>2. ASSUME NEW p \in Prompts, Prompt(p) PROVE UpdatesSentOnce'
  <2>1. updates' = updates
    BY <1>2, FirstInFlight DEF Prompt, SendUpdates
  <2> QED
    BY <1>1, <2>1
<1>3. ASSUME NEW p \in Prompts, LoopStep(p) PROVE UpdatesSentOnce'
  <2>1. pc[p] \in {"provider", "tool"} /\ Emits(events, events', p)
    BY <1>0, <1>3, ResumeShape DEF LoopStep, Prompts
  <2>2. subs = {p}
    BY <2>1, OwnSubscription DEF SrvInv, PendingInv
  <2>3. \A i \in (Len(events) + 1)..Len(events') : events'[i].run = p
    BY <2>1 DEF Emits
  <2>4. SendUpdates
    BY <1>3 DEF LoopStep
  <2> QED
    BY <2>2, <2>3, <2>4 DEF SendUpdates, UpdatesSentOnce
<1> QED
  BY <1>1, <1>2, <1>3 DEF AcpNext, acpVars, serverVars, NewSession, Cancel,
                          PromptUnknownSession, Answer

\* The controller a cancel aborts is that of the prompt in flight.
LEMMA CancelStep ==
  SrvInv /\ OneInFlight /\ [AcpNext]_acpVars =>
    [session = "open" /\ session' = "deleted" =>
       \A p \in Prompts :
         p \in aborted' <=> p \in aborted \/ answer[p] = "pending"]_acpVars
<1> SUFFICES ASSUME SrvInv, OneInFlight, AcpNext, session = "open", session' = "deleted",
                    NEW p \in Prompts
             PROVE  p \in aborted' <=> p \in aborted \/ answer[p] = "pending"
  OBVIOUS
<1>1. Cancel
  BY DEF AcpNext, NewSession, PromptUnknownSession, Prompt, LoopStep, Answer
<1>2. aborted' = Abort /\ p # 0
  BY <1>1 DEF Cancel, Prompts, Runs
<1>3. answer[p] = "pending" <=> ctrl = p
  BY <1>2 DEF OneInFlight
<1> QED
  BY <1>2, <1>3 DEF Abort

\* A prompt is answered "cancelled" exactly when its own controller was aborted
\* before (the stopReason of session/prompt in index.ts).
THEOREM StopReasonIsOwnAlways ==
  ASSUME ~Overlapping
  PROVE  AcpSpec => []StopReasonIsOwn
<1>1. AcpInit => StopReasonIsOwn
  BY DEF AcpInit, StopReasonIsOwn
<1>2. SrvInv /\ OneInFlight /\ StopReasonIsOwn /\ [AcpNext]_acpVars
        => SrvInv' /\ OneInFlight' /\ StopReasonIsOwn'
  BY SrvNext, OneInFlightNext, StopReasonNext
<1> QED
  BY <1>1, <1>2, SrvInit, OneInFlightInit, PTL DEF AcpSpec

\* Each update goes out once, over the subscription of the prompt it is about
\* (subscribeBus and the finally block in index.ts).
THEOREM UpdatesSentOnceAlways ==
  ASSUME ~Overlapping
  PROVE  AcpSpec => []UpdatesSentOnce
<1>1. AcpInit => UpdatesSentOnce
  BY DEF AcpInit, UpdatesSentOnce
<1>2. SrvInv /\ OneInFlight /\ UpdatesSentOnce /\ [AcpNext]_acpVars
        => SrvInv' /\ OneInFlight' /\ UpdatesSentOnce'
  BY SrvNext, OneInFlightNext, UpdatesSentOnceNext
<1> QED
  BY <1>1, <1>2, SrvInit, OneInFlightInit, PTL DEF AcpSpec

\* A session/cancel aborts the controller of the prompt in flight, at whatever
\* point of its run it arrives, and of no prompt that is not (the cancel handler in
\* index.ts).
THEOREM CancelReachesInFlightAlways ==
  ASSUME ~Overlapping
  PROVE  AcpSpec => CancelReachesInFlight
<1>1. SrvInv /\ OneInFlight /\ [AcpNext]_acpVars => SrvInv' /\ OneInFlight'
  BY SrvNext, OneInFlightNext
<1> QED
  BY <1>1, SrvInit, OneInFlightInit, CancelStep, PTL DEF AcpSpec, CancelReachesInFlight

-----------------------------------------------------------------------------
(* Tool calls at the client                                                *)

\* A run that awaits a tool goes on by saying how that tool came back.
LEMMA ToolReported ==
  ASSUME LoopInv, NEW r \in Runs, Resume(r), pc[r] = "tool"
  PROVE  /\ Len(events) < Len(events')
         /\ events'[Len(events) + 1].tag \in {"tool:end", "tool:error"}
         /\ events'[Len(events) + 1].data[1] = Head(calls[r]).id
<1>1. PICK res \in ToolResults : ToolSettles(r, res)
  BY DEF Resume, ProviderThrows, ProviderReturnsNoMessage, ProviderReplies
<1> QED
  BY <1>1, ToolEmits

\* The run of prompt p takes a step while its subscriptions are in place, or the
\* first one.
LEMMA StepKeepsUpdates ==
  ASSUME LoopInv, OpenUpdatesInv, SendUpdates, NEW p \in Prompts,
         Elsewhere(p), Emits(events, events', p), Announced(p),
         pc[p] = "tool" =>
           /\ p \in subs /\ Len(events) < Len(events')
           /\ events'[Len(events) + 1].tag \in {"tool:end", "tool:error"}
           /\ events'[Len(events) + 1].data[1] = Head(calls[p]).id
  PROVE  OpenUpdatesInv'
<1> DEFINE n    == Len(events)
           news == {i \in (n + 1)..Len(events') : subs # {} /\ Forwarded(events'[i])}
           upd(i) == [nr |-> i, event |-> events'[i], copies |-> subs]
<1>1. /\ events \in Seq(Event) /\ n \in Nat /\ DOMAIN events = 1..n
      /\ events' \in Seq(Event) /\ Len(events') \in Nat /\ DOMAIN events' = 1..Len(events')
      /\ n <= Len(events')
      /\ \A i \in 1..n : events'[i] = events[i]
      /\ \A i \in (n + 1)..Len(events') : events'[i].run = p
  BY LenProperties DEF LoopInv, LoopTypes, Emits
<1>2. updates' = updates \cup {upd(i) : i \in news}
  BY DEF SendUpdates
<1>3. ASSUME NEW u \in updates
      PROVE  /\ u.nr \in DOMAIN events' /\ u.event = events'[u.nr]
             /\ u.event.tag = "tool:start" =>
                  \/ \E v \in updates' : Closes(v, u, u.event.run)
                  \/ pc'[u.event.run] = "tool" /\ u.event.data = Head(calls'[u.event.run]).id
  <2>1. u.nr \in 1..n /\ u.event = events[u.nr]
    BY <1>1 DEF OpenUpdatesInv
  <2>2. u.event.run \in Runs
    BY <1>1, <2>1, EventsHaveRuns
  <2>3. ASSUME u.event.tag = "tool:start", pc[u.event.run] = "tool",
               u.event.data = Head(calls[u.event.run]).id
        PROVE  \/ \E v \in updates' : Closes(v, u, u.event.run)
               \/ pc'[u.event.run] = "tool" /\ u.event.data = Head(calls'[u.event.run]).id
    <3>1. CASE u.event.run # p
      BY <2>2, <2>3, <3>1 DEF Elsewhere
    <3>2. CASE u.event.run = p
      <4> DEFINE e == events'[n + 1]
      <4>1. /\ p \in subs /\ n + 1 \in (n + 1)..Len(events') /\ e.run = p
            /\ e.tag \in {"tool:end", "tool:error"} /\ e.data[1] = u.event.data
        BY <1>1, <2>3, <3>2
      <4>2. n + 1 \in news
        BY <4>1 DEF Forwarded
      <4>3. upd(n + 1) \in updates'
        BY <1>2, <4>2
      <4>4. Closes(upd(n + 1), u, p)
        BY <1>1, <2>1, <4>1 DEF Closes
      <4> QED
        BY <3>2, <4>3, <4>4
    <3> QED
      BY <3>1, <3>2
  <2>4. u.event.tag = "tool:start" =>
          \/ \E v \in updates : Closes(v, u, u.event.run)
          \/ pc[u.event.run] = "tool" /\ u.event.data = Head(calls[u.event.run]).id
    BY DEF OpenUpdatesInv
  <2>5. u.nr \in DOMAIN events' /\ u.event = events'[u.nr]
    BY <1>1, <2>1
  <2> QED
    BY <1>2, <2>3, <2>4, <2>5
<1>4. ASSUME NEW i \in news
      PROVE  /\ upd(i).nr \in DOMAIN events' /\ upd(i).event = events'[upd(i).nr]
             /\ upd(i).event.tag = "tool:start" =>
                  /\ pc'[upd(i).event.run] = "tool"
                  /\ upd(i).event.data = Head(calls'[upd(i).event.run]).id
  <2>1. i \in (n + 1)..Len(events') /\ i \in DOMAIN events' /\ events'[i].run = p
    BY <1>1
  <2> QED
    BY <2>1 DEF Announced
<1>5. ASSUME NEW u \in updates'
      PROVE  /\ u.nr \in DOMAIN events' /\ u.event = events'[u.nr]
             /\ u.event.tag = "tool:start" =>
                  \/ \E v \in updates' : Closes(v, u, u.event.run)
                  \/ pc'[u.event.run] = "tool" /\ u.event.data = Head(calls'[u.event.run]).id
  <2>1. CASE u \in updates
    BY <1>3, <2>1
  <2>2. ASSUME NEW i \in news, u = upd(i) PROVE <1>5!2
    BY <1>4, <2>2
  <2> QED
    BY <1>2, <2>1, <2>2
<1> QED
  BY <1>5 DEF OpenUpdatesInv

\* A tool call the client was told of is closed by the event that ends it.
LEMMA OpenUpdatesNext ==
  ASSUME SrvInv, OpenUpdatesInv, [AcpNext]_acpVars
  PROVE  OpenUpdatesInv'
<1>0. LoopInv
  BY DEF SrvInv
<1>1. CASE UNCHANGED <<loopVars, updates>>
  BY <1>1 DEF loopVars, OpenUpdatesInv, Closes
<1>2. ASSUME NEW p \in Prompts, Prompt(p) PROVE OpenUpdatesInv'
  BY <1>0, <1>2, PromptShape, StepKeepsUpdates DEF Prompt
<1>3. ASSUME NEW p \in Prompts, LoopStep(p) PROVE OpenUpdatesInv'
  <2>1. /\ Elsewhere(p) /\ Emits(events, events', p) /\ Announced(p)
        /\ pc[p] \in {"provider", "tool"} /\ SendUpdates
    BY <1>0, <1>3, ResumeShape DEF LoopStep, Prompts
  <2>2. p \in subs
    BY <2>1 DEF SrvInv, PendingInv
  <2>3. pc[p] = "tool" =>
          /\ Len(events) < Len(events')
          /\ events'[Len(events) + 1].tag \in {"tool:end", "tool:error"}
          /\ events'[Len(events) + 1].data[1] = Head(calls[p]).id
    BY <1>0, <1>3, ToolReported DEF LoopStep, Prompts
  <2> QED
    BY <1>0, <2>1, <2>2, <2>3, StepKeepsUpdates
<1> QED
  BY <1>1, <1>2, <1>3 DEF AcpNext, acpVars, serverVars, NewSession, Cancel,
                          PromptUnknownSession, Answer

\* However prompts overlap, are cancelled or fail, a prompt is answered when the
\* client has been told the end of every tool call it was told the start of
\* (subscribeBus and the finally block in index.ts).
THEOREM ToolCallsClosedAlways == AcpSpec => []ToolCallsClosedAtAnswer
<1>1. AcpInit => OpenUpdatesInv
  BY DEF AcpInit, OpenUpdatesInv
<1>2. SrvInv /\ OpenUpdatesInv /\ [AcpNext]_acpVars => SrvInv' /\ OpenUpdatesInv'
  BY SrvNext, OpenUpdatesNext
<1>3. SrvInv /\ OpenUpdatesInv => ToolCallsClosedAtAnswer
  BY DEF SrvInv, PendingInv, OpenUpdatesInv, ToolCallsClosedAtAnswer, Answers
<1> QED
  BY <1>1, <1>2, <1>3, SrvInit, PTL DEF AcpSpec

-----------------------------------------------------------------------------
(* The session log                                                         *)

LogLine == Event \cup {Header}

\* The log grows by what is emitted, in that order.
LEMMA LogNext ==
  ASSUME SrvInv, log \in Seq(LogLine), LogInv, [AcpNext]_acpVars
  PROVE  log' \in Seq(LogLine) /\ LogInv'
<1>0. LoopInv /\ events \in Seq(Event) /\ Len(events) \in Nat /\ Len(log) \in Nat
  BY LenProperties DEF SrvInv, LoopInv, LoopTypes
<1>1. CASE UNCHANGED <<events, session, logging, log>>
  BY <1>1 DEF LogInv
<1>2. CASE NewSession
  <2>1. /\ log' = <<Header>> /\ session' = "open" /\ logging' = TRUE
        /\ events' = events /\ events = <<>>
    BY <1>2 DEF NewSession, LogInv, loopVars
  <2>2. <<Header>> \in Seq(LogLine) /\ Len(<<Header>>) = 1 /\ <<Header>>[1] = Header
    BY DEF LogLine
  <2>3. Len(<<>>) = 0 /\ \A i \in 1..(Len(<<Header>>) - 1) : FALSE
    BY <2>2
  <2> QED
    BY <2>1, <2>2, <2>3 DEF LogInv
<1>3. CASE Cancel
  BY <1>3 DEF Cancel, LogInv, loopVars
<1>4. ASSUME NEW p \in Prompts, Emits(events, events', p), LogNewEvents,
             session # "none", UNCHANGED <<session, logging>>
      PROVE  log' \in Seq(LogLine) /\ LogInv'
  <2>1. /\ events' \in Seq(Event) /\ Len(events') \in Nat /\ Len(events) <= Len(events')
        /\ \A i \in 1..Len(events) : events'[i] = events[i]
    BY <1>4, LenProperties DEF Emits
  <2>2. CASE ~logging
    BY <1>0, <1>4, <2>1, <2>2 DEF LogNewEvents, LogInv
  <2>3. CASE logging
    <3> DEFINE n    == Len(events)
               more == NewEvents
    <3>1. /\ more \in Seq(Event) /\ Len(more) = Len(events') - n
          /\ \A i \in 1..Len(more) : more[i] = events'[n + i]
      <4>1. \A i \in (n + 1)..Len(events') : events'[i] \in Event
        BY <1>0, <2>1, ElementOfSeq
      <4>2. more = [i \in 1..(Len(events') - n) |-> events'[n + i]]
        BY <1>0, <2>1 DEF NewEvents
      <4> HIDE DEF more
      <4>3. \A i \in 1..(Len(events') - n) : events'[n + i] \in Event
        BY <1>0, <2>1, <4>1
      <4> QED
        BY <1>0, <2>1, <4>2, <4>3
    <3>2. log' = log \o more /\ Len(log) = n + 1 /\ log[1] = Header
      BY <1>4, <2>3 DEF LogNewEvents, LogInv
    <3> HIDE DEF more
    <3>3. more \in Seq(LogLine)
      BY <3>1, LenProperties DEF LogLine
    <3>4. /\ log' \in Seq(LogLine) /\ Len(log') = Len(events') + 1
          /\ \A i \in 1..Len(log) : log'[i] = log[i]
          /\ \A i \in (Len(log) + 1)..Len(log') : log'[i] = more[i - Len(log)]
      BY <1>0, <2>1, <3>1, <3>2, <3>3, ConcatProperties
    <3>5. ASSUME NEW i \in 1..(Len(log') - 1) PROVE log'[i + 1] = events'[i]
      <4>1. CASE i <= n
        BY <1>0, <1>4, <2>1, <3>2, <3>4, <4>1 DEF LogInv
      <4>2. CASE i > n
        BY <1>0, <2>1, <3>1, <3>2, <3>4, <4>2
      <4> QED
        BY <1>0, <4>1, <4>2
    <3>6. log'[1] = Header /\ Len(log') \in 1..(Len(events') + 1)
      BY <1>0, <2>1, <3>2, <3>4
    <3> QED
      BY <1>4, <2>3, <3>4, <3>5, <3>6 DEF LogInv
  <2> QED
    BY <2>2, <2>3
<1>5. ASSUME NEW p \in Prompts, Prompt(p) PROVE log' \in Seq(LogLine) /\ LogInv'
  <2>1. Emits(events, events', p)
    BY <1>0, <1>5, PromptShape
  <2> QED
    BY <1>4, <1>5, <2>1 DEF Prompt, Arrives
<1>6. ASSUME NEW p \in Prompts, LoopStep(p) PROVE log' \in Seq(LogLine) /\ LogInv'
  <2>1. Emits(events, events', p) /\ pc[p] \in {"provider", "tool"}
    BY <1>0, <1>6, ResumeShape DEF LoopStep, Prompts
  <2>2. session # "none"
    BY <2>1 DEF SrvInv, PendingInv
  <2> QED
    BY <1>4, <1>6, <2>1, <2>2 DEF LoopStep
<1> QED
  BY <1>1, <1>2, <1>3, <1>5, <1>6 DEF AcpNext, acpVars, serverVars, loopVars,
                                      PromptUnknownSession, Answer

\* LogInv is LogFollowsEvents line by line.
LEMMA LogLines ==
  ASSUME SrvInv, log \in Seq(LogLine), LogInv
  PROVE  LogFollowsEvents
<1> SUFFICES ASSUME session # "none"
             PROVE  /\ Len(log) <= Len(events) + 1
                    /\ log = SubSeq(<<Header>> \o events, 1, Len(log))
                    /\ session = "open" => Len(log) = Len(events) + 1
  BY DEF LogFollowsEvents
<1> DEFINE all == <<Header>> \o events
<1>1. events \in Seq(Event) /\ Len(events) \in Nat /\ Len(log) \in Nat
  BY LenProperties DEF SrvInv, LoopInv, LoopTypes
<1>2. events \in Seq(LogLine) /\ <<Header>> \in Seq(LogLine) /\ Len(<<Header>>) = 1
  BY <1>1, LenProperties DEF LogLine
<1>3. /\ all \in Seq(LogLine) /\ Len(all) = 1 + Len(events)
      /\ all[1] = Header
      /\ \A i \in 2..(1 + Len(events)) : all[i] = events[i - 1]
  BY <1>1, <1>2, ConcatProperties
<1>4. /\ Len(log) \in 1..(Len(events) + 1) /\ log[1] = Header
      /\ \A i \in 1..(Len(log) - 1) : log[i + 1] = events[i]
      /\ session = "open" => Len(log) = Len(events) + 1
  BY DEF LogInv
<1> HIDE DEF all
<1>5. /\ SubSeq(all, 1, Len(log)) \in Seq(LogLine)
      /\ Len(SubSeq(all, 1, Len(log))) = Len(log)
      /\ \A i \in 1..Len(log) : SubSeq(all, 1, Len(log))[i] = all[i]
  BY <1>1, <1>3, <1>4, SubSeqProperties
<1>6. ASSUME NEW i \in 1..Len(log) PROVE log[i] = SubSeq(all, 1, Len(log))[i]
  <2>1. CASE i = 1
    BY <1>3, <1>4, <1>5, <2>1
  <2>2. CASE i > 1
    <3>1. i - 1 \in 1..(Len(log) - 1) /\ (i - 1) + 1 = i /\ i \in 2..(1 + Len(events))
      BY <1>1, <1>4, <2>2
    <3>2. log[i] = events[i - 1] /\ all[i] = events[i - 1]
      BY <1>3, <1>4, <3>1
    <3> QED
      BY <1>5, <3>2
  <2> QED
    BY <1>1, <2>1, <2>2
<1>7. log = SubSeq(all, 1, Len(log))
  BY <1>5, <1>6, SeqEqual
<1>8. Len(log) <= Len(events) + 1
  BY <1>1, <1>4
<1>9. log = SubSeq(<<Header>> \o events, 1, Len(log))
  BY <1>7 DEF all
<1> QED
  BY <1>4, <1>8, <1>9

\* The log file is the header and the events up to a point, and all of them while
\* the session is open (createSessionLogger in log.ts, disposed of in index.ts).
THEOREM LogFollowsEventsAlways == AcpSpec => []LogFollowsEvents
<1> DEFINE Lines == log \in Seq(LogLine) /\ LogInv
<1>1. AcpInit => Lines
  BY DEF AcpInit, Init, LogInv
<1>2. SrvInv /\ Lines /\ [AcpNext]_acpVars => SrvInv' /\ Lines'
  BY SrvNext, LogNext
<1>3. SrvInv /\ Lines => LogFollowsEvents
  BY LogLines
<1> HIDE DEF Lines
<1> QED
  BY <1>1, <1>2, <1>3, SrvInit, PTL DEF AcpSpec

-----------------------------------------------------------------------------
(* The runs of the server                                                  *)

\* What is proved of the agent loop holds of the runs the server makes: the
\* event grammar, and each run's own history, however prompts overlap.
THEOREM ServerLoop == AcpSpec => [](AcpTypeOK /\ TypeOK /\ EventGrammar /\ OwnHistoryWellFormed)
<1>1. AcpInit => OwnInv
  BY InitOwn DEF AcpInit
<1>2. SrvInv /\ OwnInv /\ [AcpNext]_acpVars => SrvInv' /\ OwnInv'
  BY SrvNext, StepOfLoop, NextOwn DEF SrvInv
<1>3. SrvInv /\ OwnInv => AcpTypeOK /\ TypeOK /\ EventGrammar /\ OwnHistoryWellFormed
  BY DEF SrvInv, LoopInv, LoopTypes, GrammarInv, OwnInv, OwnHistoryWellFormed
<1> QED
  BY <1>1, <1>2, <1>3, SrvInit, PTL DEF AcpSpec

\* A prompt's requests are well formed whatever became of the prompts before it,
\* for a client that waits and a provider whose arguments parse.
THEOREM ServerRequests ==
  ASSUME ~Overlapping, "bad arguments" \notin Faults
  PROVE  AcpSpec => []RequestsWellFormed
<1>1. AcpInit => AnswersInv /\ CallIdsInv
  BY InitAnswers, InitCallIds DEF AcpInit
<1>2. SrvInv /\ AnswersInv /\ CallIdsInv /\ [AcpNext]_acpVars
        => SrvInv' /\ AnswersInv' /\ CallIdsInv'
  BY SrvNext, StepOfLoop, NextAnswers, NextCallIds DEF SrvInv
<1>3. AnswersInv /\ CallIdsInv => RequestsWellFormed
  BY CallIdsDiffer, Alone DEF AnswersInv, RequestsWellFormed, Settled
<1> QED
  BY <1>1, <1>2, <1>3, SrvInit, PTL DEF AcpSpec

\* And its events tell its history, if no result is cut to its preview.
THEOREM ServerReconstructs ==
  ASSUME "long result" \notin Faults
  PROVE  AcpSpec => []EventsReconstructHistory
<1>1. AcpInit => EventsReconstructHistory
  BY InitTells DEF AcpInit
<1>2. SrvInv /\ EventsReconstructHistory /\ [AcpNext]_acpVars
        => SrvInv' /\ EventsReconstructHistory'
  BY SrvNext, StepOfLoop, NextTells DEF SrvInv
<1> QED
  BY <1>1, <1>2, SrvInit, PTL DEF AcpSpec
=============================================================================
