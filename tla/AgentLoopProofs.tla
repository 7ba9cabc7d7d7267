--------------------------- MODULE AgentLoopProofs --------------------------
(***************************************************************************)
(* Proofs about AgentLoop, for any number of runs, of turns and of tool    *)
(* calls.  A step puts up to three events on the bus and at most one       *)
(* message on the tape, so what is shown first is what one more event or   *)
(* message does to a history; the steps follow from that.                  *)
(***************************************************************************)
EXTENDS AgentLoop, FiniteSetTheorems, SequenceTheorems, TLAPS

-----------------------------------------------------------------------------
(* Types                                                                   *)

\* What run() emits.
Previews  == {"short", "first 200 chars", "error"}
Reasons   == {"max_turns", "model_done"}
EventData ==
  {0} \cup Turns \cup (Turns \X Nat) \cup (Turns \X Texts \X BOOLEAN)
      \cup (Texts \X Seq(CallIds)) \cup CallIds \cup (CallIds \X Previews)
      \cup (Reasons \X Nat)

EventTags ==
  {"session:start", "message:user", "provider:request", "provider:response",
   "provider:error", "message:assistant", "tool:start", "tool:end", "tool:error",
   "session:end"}

Event == [tag : EventTags, run : Runs, data : EventData]

LoopTypes == TypeOK /\ events \in Seq(Event)

\* Turns are numbers, and the next one is a turn up to the limit.
LEMMA TurnFacts ==
  /\ \A t \in Turns : t \in Nat /\ t + 1 \in Nat
  /\ 0 \in Turns
  /\ \A t \in Nat : t < MaxTurns => t \in Turns
BY LoopAssumption DEF Turns

\* What steps of run r emit.
LEMMA EventTypes ==
  ASSUME NEW r \in Runs
  PROVE  /\ Ev("session:start", r, 0) \in Event /\ Ev("message:user", r, 0) \in Event
         /\ \A t \in Turns, n \in Nat : Ev("provider:request", r, <<t, n>>) \in Event
         /\ \A t \in Turns : Ev("provider:error", r, t) \in Event
         /\ \A n \in Nat, why \in Reasons : Ev("session:end", r, <<why, n>>) \in Event
         /\ \A t \in Turns, text \in Texts, b \in BOOLEAN :
              Ev("provider:response", r, <<t, text, b>>) \in Event
         /\ \A text \in Texts, ids \in Seq(CallIds) :
              Ev("message:assistant", r, <<text, ids>>) \in Event
         /\ \A id \in CallIds : Ev("tool:start", r, id) \in Event
         /\ \A id \in CallIds, res \in Previews, tag \in {"tool:end", "tool:error"} :
              Ev(tag, r, <<id, res>>) \in Event
BY DEF Ev, Event, EventTags, EventData

\* What normalizeAssistantMessage hands on: at most MaxCalls calls, whose ids name
\* their turn and their place.
LEMMA NormalizeFacts ==
  ASSUME NEW r \in Runs, NEW t \in Turns, NEW msg \in Replies(r, t),
         NEW norm, norm = Normalize(msg, t)
  PROVE  /\ msg.text \in Texts
         /\ norm.text \in Texts /\ norm.rehydrated \in BOOLEAN
         /\ norm.calls \in Seq(ToolCall)
         /\ [k \in DOMAIN norm.calls |-> norm.calls[k].id] \in Seq(CallIds)
         /\ \A k \in DOMAIN norm.calls :
              /\ norm.calls[k].id \in {<<r, t, k>>, <<0, t, k>>}
              /\ norm.calls[k].args \in ArgKinds
<1>0. /\ \A k \in 1..MaxCalls : <<r, t, k>> \in CallIds /\ <<0, t, k>> \in CallIds
      /\ \A x \in ArgKinds : x \in {"json", "garbage"}
      /\ "json" \in ArgKinds
  <2>1. \A k \in 1..MaxCalls : <<r, t, k>> \in CallIds /\ <<0, t, k>> \in CallIds
    BY LoopAssumption DEF CallIds, Runs
  <2> QED
    BY <2>1 DEF ArgKinds
<1>1. /\ norm.calls \in Seq(ToolCall)
      /\ \A k \in DOMAIN norm.calls :
           /\ norm.calls[k].id \in {<<r, t, k>>, <<0, t, k>>}
           /\ norm.calls[k].args \in ArgKinds
  <2>1. ASSUME NEW n \in 1..MaxCalls, NEW i \in {0, r}, NEW a \in [1..n -> ArgKinds],
               norm.calls = [k \in 1..n |-> [id |-> <<i, t, k>>, args |-> a[k]]]
        PROVE  <1>1!:
    <3>1. n \in Nat /\ \A k \in 1..n : k \in 1..MaxCalls
      BY LoopAssumption
    <3>2. \A k \in 1..n : [id |-> <<i, t, k>>, args |-> a[k]] \in ToolCall
      BY <1>0, <3>1 DEF ToolCall
    <3>3. norm.calls \in Seq(ToolCall) /\ DOMAIN norm.calls = 1..n
      BY <2>1, <3>1, <3>2
    <3> QED
      BY <2>1, <3>3
  <2>2. ASSUME NEW n \in 1..MaxCalls,
               msg = [text |-> "text", native |-> <<>>, inText |-> n]
        PROVE  <1>1!:
    <3>1. norm.calls = [k \in 1..n |-> [id |-> <<0, t, k>>, args |-> "json"]]
      BY <2>2, LoopAssumption DEF Normalize
    <3>2. [k \in 1..n |-> "json"] \in [1..n -> ArgKinds]
      BY <1>0
    <3>3. norm.calls = [k \in 1..n |-> [id |-> <<0, t, k>>, args |-> [j \in 1..n |-> "json"][k]]]
      BY <3>1
    <3> QED
      BY <2>1, <3>2, <3>3
  <2>3. CASE msg = [text |-> "text", native |-> <<>>, inText |-> 0]
    <3>1. norm.calls = <<>>
      BY <2>3 DEF Normalize
    <3> QED
      BY <3>1
  <2>4. ASSUME NEW n \in 1..MaxCalls, NEW a \in [1..n -> ArgKinds],
               msg = [text |-> "null", native |-> [k \in DOMAIN a |-> [id |-> <<r, t, k>>, args |-> a[k]]],
                      inText |-> 0]
        PROVE  <1>1!:
    <3>1. norm.calls = [k \in 1..n |-> [id |-> <<r, t, k>>, args |-> a[k]]]
      BY <2>4, LoopAssumption DEF Normalize
    <3> QED
      BY <2>1, <3>1
  <2>5. \/ \E n \in 0..MaxCalls : msg = [text |-> "text", native |-> <<>>, inText |-> n]
        \/ \E a \in UNION {[1..n -> ArgKinds] : n \in 1..MaxCalls} :
              msg = [text |-> "null",
                     native |-> [k \in DOMAIN a |-> [id |-> <<r, t, k>>, args |-> a[k]]],
                     inText |-> 0]
    BY DEF Replies
  <2> QED
    BY <2>2, <2>3, <2>4, <2>5, LoopAssumption
<1>2. msg.text \in {"text", "null"} /\ norm.text \in {"text", "null"} /\ norm.rehydrated \in BOOLEAN
  BY DEF Replies, Normalize
<1>3. [k \in DOMAIN norm.calls |-> norm.calls[k].id] \in Seq(CallIds)
  <2>1. DOMAIN norm.calls = 1..Len(norm.calls) /\ Len(norm.calls) \in Nat
    BY <1>1, LenProperties
  <2>2. \A k \in 1..Len(norm.calls) : norm.calls[k] \in ToolCall
    BY <1>1, ElementOfSeq
  <2>3. \A k \in 1..Len(norm.calls) : norm.calls[k].id \in CallIds
    BY <2>2 DEF ToolCall
  <2> QED
    BY <2>1, <2>3
<1> QED
  BY <1>1, <1>2, <1>3 DEF Texts

\* Each event of a log is of some run.
LEMMA EventsHaveRuns ==
  ASSUME NEW es \in Seq(Event)
  PROVE  \A i \in 1..Len(es) : es[i] \in Event /\ es[i].run \in Runs
<1>1. \A i \in 1..Len(es) : es[i] \in Event
  BY ElementOfSeq
<1> QED
  BY <1>1 DEF Event

\* The first of the calls still to be made, and the rest of them.
LEMMA HeadIsToolCall ==
  ASSUME NEW cs \in Seq(ToolCall), cs # <<>>
  PROVE  /\ Head(cs) \in ToolCall /\ Head(cs).id \in CallIds
         /\ Head(cs).args \in {"json", "garbage"}
         /\ Tail(cs) \in Seq(ToolCall)
<1>1. Head(cs) \in ToolCall /\ Tail(cs) \in Seq(ToolCall)
  BY HeadTailProperties
<1> QED
  BY <1>1 DEF ToolCall

\* Where run r goes next.
LEMMA GoesOnTypes ==
  ASSUME LoopTypes, messages' \in Seq(Message), NEW r \in Runs, NEW log \in Seq(Event),
         \/ \E how \in Settled : Finish(r, how, log)
         \/ \E t \in Nat : BeginTurn(r, t, log)
         \/ \E cs \in Seq(ToolCall) : cs # <<>> /\ BeginCall(r, cs, log)
  PROVE  LoopTypes'
<1>1. ASSUME NEW how \in Settled, NEW es \in Seq(Event), Finish(r, how, es)
      PROVE  LoopTypes'
  <2>1. \A i \in 1..Len(es) : es[i].run \in Runs
    BY EventsHaveRuns
  <2> QED
    BY <1>1, <2>1 DEF Finish, LoopTypes, TypeOK, PCs
<1>2. ASSUME NEW e \in Event
      PROVE  /\ Append(log, e) \in Seq(Event)
             /\ \A i \in 1..Len(Append(log, e)) : Append(log, e)[i].run \in Runs
  <2>1. Append(log, e) \in Seq(Event)
    BY AppendProperties
  <2> QED
    BY <2>1, EventsHaveRuns
<1>3. ASSUME NEW t \in Nat, BeginTurn(r, t, log) PROVE LoopTypes'
  <2>1. CASE t < MaxTurns
    <3>1. t \in Turns /\ Len(messages') \in Nat
      BY <2>1, TurnFacts, LenProperties
    <3>2. Ev("provider:request", r, <<t, Len(messages')>>) \in Event
      BY <3>1, EventTypes
    <3>3. /\ turn' = t /\ at' = [at EXCEPT ![r] = t] /\ pc' = [pc EXCEPT ![r] = "provider"]
          /\ calls' = [calls EXCEPT ![r] = <<>>]
          /\ events' = Append(log, Ev("provider:request", r, <<t, Len(messages')>>))
      BY <1>3, <2>1, LoopAssumption DEF BeginTurn
    <3> QED
      <4>1. events' \in Seq(Event) /\ \A i \in 1..Len(events') : events'[i].run \in Runs
        BY <1>2, <3>2, <3>3
      <4>2. calls' \in [Runs -> Seq(ToolCall)]
        BY <3>3 DEF LoopTypes, TypeOK
      <4> QED
        BY <3>1, <3>3, <4>1, <4>2 DEF LoopTypes, TypeOK, PCs
  <2>2. CASE ~(t < MaxTurns)
    <3>1. Ev("session:end", r, <<"max_turns", MaxTurns>>) \in Event
      BY EventTypes, LoopAssumption DEF Reasons
    <3> QED
      BY <1>1, <1>2, <1>3, <2>2, <3>1 DEF BeginTurn, Settled
  <2> QED
    BY <2>1, <2>2
<1>4. ASSUME NEW cs \in Seq(ToolCall), cs # <<>>, BeginCall(r, cs, log) PROVE LoopTypes'
  <2>1. CASE Head(cs).args = "garbage"
    BY <1>1, <1>4, <2>1 DEF BeginCall, Settled
  <2>2. CASE Head(cs).args = "json"
    <3>1. Head(cs).id \in CallIds
      BY <1>4, HeadIsToolCall
    <3>2. /\ pc' = [pc EXCEPT ![r] = "tool"] /\ calls' = [calls EXCEPT ![r] = cs]
          /\ events' = Append(log, Ev("tool:start", r, Head(cs).id))
          /\ UNCHANGED <<turn, at>>
      BY <1>4, <2>2 DEF BeginCall
    <3> QED
      BY <1>2, <3>1, <3>2, EventTypes DEF LoopTypes, TypeOK, PCs
  <2> QED
    BY <1>4, <2>1, <2>2 DEF BeginCall
<1> QED
  BY <1>1, <1>3, <1>4

\* Messages a run puts on the tape.
LEMMA MessageTypes ==
  ASSUME NEW r \in Runs
  PROVE  /\ SystemMsg \in Message /\ UserMsg(r) \in Message
         /\ \A text \in Texts, ids \in Seq(CallIds) : AssistantMsg(r, text, ids) \in Message
         /\ \A id \in CallIds, res \in Texts : ToolMsg(r, id, res) \in Message
<1>1. r \in 0..NumRuns /\ 0 \in 0..NumRuns /\ <<>> \in Seq(CallIds)
  BY LoopAssumption DEF Runs
<1> QED
  BY <1>1 DEF SystemMsg, UserMsg, AssistantMsg, ToolMsg, Msg, Message, Texts, NoCall

\* What a tool returns is a text, and its preview is one.
LEMMA ResultTypes ==
  \A res \in ToolResults : res \in Texts /\ Preview(res) \in Previews
BY DEF ToolResults, Texts, Preview, Previews

\* The variables have their types at the start.
LEMMA InitTypes == Init => LoopTypes
<1> SUFFICES ASSUME Init PROVE LoopTypes
  OBVIOUS
<1>1. SystemMsg \in Message
  <2>1. 0 \in 0..NumRuns /\ <<>> \in Seq(CallIds)
    BY LoopAssumption
  <2> QED
    BY <2>1 DEF SystemMsg, Msg, Message, Texts, NoCall
<1>2. messages \in Seq(Message)
  BY <1>1 DEF Init
<1> QED
  BY <1>2, TurnFacts DEF Init, LoopTypes, TypeOK, PCs

\* run() is called.
LEMMA StartRunTypes ==
  ASSUME LoopTypes, NEW r \in Runs, StartRun(r)
  PROVE  LoopTypes'
<1> DEFINE log == events \o <<Ev("session:start", r, 0), Ev("message:user", r, 0)>>
<1>1. messages' \in Seq(Message)
  BY MessageTypes, AppendProperties DEF LoopTypes, TypeOK, StartRun
<1>2. log \in Seq(Event)
  <2>1. <<Ev("session:start", r, 0), Ev("message:user", r, 0)>> \in Seq(Event)
    BY EventTypes
  <2> QED
    BY <2>1, ConcatProperties DEF LoopTypes
<1>3. BeginTurn(r, 0, log)
  BY DEF StartRun
<1> QED
  BY <1>1, <1>2, <1>3, GoesOnTypes

\* The provider comes back.
LEMMA ProviderTypes ==
  ASSUME LoopTypes, NEW r \in Runs,
         \/ ProviderThrows(r)
         \/ ProviderReturnsNoMessage(r)
         \/ \E msg \in Replies(r, at[r]) : ProviderReplies(r, msg)
  PROVE  LoopTypes'
<1>0. at[r] \in Turns /\ messages \in Seq(Message) /\ events \in Seq(Event)
  BY DEF LoopTypes, TypeOK
<1>1. CASE ProviderThrows(r)
  <2>1. Append(events, Ev("provider:error", r, at[r])) \in Seq(Event)
    BY <1>0, EventTypes, AppendProperties
  <2> QED
    BY <1>0, <1>1, <2>1, GoesOnTypes DEF ProviderThrows, Settled
<1>2. CASE ProviderReturnsNoMessage(r)
  BY <1>0, <1>2, GoesOnTypes DEF ProviderReturnsNoMessage, Settled
<1>3. ASSUME NEW msg \in Replies(r, at[r]), ProviderReplies(r, msg) PROVE LoopTypes'
  <2> DEFINE norm == Normalize(msg, at[r])
             ids  == [k \in DOMAIN norm.calls |-> norm.calls[k].id]
             log  == events \o
                       <<Ev("provider:response", r, <<at[r], msg.text, norm.rehydrated>>),
                         Ev("message:assistant", r, <<norm.text, ids>>)>>
  <2>1. /\ msg.text \in Texts /\ norm.text \in Texts /\ norm.rehydrated \in BOOLEAN
        /\ norm.calls \in Seq(ToolCall) /\ ids \in Seq(CallIds)
    BY <1>0, NormalizeFacts
  <2>2. /\ messages' = Append(messages, AssistantMsg(r, norm.text, ids))
        /\ \/ norm.calls # <<>> /\ BeginCall(r, norm.calls, log)
           \/ /\ norm.calls = <<>>
              /\ Finish(r, "done",
                        Append(log, Ev("session:end", r, <<"model_done", at[r] + 1>>)))
    BY <1>3 DEF ProviderReplies
  <2> HIDE DEF norm, ids
  <2>3. messages' \in Seq(Message)
    BY <1>0, <2>1, <2>2, MessageTypes, AppendProperties
  <2>4. log \in Seq(Event)
    <3>1. /\ Ev("provider:response", r, <<at[r], msg.text, norm.rehydrated>>) \in Event
          /\ Ev("message:assistant", r, <<norm.text, ids>>) \in Event
      BY <1>0, <2>1, EventTypes
    <3> QED
      BY <1>0, <3>1, ConcatProperties
  <2> HIDE DEF log
  <2>5. Append(log, Ev("session:end", r, <<"model_done", at[r] + 1>>)) \in Seq(Event)
    <3>1. at[r] + 1 \in Nat
      BY <1>0, TurnFacts
    <3> QED
      BY <2>4, <3>1, EventTypes, AppendProperties DEF Reasons
  <2> QED
    BY <2>1, <2>2, <2>3, <2>4, <2>5, GoesOnTypes DEF Settled
<1> QED
  BY <1>1, <1>2, <1>3

\* A tool comes back.
LEMMA ToolTypes ==
  ASSUME LoopTypes, NEW r \in Runs, NEW res \in ToolResults, ToolSettles(r, res),
         calls[r] # <<>>
  PROVE  LoopTypes'
<1> DEFINE id   == Head(calls[r]).id
           rest == Tail(calls[r])
           e    == IF res = "error" THEN Ev("tool:error", r, <<id, res>>)
                                    ELSE Ev("tool:end", r, <<id, Preview(res)>>)
           log  == Append(events, e)
<1>1. at[r] \in Turns /\ messages \in Seq(Message) /\ events \in Seq(Event)
      /\ calls[r] \in Seq(ToolCall)
  BY DEF LoopTypes, TypeOK
<1>2. id \in CallIds /\ rest \in Seq(ToolCall)
  BY <1>1, HeadIsToolCall
<1>3. /\ messages' = Append(messages, ToolMsg(r, id, res))
      /\ \/ rest # <<>> /\ BeginCall(r, rest, log)
         \/ rest = <<>> /\ BeginTurn(r, at[r] + 1, log)
  BY DEF ToolSettles
<1> HIDE DEF id, rest
<1>4. messages' \in Seq(Message)
  BY <1>1, <1>2, <1>3, ResultTypes, MessageTypes, AppendProperties
<1>5. e \in Event
  BY <1>2, ResultTypes, EventTypes DEF Preview
<1> HIDE DEF e
<1>6. log \in Seq(Event)
  BY <1>1, <1>5, AppendProperties
<1>7. at[r] + 1 \in Nat
  BY <1>1, TurnFacts
<1> QED
  BY <1>2, <1>3, <1>4, <1>6, <1>7, GoesOnTypes

-----------------------------------------------------------------------------
(* The event grammar                                                       *)

\* The log of a step of run r so far.
Extended(es, r) ==
  /\ es \in Seq(Event)
  /\ Grammatical(es)
  /\ \A q \in Runs \ {r} : Fits(es, q, pc[q], calls[q])

\* Event e may come next in run r.
MayFollow(es, r, e) ==
  \/ e.tag = "session:start" /\ \A i \in DOMAIN es : es[i].run # r
  \/ \E i \in DOMAIN es :
       /\ IsLast(es, r, i)
       /\ <<es[i].tag, e.tag>> \in Follows
       /\ e.tag \in {"tool:end", "tool:error"} => e.data[1] = es[i].data

\* An event is in place when it opens its run or goes with an earlier event of it.
LEMMA InPlaceIs ==
  ASSUME NEW es, NEW i \in Nat
  PROVE  InPlace(es, i) <=>
           \/ es[i].tag = "session:start" /\ \A j \in 1..(i - 1) : es[j].run # es[i].run
           \/ \E j \in 1..(i - 1) : GoesWith(es, j, i)
<1>1. ASSUME NEW j \in 1..(i - 1), GoesWith(es, j, i) PROVE \E d \in 1..(i - 1) : GoesWith(es, i - d, i)
  <2>1. i - j \in 1..(i - 1) /\ i - (i - j) = j
    OBVIOUS
  <2> QED BY <1>1, <2>1
<1>2. ASSUME NEW d \in 1..(i - 1), GoesWith(es, i - d, i) PROVE \E j \in 1..(i - 1) : GoesWith(es, j, i)
  <2>1. i - d \in 1..(i - 1)
    OBVIOUS
  <2> QED BY <1>2, <2>1
<1> QED BY <1>1, <1>2 DEF InPlace

\* A log that may be extended by an event of a run is, and that event is the last
\* of the run.
LEMMA OneMoreEvent ==
  ASSUME NEW r \in Runs, NEW es, Extended(es, r),
         NEW e \in Event, e.run = r, MayFollow(es, r, e)
  PROVE  /\ Extended(Append(es, e), r)
         /\ IsLast(Append(es, e), r, Len(Append(es, e)))
         /\ Append(es, e)[Len(Append(es, e))] = e
<1> DEFINE log == Append(es, e)
<1>1. /\ es \in Seq(Event) /\ log \in Seq(Event)
      /\ Len(es) \in Nat /\ Len(log) = Len(es) + 1
      /\ DOMAIN es = 1..Len(es) /\ DOMAIN log = 1..(Len(es) + 1)
      /\ \A i \in 1..Len(es) : log[i] = es[i]
      /\ log[Len(es) + 1] = e
  BY AppendProperties, LenProperties DEF Extended
<1> HIDE DEF log
<1>2. ASSUME NEW i \in 1..Len(es) PROVE InPlace(log, i)
  <2>1. InPlace(es, i)
    BY <1>1 DEF Extended, Grammatical
  <2>2. i \in Nat /\ log[i] = es[i] /\ \A j \in 1..(i - 1) : log[j] = es[j] /\ j \in Nat
    BY <1>1
  <2>3. CASE es[i].tag = "session:start" /\ \A j \in 1..(i - 1) : es[j].run # es[i].run
    BY <2>2, <2>3 DEF InPlace
  <2>4. ASSUME NEW j \in 1..(i - 1), GoesWith(es, j, i)
        PROVE  InPlace(log, i)
    <3>1. ComesBefore(log, j, i)
      <4>1. \A k \in (j + 1)..(i - 1) : k \in 1..(i - 1)
        BY <2>2
      <4> QED
        BY <2>2, <2>4, <4>1 DEF GoesWith, ComesBefore
    <3>2. log[j] = es[j] /\ log[i] = es[i]
      BY <2>2
    <3> QED
      BY <2>2, <2>4, <3>1, <3>2, InPlaceIs DEF GoesWith
  <2> QED
    BY <2>1, <2>2, <2>3, <2>4, InPlaceIs
<1>3. InPlace(log, Len(es) + 1)
  <2>1. ASSUME NEW j \in DOMAIN es, IsLast(es, r, j), <<es[j].tag, e.tag>> \in Follows,
               e.tag \in {"tool:end", "tool:error"} => e.data[1] = es[j].data
        PROVE  InPlace(log, Len(es) + 1)
    <3>1. j \in 1..((Len(es) + 1) - 1) /\ log[j] = es[j] /\ log[Len(es) + 1] = e
      BY <1>1
    <3>2. ComesBefore(log, j, Len(es) + 1)
      BY <1>1, <2>1, <3>1 DEF ComesBefore, IsLast
    <3> QED
      <4>1. GoesWith(log, j, Len(es) + 1)
        BY <2>1, <3>1, <3>2 DEF GoesWith
      <4>2. Len(es) + 1 \in Nat
        BY <1>1
      <4> QED BY <3>1, <4>1, <4>2, InPlaceIs
  <2>2. CASE e.tag = "session:start" /\ \A i \in DOMAIN es : es[i].run # r
    <3>1. /\ log[Len(es) + 1] = e
          /\ \A j \in 1..((Len(es) + 1) - 1) : log[j].run # r
      BY <1>1, <2>2
    <3> QED
      BY <2>2, <3>1 DEF InPlace
  <2> QED
    BY <2>1, <2>2 DEF MayFollow
<1>4. Grammatical(log)
  BY <1>1, <1>2, <1>3 DEF Grammatical
<1>5. ASSUME NEW q \in Runs \ {r}, NEW i \in DOMAIN es, IsLast(es, q, i)
      PROVE  IsLast(log, q, i) /\ log[i] = es[i]
  BY <1>1, <1>5 DEF IsLast
<1>6. \A q \in Runs \ {r} : Fits(log, q, pc[q], calls[q])
  BY <1>1, <1>5 DEF Extended, Fits, IsLast
<1>7. Extended(log, r) /\ IsLast(log, r, Len(log)) /\ log[Len(log)] = e
  BY <1>1, <1>4, <1>6 DEF Extended, IsLast
<1> QED
  BY <1>7 DEF log

\* A step of run r that leaves it where its last event says.
LEMMA StepKeepsGrammar ==
  ASSUME TypeOK, NEW r \in Runs, NEW es, Extended(es, r), NEW p, NEW cs, Fits(es, r, p, cs),
         events' = es, pc' = [pc EXCEPT ![r] = p], calls' = [calls EXCEPT ![r] = cs]
  PROVE  GrammarInv'
<1>1. \A q \in Runs : Fits(es, q, pc'[q], calls'[q])
  BY DEF Extended, TypeOK
<1> QED
  BY <1>1 DEF GrammarInv, EventGrammar, Extended

\* A run that settles leaves a complete log behind.
LEMMA SettlingKeepsGrammar ==
  ASSUME TypeOK, NEW r \in Runs, NEW es, Extended(es, r),
         NEW how \in Settled, Finish(r, how, es)
  PROVE  GrammarInv'
<1>1. Fits(es, r, how, <<>>)
  BY DEF Fits, Settled
<1> QED
  BY <1>1, StepKeepsGrammar DEF Finish

\* Whatever ends the log of the step decides where the run may go.
LEMMA GoesOnKeepsGrammar ==
  ASSUME LoopTypes, NEW r \in Runs, NEW log, Extended(log, r), IsLast(log, r, Len(log)),
         NEW tag, log[Len(log)].tag = tag,
         \/ /\ tag \in {"message:user", "tool:end", "tool:error"}
            /\ messages' \in Seq(Message)
            /\ \E t \in Nat : BeginTurn(r, t, log)
         \/ /\ tag \in {"message:assistant", "tool:end", "tool:error"}
            /\ \E cs \in Seq(ToolCall) : cs # <<>> /\ BeginCall(r, cs, log)
         \/ /\ tag = "message:assistant"
            /\ \E n \in Nat :
                 Finish(r, "done", Append(log, Ev("session:end", r, <<"model_done", n>>)))
  PROVE  GrammarInv'
<1>0. TypeOK
  BY DEF LoopTypes
<1>1. \A e : /\ e.tag \notin {"tool:end", "tool:error"}
              /\ <<tag, e.tag>> \in Follows
              => MayFollow(log, r, e)
  BY DEF MayFollow, IsLast
<1>2. ASSUME NEW n \in Nat, NEW why \in Reasons, <<tag, "session:end">> \in Follows,
             Finish(r, "done", Append(log, Ev("session:end", r, <<why, n>>)))
      PROVE  GrammarInv'
  <2> DEFINE e == Ev("session:end", r, <<why, n>>)
  <2>1. e \in Event /\ e.run = r /\ e.tag = "session:end"
    BY EventTypes DEF Ev
  <2>2. MayFollow(log, r, e)
    BY <1>1, <1>2, <2>1
  <2>3. Extended(Append(log, e), r)
    BY <2>1, <2>2, OneMoreEvent
  <2> QED
    BY <1>0, <1>2, <2>3, SettlingKeepsGrammar DEF Settled
<1>3. ASSUME NEW t \in Nat, tag \in {"message:user", "tool:end", "tool:error"},
             messages' \in Seq(Message), BeginTurn(r, t, log)
      PROVE  GrammarInv'
  <2>1. CASE t < MaxTurns
    <3> DEFINE e == Ev("provider:request", r, <<t, Len(messages')>>)
    <3>1. t \in Turns /\ Len(messages') \in Nat
      BY <1>3, <2>1, TurnFacts, LenProperties
    <3>2. e \in Event /\ e.run = r /\ e.tag = "provider:request"
      BY <3>1, EventTypes DEF Ev
    <3>3. MayFollow(log, r, e)
      BY <1>1, <1>3, <3>2 DEF Follows
    <3>4. /\ pc' = [pc EXCEPT ![r] = "provider"] /\ calls' = [calls EXCEPT ![r] = <<>>]
          /\ events' = Append(log, e)
      BY <1>3, <2>1, LoopAssumption DEF BeginTurn
    <3> HIDE DEF e
    <3>5. /\ Extended(Append(log, e), r)
          /\ IsLast(Append(log, e), r, Len(Append(log, e)))
          /\ Append(log, e)[Len(Append(log, e))] = e
      BY <3>2, <3>3, OneMoreEvent
    <3>6. Fits(Append(log, e), r, "provider", <<>>)
      BY <3>2, <3>5 DEF Fits, IsLast
    <3> QED
      BY <1>0, <3>4, <3>5, <3>6, StepKeepsGrammar
  <2>2. CASE ~(t < MaxTurns)
    <3>1. Finish(r, "done", Append(log, Ev("session:end", r, <<"max_turns", MaxTurns>>)))
      BY <1>3, <2>2 DEF BeginTurn
    <3> QED
      BY <1>2, <1>3, <3>1, LoopAssumption DEF Reasons, Follows
  <2> QED
    BY <2>1, <2>2
<1>4. ASSUME NEW cs \in Seq(ToolCall), cs # <<>>,
             tag \in {"message:assistant", "tool:end", "tool:error"}, BeginCall(r, cs, log)
      PROVE  GrammarInv'
  <2>1. CASE Finish(r, "failed", log)
    BY <1>0, <2>1, SettlingKeepsGrammar DEF Settled
  <2>2. CASE Head(cs).args = "json"
    <3> DEFINE e == Ev("tool:start", r, Head(cs).id)
    <3>1. e \in Event /\ e.run = r /\ e.tag = "tool:start" /\ e.data = Head(cs).id
      BY <1>4, HeadIsToolCall, EventTypes DEF Ev
    <3>2. MayFollow(log, r, e)
      BY <1>1, <1>4, <3>1 DEF Follows
    <3>3. /\ pc' = [pc EXCEPT ![r] = "tool"] /\ calls' = [calls EXCEPT ![r] = cs]
          /\ events' = Append(log, e)
      BY <1>4, <2>2 DEF BeginCall
    <3> HIDE DEF e
    <3>4. /\ Extended(Append(log, e), r)
          /\ IsLast(Append(log, e), r, Len(Append(log, e)))
          /\ Append(log, e)[Len(Append(log, e))] = e
      BY <3>1, <3>2, OneMoreEvent
    <3>5. Fits(Append(log, e), r, "tool", cs)
      BY <1>4, <3>1, <3>4 DEF Fits, IsLast
    <3> QED
      BY <1>0, <3>3, <3>4, <3>5, StepKeepsGrammar
  <2> QED
    BY <1>4, <2>1, <2>2 DEF BeginCall
<1> QED
  BY <1>2, <1>3, <1>4 DEF Reasons, Follows

\* Two events are emitted one after the other.
LEMMA TwoEvents ==
  ASSUME NEW es \in Seq(Event), NEW d \in Event, NEW e \in Event
  PROVE  es \o <<d, e>> = Append(Append(es, d), e)
<1>1. <<d, e>> \in Seq(Event) /\ Len(<<d, e>>) = 2
  OBVIOUS
<1>2. /\ es \o <<d, e>> \in Seq(Event) /\ Len(es \o <<d, e>>) = Len(es) + 2
      /\ \A i \in 1..(Len(es) + 2) :
           (es \o <<d, e>>)[i] = IF i <= Len(es) THEN es[i] ELSE <<d, e>>[i - Len(es)]
  BY <1>1, ConcatProperties
<1>3. /\ Append(es, d) \in Seq(Event) /\ Len(Append(es, d)) = Len(es) + 1
      /\ \A i \in 1..Len(es) : Append(es, d)[i] = es[i]
      /\ Append(es, d)[Len(es) + 1] = d
  BY AppendProperties
<1>4. /\ Append(Append(es, d), e) \in Seq(Event)
      /\ Len(Append(Append(es, d), e)) = Len(es) + 2
      /\ \A i \in 1..(Len(es) + 1) : Append(Append(es, d), e)[i] = Append(es, d)[i]
      /\ Append(Append(es, d), e)[Len(es) + 2] = e
  BY <1>3, AppendProperties, LenProperties
<1>5. ASSUME NEW i \in 1..(Len(es) + 2)
      PROVE  (es \o <<d, e>>)[i] = Append(Append(es, d), e)[i]
  <2>1. CASE i <= Len(es)
    BY <1>2, <1>3, <1>4, <2>1, LenProperties
  <2>2. CASE i = Len(es) + 1
    BY <1>2, <1>3, <1>4, <2>2, LenProperties
  <2>3. CASE i = Len(es) + 2
    BY <1>2, <1>3, <1>4, <2>3, LenProperties
  <2> QED
    BY <2>1, <2>2, <2>3, LenProperties
<1> QED
  BY <1>2, <1>4, <1>5, SeqEqual

\* The log as it is extends itself.
LEMMA NowExtended ==
  ASSUME LoopTypes, GrammarInv, NEW r \in Runs
  PROVE  Extended(events, r)
BY DEF LoopTypes, GrammarInv, EventGrammar, Extended

\* A run opens with its session:start, and its first turn.
LEMMA StartRunKeepsGrammar ==
  ASSUME LoopTypes, GrammarInv, NEW r \in Runs, StartRun(r)
  PROVE  GrammarInv'
<1> DEFINE d    == Ev("session:start", r, 0)
           e    == Ev("message:user", r, 0)
           one  == Append(events, d)
           log  == Append(one, e)
<1>1. /\ d \in Event /\ d.run = r /\ d.tag = "session:start"
      /\ e \in Event /\ e.run = r /\ e.tag = "message:user"
  BY EventTypes DEF Ev
<1>2. messages' \in Seq(Message)
  BY MessageTypes, AppendProperties DEF LoopTypes, TypeOK, StartRun
<1>3. BeginTurn(r, 0, events \o <<d, e>>)
  BY DEF StartRun
<1> HIDE DEF d, e
<1>4. BeginTurn(r, 0, log)
  BY <1>1, <1>3, TwoEvents DEF LoopTypes
<1>5. MayFollow(events, r, d)
  BY <1>1 DEF GrammarInv, Fits, StartRun, MayFollow
<1>6. Extended(one, r) /\ IsLast(one, r, Len(one)) /\ one[Len(one)] = d
  BY <1>1, <1>5, NowExtended, OneMoreEvent
<1> HIDE DEF one
<1>7. MayFollow(one, r, e)
  BY <1>1, <1>6 DEF MayFollow, IsLast, Follows
<1>8. Extended(log, r) /\ IsLast(log, r, Len(log)) /\ log[Len(log)] = e
  BY <1>1, <1>6, <1>7, OneMoreEvent
<1> HIDE DEF log
<1> QED
  BY <1>1, <1>2, <1>4, <1>8, GoesOnKeepsGrammar

\* What follows an answer of the provider, or its failure, fits the turn.
LEMMA ProviderKeepsGrammar ==
  ASSUME LoopTypes, GrammarInv, NEW r \in Runs,
         \/ ProviderThrows(r)
         \/ ProviderReturnsNoMessage(r)
         \/ \E msg \in Replies(r, at[r]) : ProviderReplies(r, msg)
  PROVE  GrammarInv'
<1>0. /\ TypeOK /\ Extended(events, r) /\ events \in Seq(Event)
      /\ at[r] \in Turns /\ at[r] + 1 \in Nat
  BY NowExtended, TurnFacts DEF LoopTypes, TypeOK
<1>1. ASSUME NEW e \in Event, e.run = r,
             e.tag \in {"provider:response", "provider:error"}
      PROVE  MayFollow(events, r, e)
  <2>1. PICK i \in DOMAIN events : IsLast(events, r, i) /\ events[i].tag = "provider:request"
    BY DEF GrammarInv, Fits, ProviderThrows, ProviderReturnsNoMessage, ProviderReplies
  <2> QED
    BY <1>1, <2>1 DEF MayFollow, Follows
<1>2. CASE ProviderThrows(r)
  <2> DEFINE e == Ev("provider:error", r, at[r])
  <2>1. e \in Event /\ e.run = r /\ e.tag = "provider:error"
    BY <1>0, EventTypes DEF Ev
  <2>2. Extended(Append(events, e), r)
    BY <1>0, <1>1, <2>1, OneMoreEvent
  <2> QED
    BY <1>0, <1>2, <2>2, SettlingKeepsGrammar DEF ProviderThrows, Settled
<1>3. CASE ProviderReturnsNoMessage(r)
  BY <1>0, <1>3, SettlingKeepsGrammar DEF ProviderReturnsNoMessage, Settled
<1>4. ASSUME NEW msg \in Replies(r, at[r]), ProviderReplies(r, msg) PROVE GrammarInv'
  <2> DEFINE norm == Normalize(msg, at[r])
             ids  == [k \in DOMAIN norm.calls |-> norm.calls[k].id]
             d    == Ev("provider:response", r, <<at[r], msg.text, norm.rehydrated>>)
             e    == Ev("message:assistant", r, <<norm.text, ids>>)
             one  == Append(events, d)
             log  == Append(one, e)
  <2>1. /\ msg.text \in Texts /\ norm.text \in Texts /\ norm.rehydrated \in BOOLEAN
        /\ norm.calls \in Seq(ToolCall) /\ ids \in Seq(CallIds)
    BY <1>0, NormalizeFacts
  <2>2. \/ norm.calls # <<>> /\ BeginCall(r, norm.calls, events \o <<d, e>>)
        \/ Finish(r, "done", Append(events \o <<d, e>>,
                                    Ev("session:end", r, <<"model_done", at[r] + 1>>)))
    BY <1>4 DEF ProviderReplies
  <2> HIDE DEF norm, ids
  <2>3. /\ d \in Event /\ d.run = r /\ d.tag = "provider:response"
        /\ e \in Event /\ e.run = r /\ e.tag = "message:assistant"
    BY <1>0, <2>1, EventTypes DEF Ev
  <2> HIDE DEF d, e
  <2>4. Extended(one, r) /\ IsLast(one, r, Len(one)) /\ one[Len(one)] = d
    BY <1>0, <1>1, <2>3, OneMoreEvent
  <2>5. events \o <<d, e>> = log
    BY <1>0, <2>3, TwoEvents
  <2> HIDE DEF one
  <2>6. MayFollow(one, r, e)
    BY <2>3, <2>4 DEF MayFollow, IsLast, Follows
  <2>7. Extended(log, r) /\ IsLast(log, r, Len(log)) /\ log[Len(log)] = e
    BY <2>3, <2>4, <2>6, OneMoreEvent
  <2> HIDE DEF log
  <2> QED
    BY <1>0, <2>1, <2>2, <2>3, <2>5, <2>7, GoesOnKeepsGrammar
<1> QED
  BY <1>2, <1>3, <1>4

\* What follows the end of a tool call fits the call.
LEMMA ToolKeepsGrammar ==
  ASSUME LoopTypes, GrammarInv, NEW r \in Runs, NEW res \in ToolResults, ToolSettles(r, res)
  PROVE  GrammarInv'
<1> DEFINE id   == Head(calls[r]).id
           rest == Tail(calls[r])
           e    == IF res = "error" THEN Ev("tool:error", r, <<id, res>>)
                                    ELSE Ev("tool:end", r, <<id, Preview(res)>>)
           log  == Append(events, e)
<1>0. /\ messages \in Seq(Message) /\ Extended(events, r)
      /\ at[r] + 1 \in Nat /\ calls[r] \in Seq(ToolCall)
  BY NowExtended, TurnFacts DEF LoopTypes, TypeOK
<1>1. PICK i \in DOMAIN events :
        /\ IsLast(events, r, i) /\ events[i].tag = "tool:start"
        /\ calls[r] # <<>> /\ events[i].data = Head(calls[r]).id
  BY DEF GrammarInv, Fits, ToolSettles
<1>2. id \in CallIds /\ rest \in Seq(ToolCall)
  BY <1>0, <1>1, HeadIsToolCall
<1>3. /\ messages' = Append(messages, ToolMsg(r, id, res))
      /\ \/ rest # <<>> /\ BeginCall(r, rest, log)
         \/ rest = <<>> /\ BeginTurn(r, at[r] + 1, log)
  BY DEF ToolSettles
<1>4. messages' \in Seq(Message)
  BY <1>0, <1>2, <1>3, ResultTypes, MessageTypes, AppendProperties
<1>5. /\ e \in Event /\ e.run = r /\ e.tag \in {"tool:end", "tool:error"}
      /\ e.data[1] = id
  BY <1>2, ResultTypes, EventTypes DEF Ev, Preview
<1>6. MayFollow(events, r, e)
  BY <1>1, <1>5 DEF MayFollow, Follows
<1> HIDE DEF e, id, rest
<1>7. Extended(log, r) /\ IsLast(log, r, Len(log)) /\ log[Len(log)] = e
  BY <1>0, <1>5, <1>6, OneMoreEvent
<1> HIDE DEF log
<1> QED
  BY <1>0, <1>2, <1>3, <1>4, <1>5, <1>7, GoesOnKeepsGrammar

\* What a step needs of the state before: its types and the grammar.
LoopInv == LoopTypes /\ GrammarInv

\* Types and grammar hold at the start.
LEMMA LoopInvInit == Init => LoopInv
BY InitTypes DEF Init, LoopInv, GrammarInv, EventGrammar, Grammatical, Fits

\* A run that executes a tool has a call to execute.
LEMMA ToolHasCall ==
  ASSUME LoopInv, NEW r \in Runs, pc[r] = "tool"
  PROVE  calls[r] # <<>>
BY DEF LoopInv, GrammarInv, Fits

\* Every step keeps the types and the grammar.
LEMMA LoopInvNext == LoopInv /\ [Next]_loopVars => LoopInv'
<1> SUFFICES ASSUME LoopInv, [Next]_loopVars PROVE LoopInv'
  OBVIOUS
<1>0. LoopTypes /\ GrammarInv
  BY DEF LoopInv
<1>1. CASE UNCHANGED loopVars
  <2>1. LoopTypes'
    BY <1>0, <1>1 DEF LoopTypes, TypeOK, loopVars
  <2>2. GrammarInv'
    BY <1>0, <1>1 DEF GrammarInv, EventGrammar, loopVars
  <2> QED
    BY <2>1, <2>2 DEF LoopInv
<1>2. ASSUME NEW r \in Runs, StartRun(r) PROVE LoopInv'
  BY <1>0, <1>2, StartRunTypes, StartRunKeepsGrammar DEF LoopInv
<1>3. ASSUME NEW r \in Runs,
             \/ ProviderThrows(r)
             \/ ProviderReturnsNoMessage(r)
             \/ \E msg \in Replies(r, at[r]) : ProviderReplies(r, msg)
      PROVE  LoopInv'
  BY <1>0, <1>3, ProviderTypes, ProviderKeepsGrammar DEF LoopInv
<1>4. ASSUME NEW r \in Runs, NEW res \in ToolResults, ToolSettles(r, res) PROVE LoopInv'
  <2>1. calls[r] # <<>>
    BY <1>4, ToolHasCall DEF ToolSettles
  <2> QED
    BY <1>0, <1>4, <2>1, ToolTypes, ToolKeepsGrammar DEF LoopInv
<1> QED
  BY <1>1, <1>2, <1>3, <1>4 DEF Next, Resume

\* The types of the session and of what its runs hold, for any number of runs, of
\* turns and of calls (run() in loop.ts).
THEOREM LoopTypesAlways == Spec => []TypeOK
<1>1. LoopInv => TypeOK
  BY DEF LoopInv, LoopTypes
<1> QED
  BY <1>1, LoopInvInit, LoopInvNext, PTL DEF Spec

\* The events of each run follow the grammar of the event table, whatever runs
\* overlap, throw or come back malformed (the emits of loop.ts).
THEOREM EventGrammarAlways == Spec => []EventGrammar
<1>1. LoopInv => EventGrammar
  BY DEF LoopInv, GrammarInv
<1> QED
  BY <1>1, LoopInvInit, LoopInvNext, PTL DEF Spec

-----------------------------------------------------------------------------
(* The events tell the message buffer                                      *)

\* The events on the tape are counted, and the count only grows along the log.
LEMMA TapeCounts ==
  ASSUME NEW es, NEW n \in Nat
  PROVE  /\ IsFiniteSet(Taped(es, n))
         /\ Tape(es, n) \in Nat
         /\ \A m \in 0..n : Tape(es, m) <= Tape(es, n)
<1>1. ASSUME NEW m \in 0..n
      PROVE  /\ IsFiniteSet(Taped(es, m))
             /\ Tape(es, m) \in Nat
  <2>1. IsFiniteSet(1..m)
    BY FS_Interval
  <2>2. Taped(es, m) \in SUBSET (1..m)
    BY DEF Taped
  <2>3. IsFiniteSet(Taped(es, m))
    BY <2>1, <2>2, FS_Subset
  <2> QED
    BY <2>3, FS_CardinalityType DEF Tape
<1>2. n \in 0..n
  OBVIOUS
<1>3. ASSUME NEW m \in 0..n PROVE Tape(es, m) <= Tape(es, n)
  <2>1. Taped(es, m) \in SUBSET Taped(es, n)
    BY DEF Taped
  <2> QED
    BY <1>1, <1>2, <2>1, FS_Subset DEF Tape
<1> QED
  BY <1>1, <1>2, <1>3

\* An event more is one more on the tape, or none.
LEMMA TapeOfAppend ==
  ASSUME NEW es \in Seq(Event), NEW e \in Event
  PROVE  /\ \A n \in 0..Len(es) : Tape(Append(es, e), n) = Tape(es, n)
         /\ Tape(Append(es, e), Len(es) + 1)
              = Tape(es, Len(es)) + (IF e.tag \in OnTape THEN 1 ELSE 0)
<1> DEFINE log == Append(es, e)
<1>1. /\ Len(es) \in Nat
      /\ \A i \in 1..Len(es) : log[i] = es[i]
      /\ log[Len(es) + 1] = e
  BY AppendProperties, LenProperties
<1> HIDE DEF log
<1>2. ASSUME NEW n \in 0..Len(es) PROVE Tape(log, n) = Tape(es, n)
  <2>1. \A i \in 1..n : log[i] = es[i]
    BY <1>1
  <2>2. Taped(log, n) = Taped(es, n)
    BY <2>1 DEF Taped
  <2> QED
    BY <2>2 DEF Tape
<1>3. Tape(log, Len(es) + 1) = Tape(es, Len(es)) + (IF e.tag \in OnTape THEN 1 ELSE 0)
  <2> DEFINE S == Taped(es, Len(es))
             T == Taped(log, Len(es) + 1)
  <2>1. IsFiniteSet(S) /\ Len(es) + 1 \notin S
    <3>1. IsFiniteSet(S)
      BY <1>1, TapeCounts
    <3>2. Len(es) + 1 \notin S
      BY <1>1 DEF Taped
    <3> QED
      BY <3>1, <3>2
  <2>2. T = IF e.tag \in OnTape THEN S \cup {Len(es) + 1} ELSE S
    BY <1>1 DEF Taped
  <2>3. Cardinality(S) = Tape(es, Len(es)) /\ Cardinality(T) = Tape(log, Len(es) + 1)
    BY DEF Tape
  <2>4. Tape(es, Len(es)) \in Nat
    BY <1>1, TapeCounts
  <2> HIDE DEF S, T
  <2>5. Cardinality(S \cup {Len(es) + 1}) = Cardinality(S) + 1
    BY <2>1, FS_AddElement
  <2> QED
    BY <2>2, <2>3, <2>4, <2>5
<1> QED
  BY <1>2, <1>3 DEF log

\* An event that stands for no message.
LEMMA SilentEvent ==
  ASSUME NEW es \in Seq(Event), NEW ms \in Seq(Message), Tells(es, ms),
         NEW e \in Event, e.tag \notin OnTape
  PROVE  Tells(Append(es, e), ms)
<1> DEFINE log == Append(es, e)
<1>1. /\ Len(es) \in Nat /\ Len(log) = Len(es) + 1 /\ DOMAIN log = 1..(Len(es) + 1)
      /\ DOMAIN es = 1..Len(es)
      /\ \A i \in 1..Len(es) : log[i] = es[i]
      /\ log[Len(es) + 1] = e
  BY AppendProperties, LenProperties
<1>2. /\ \A n \in 0..Len(es) : Tape(log, n) = Tape(es, n)
      /\ Tape(log, Len(es) + 1) = Tape(es, Len(es))
      /\ Tape(es, Len(es)) \in Nat
  BY <1>1, TapeOfAppend, TapeCounts
<1> HIDE DEF log
<1> QED
  BY <1>1, <1>2 DEF Tells, log

\* An event that stands for the message put on the tape.
LEMMA ToldEvent ==
  ASSUME NEW es \in Seq(Event), NEW ms \in Seq(Message), Tells(es, ms),
         NEW e \in Event, e.tag \in OnTape,
         NEW m \in Message, m = MessageOf(e)
  PROVE  Tells(Append(es, e), Append(ms, m))
<1> DEFINE log  == Append(es, e)
           tape == Append(ms, m)
<1>1. /\ Len(es) \in Nat /\ Len(log) = Len(es) + 1 /\ DOMAIN log = 1..(Len(es) + 1)
      /\ DOMAIN es = 1..Len(es)
      /\ \A i \in 1..Len(es) : log[i] = es[i]
      /\ log[Len(es) + 1] = e
  BY AppendProperties, LenProperties
<1>2. /\ Len(ms) \in Nat /\ Len(tape) = Len(ms) + 1
      /\ \A i \in 1..Len(ms) : tape[i] = ms[i]
      /\ tape[Len(ms) + 1] = m
  BY AppendProperties, LenProperties
<1>3. /\ \A n \in 0..Len(es) : Tape(log, n) = Tape(es, n)
      /\ Tape(log, Len(es) + 1) = Tape(es, Len(es)) + 1
  BY TapeOfAppend
<1>4. /\ Tape(es, Len(es)) \in Nat
      /\ \A n \in 0..Len(es) : Tape(es, n) \in Nat /\ Tape(es, n) <= Tape(es, Len(es))
  BY <1>1, TapeCounts
<1> HIDE DEF log, tape
<1>5. Len(tape) = 1 + Tape(log, Len(log)) /\ tape[1] = SystemMsg
  BY <1>1, <1>2, <1>3, <1>4 DEF Tells
<1>6. ASSUME NEW i \in DOMAIN log, log[i].tag \in OnTape
      PROVE  tape[1 + Tape(log, i)] = MessageOf(log[i])
  <2>1. CASE i \in 1..Len(es)
    <3>1. ms[1 + Tape(es, i)] = MessageOf(es[i]) /\ log[i] = es[i]
      BY <1>1, <1>6, <2>1 DEF Tells
    <3>2. 1 + Tape(es, i) \in 1..Len(ms) /\ Tape(log, i) = Tape(es, i)
      BY <1>3, <1>4, <2>1, <1>1 DEF Tells
    <3> QED
      BY <1>2, <3>1, <3>2
  <2>2. CASE i = Len(es) + 1
    <3>1. 1 + Tape(log, i) = Len(ms) + 1
      BY <1>3, <1>4, <2>2 DEF Tells
    <3> QED
      BY <1>1, <1>2, <2>2, <3>1
  <2> QED
    BY <1>1, <2>1, <2>2
<1>7. Tells(log, tape)
  BY <1>5, <1>6 DEF Tells
<1> QED
  BY <1>7 DEF log, tape

\* Where run r goes next it emits at most one more event.
OneMore(r, log) ==
  \/ events' = log /\ pc'[r] = "failed"
  \/ \E e \in Event :
       /\ e.run = r /\ e.tag \in {"session:end", "provider:request", "tool:start"}
       /\ e.tag = "tool:start" => pc'[r] = "tool" /\ e.data = Head(calls'[r]).id
       /\ e.tag = "provider:request" => e.data[2] = Len(messages')
       /\ e.tag = "session:end" <=> pc'[r] = "done"
       /\ events' = Append(log, e)

\* However a run goes on, it emits at most one event, and none of the tape.
LEMMA GoesOnEvent ==
  ASSUME TypeOK, messages' \in Seq(Message), NEW r \in Runs, NEW log,
         \/ Finish(r, "failed", log)
         \/ \E n \in Nat, why \in Reasons :
              Finish(r, "done", Append(log, Ev("session:end", r, <<why, n>>)))
         \/ \E t \in Nat : BeginTurn(r, t, log)
         \/ \E cs \in Seq(ToolCall) : cs # <<>> /\ BeginCall(r, cs, log)
  PROVE  OneMore(r, log)
<1>1. ASSUME NEW n \in Nat, NEW why \in Reasons, pc' = [pc EXCEPT ![r] = "done"],
             events' = Append(log, Ev("session:end", r, <<why, n>>))
      PROVE  OneMore(r, log)
  <2>0. pc'[r] = "done"
    BY <1>1 DEF TypeOK
  <2>1. /\ Ev("session:end", r, <<why, n>>) \in Event
        /\ Ev("session:end", r, <<why, n>>).tag = "session:end"
        /\ Ev("session:end", r, <<why, n>>).run = r
    BY EventTypes DEF Ev
  <2> QED
    BY <1>1, <2>0, <2>1 DEF OneMore
<1>2. ASSUME NEW t \in Nat, BeginTurn(r, t, log) PROVE OneMore(r, log)
  <2>1. CASE t < MaxTurns
    <3> DEFINE e == Ev("provider:request", r, <<t, Len(messages')>>)
    <3>1. t \in Turns /\ Len(messages') \in Nat
      BY <2>1, TurnFacts, LenProperties
    <3>2. /\ e \in Event /\ e.tag = "provider:request" /\ e.run = r
          /\ e.data[2] = Len(messages')
      BY <3>1, EventTypes DEF Ev
    <3>3. events' = Append(log, e) /\ pc'[r] = "provider"
      BY <1>2, <2>1, LoopAssumption DEF BeginTurn, TypeOK
    <3> HIDE DEF e
    <3> QED
      BY <3>2, <3>3 DEF OneMore
  <2>2. CASE ~(t < MaxTurns)
    BY <1>1, <1>2, <2>2, LoopAssumption DEF BeginTurn, Finish, Reasons
  <2> QED
    BY <2>1, <2>2
<1>3. ASSUME NEW cs \in Seq(ToolCall), cs # <<>>, BeginCall(r, cs, log)
      PROVE  OneMore(r, log)
  <2> DEFINE e == Ev("tool:start", r, Head(cs).id)
  <2>1. e \in Event /\ e.tag = "tool:start" /\ e.run = r /\ e.data = Head(cs).id
    BY <1>3, HeadIsToolCall, EventTypes DEF Ev
  <2>2. \/ events' = log /\ pc'[r] = "failed"
        \/ events' = Append(log, e) /\ pc'[r] = "tool" /\ calls'[r] = cs
    BY <1>3 DEF BeginCall, Finish, TypeOK
  <2> HIDE DEF e
  <2> QED
    BY <2>1, <2>2 DEF OneMore
<1> QED
  BY <1>1, <1>2, <1>3 DEF Finish, OneMore, TypeOK

\* It says nothing of the tape then, and puts nothing on it.
LEMMA GoesOnTells ==
  ASSUME NEW ms \in Seq(Message), messages' = ms, NEW r, NEW log \in Seq(Event),
         Tells(log, ms), OneMore(r, log)
  PROVE  EventsReconstructHistory'
<1>1. Tells(events', ms)
  BY SilentEvent DEF OneMore, OnTape
<1> QED
  BY <1>1 DEF EventsReconstructHistory

\* The message of the user is told of as it is pushed.
LEMMA StartRunTells ==
  ASSUME LoopTypes, EventsReconstructHistory, NEW r \in Runs, StartRun(r)
  PROVE  EventsReconstructHistory'
<1> DEFINE d   == Ev("session:start", r, 0)
           e   == Ev("message:user", r, 0)
           one == Append(events, d)
           log == Append(one, e)
<1>1. /\ d \in Event /\ d.tag = "session:start"
      /\ e \in Event /\ e.tag = "message:user" /\ MessageOf(e) = UserMsg(r)
  BY EventTypes DEF Ev, MessageOf
<1>2. /\ events \in Seq(Event) /\ messages \in Seq(Message) /\ UserMsg(r) \in Message
      /\ messages' = Append(messages, UserMsg(r)) /\ messages' \in Seq(Message)
  BY MessageTypes, AppendProperties DEF LoopTypes, TypeOK, StartRun
<1>3. BeginTurn(r, 0, events \o <<d, e>>)
  BY DEF StartRun
<1> HIDE DEF d, e
<1>4. BeginTurn(r, 0, log)
  BY <1>1, <1>2, <1>3, TwoEvents
<1>5. one \in Seq(Event) /\ Tells(one, messages)
  BY <1>1, <1>2, SilentEvent, AppendProperties DEF EventsReconstructHistory, OnTape
<1> HIDE DEF one
<1>6. log \in Seq(Event)
  BY <1>1, <1>5, AppendProperties
<1>7. Tells(log, messages')
  BY <1>1, <1>2, <1>5, ToldEvent DEF OnTape
<1>8. TypeOK
  BY DEF LoopTypes
<1>9. OneMore(r, log)
  BY <1>2, <1>4, <1>8, GoesOnEvent
<1> QED
  BY <1>2, <1>6, <1>7, <1>9, GoesOnTells

\* So is the message of the assistant.
LEMMA ProviderTells ==
  ASSUME LoopTypes, EventsReconstructHistory, NEW r \in Runs,
         \/ ProviderThrows(r)
         \/ ProviderReturnsNoMessage(r)
         \/ \E msg \in Replies(r, at[r]) : ProviderReplies(r, msg)
  PROVE  EventsReconstructHistory'
<1>0. /\ events \in Seq(Event) /\ messages \in Seq(Message) /\ Tells(events, messages)
      /\ at[r] \in Turns /\ at[r] + 1 \in Nat
  BY TurnFacts DEF LoopTypes, TypeOK, EventsReconstructHistory
<1>1. CASE ProviderThrows(r)
  <2> DEFINE e == Ev("provider:error", r, at[r])
  <2>1. e \in Event /\ e.tag \notin OnTape
    BY <1>0, EventTypes DEF Ev, OnTape
  <2>2. Tells(Append(events, e), messages)
    BY <1>0, <2>1, SilentEvent
  <2> QED
    BY <1>1, <2>2 DEF ProviderThrows, Finish, EventsReconstructHistory
<1>2. CASE ProviderReturnsNoMessage(r)
  BY <1>0, <1>2 DEF ProviderReturnsNoMessage, Finish, EventsReconstructHistory
<1>3. ASSUME NEW msg \in Replies(r, at[r]), ProviderReplies(r, msg)
      PROVE  EventsReconstructHistory'
  <2> DEFINE norm == Normalize(msg, at[r])
             ids  == [k \in DOMAIN norm.calls |-> norm.calls[k].id]
             d    == Ev("provider:response", r, <<at[r], msg.text, norm.rehydrated>>)
             e    == Ev("message:assistant", r, <<norm.text, ids>>)
             one  == Append(events, d)
             log  == Append(one, e)
  <2>1. /\ msg.text \in Texts /\ norm.text \in Texts /\ norm.rehydrated \in BOOLEAN
        /\ norm.calls \in Seq(ToolCall) /\ ids \in Seq(CallIds)
    BY <1>0, NormalizeFacts
  <2>2. /\ messages' = Append(messages, AssistantMsg(r, norm.text, ids))
        /\ \/ norm.calls # <<>> /\ BeginCall(r, norm.calls, events \o <<d, e>>)
           \/ Finish(r, "done", Append(events \o <<d, e>>,
                                       Ev("session:end", r, <<"model_done", at[r] + 1>>)))
    BY <1>3 DEF ProviderReplies
  <2> HIDE DEF norm, ids
  <2>3. /\ d \in Event /\ d.tag = "provider:response"
        /\ e \in Event /\ e.tag = "message:assistant"
        /\ MessageOf(e) = AssistantMsg(r, norm.text, ids)
    BY <1>0, <2>1, EventTypes DEF Ev, MessageOf
  <2>4. /\ AssistantMsg(r, norm.text, ids) \in Message
        /\ messages' \in Seq(Message)
    BY <1>0, <2>1, <2>2, MessageTypes, AppendProperties
  <2> HIDE DEF d, e
  <2>5. one \in Seq(Event) /\ Tells(one, messages)
    BY <1>0, <2>3, SilentEvent, AppendProperties DEF OnTape
  <2>6. events \o <<d, e>> = log
    BY <1>0, <2>3, TwoEvents
  <2> HIDE DEF one
  <2>7. log \in Seq(Event)
    BY <2>3, <2>5, AppendProperties
  <2>8. Tells(log, messages')
    BY <1>0, <2>2, <2>3, <2>4, <2>5, ToldEvent DEF OnTape
  <2> HIDE DEF log
  <2>9. TypeOK
    BY DEF LoopTypes
  <2>10. OneMore(r, log)
    BY <1>0, <2>1, <2>2, <2>4, <2>6, <2>9, GoesOnEvent DEF Reasons
  <2> QED
    BY <2>4, <2>7, <2>8, <2>10, GoesOnTells
<1> QED
  BY <1>1, <1>2, <1>3

\* So is the result of a tool, where no preview is cut.
LEMMA ToolTells ==
  ASSUME "long result" \notin Faults, LoopInv, EventsReconstructHistory,
         NEW r \in Runs, NEW res \in ToolResults, ToolSettles(r, res)
  PROVE  EventsReconstructHistory'
<1> DEFINE id   == Head(calls[r]).id
           rest == Tail(calls[r])
           e    == IF res = "error" THEN Ev("tool:error", r, <<id, res>>)
                                    ELSE Ev("tool:end", r, <<id, Preview(res)>>)
           log  == Append(events, e)
<1>0. /\ events \in Seq(Event) /\ messages \in Seq(Message) /\ Tells(events, messages)
      /\ at[r] + 1 \in Nat /\ calls[r] \in Seq(ToolCall)
  BY TurnFacts DEF LoopInv, LoopTypes, TypeOK, EventsReconstructHistory
<1>1. calls[r] # <<>>
  BY ToolHasCall DEF ToolSettles
<1>2. id \in CallIds /\ rest \in Seq(ToolCall)
  BY <1>0, <1>1, HeadIsToolCall
<1>3. /\ messages' = Append(messages, ToolMsg(r, id, res))
      /\ \/ rest # <<>> /\ BeginCall(r, rest, log)
         \/ rest = <<>> /\ BeginTurn(r, at[r] + 1, log)
  BY DEF ToolSettles
<1>4. Preview(res) = res
  BY DEF ToolResults, Preview
<1>5. /\ e \in Event /\ e.tag \in {"tool:end", "tool:error"}
      /\ MessageOf(e) = ToolMsg(r, id, res)
  BY <1>2, <1>4, ResultTypes, EventTypes DEF Ev, MessageOf
<1>6. ToolMsg(r, id, res) \in Message /\ messages' \in Seq(Message)
  BY <1>0, <1>2, <1>3, ResultTypes, MessageTypes, AppendProperties
<1> HIDE DEF e, id, rest
<1>7. log \in Seq(Event)
  BY <1>0, <1>5, AppendProperties
<1>8. Tells(log, messages')
  BY <1>0, <1>3, <1>5, <1>6, ToldEvent DEF OnTape
<1> HIDE DEF log
<1>9. TypeOK
  BY DEF LoopInv, LoopTypes
<1>10. OneMore(r, log)
  BY <1>0, <1>2, <1>3, <1>6, <1>9, GoesOnEvent
<1> QED
  BY <1>6, <1>7, <1>8, <1>10, GoesOnTells

\* Every step keeps history and events in agreement.
LEMMA NextTells ==
  ASSUME "long result" \notin Faults, LoopInv, EventsReconstructHistory, [Next]_loopVars
  PROVE  EventsReconstructHistory'
<1>1. CASE UNCHANGED loopVars
  BY <1>1 DEF EventsReconstructHistory, loopVars
<1>2. LoopTypes
  BY DEF LoopInv
<1> QED
  BY <1>1, <1>2, StartRunTells, ProviderTells, ToolTells DEF Next, Resume

\* Neither history nor events at the start.
LEMMA InitTells == Init => EventsReconstructHistory
<1> SUFFICES ASSUME Init PROVE EventsReconstructHistory
  OBVIOUS
<1>1. Taped(events, 0) = {}
  BY DEF Taped
<1>2. Tape(events, 0) = 0
  BY <1>1, FS_EmptySet DEF Tape
<1> QED
  BY <1>2 DEF Init, EventsReconstructHistory, Tells

\* The message buffer can be rebuilt from the events, overlapping runs and failed
\* ones included, as long as no tool result is cut to its preview
\* (TOOL_RESULT_PREVIEW_CHARS in loop.ts).
THEOREM EventsReconstructHistoryAlways ==
  ASSUME "long result" \notin Faults
  PROVE  Spec => []EventsReconstructHistory
<1>1. LoopInv /\ EventsReconstructHistory /\ [Next]_loopVars
        => LoopInv' /\ EventsReconstructHistory'
  BY LoopInvNext, NextTells
<1> QED
  BY <1>1, LoopInvInit, InitTells, PTL DEF Spec

-----------------------------------------------------------------------------
(* Tool calls and their answers on a tape                                  *)

\* One more message leaves the others where they are.
LEMMA OneMoreMessage ==
  ASSUME NEW ms \in Seq(Message), NEW m \in Message
  PROVE  LET tape == Append(ms, m)
         IN /\ tape \in Seq(Message) /\ Len(ms) \in Nat /\ Len(tape) = Len(ms) + 1
            /\ DOMAIN ms = 1..Len(ms) /\ DOMAIN tape = 1..(Len(ms) + 1)
            /\ \A i \in 1..Len(ms) : tape[i] = ms[i]
            /\ tape[Len(ms) + 1] = m
BY AppendProperties, LenProperties

\* The calls of a message are numbered from one.
LEMMA CallsOfMessage ==
  ASSUME NEW ms \in Seq(Message), NEW i \in 1..Len(ms)
  PROVE  /\ ms[i] \in Message
         /\ ms[i].calls \in Seq(CallIds)
         /\ Len(ms[i].calls) \in Nat
         /\ DOMAIN ms[i].calls = 1..Len(ms[i].calls)
         /\ \A k \in DOMAIN ms[i].calls : k \in Nat /\ k > 0 /\ ms[i].calls[k] \in CallIds
<1>1. ms[i] \in Message
  BY ElementOfSeq
<1>2. ms[i].calls \in Seq(CallIds)
  BY <1>1 DEF Message
<1>3. /\ Len(ms[i].calls) \in Nat
      /\ DOMAIN ms[i].calls = 1..Len(ms[i].calls)
      /\ \A k \in 1..Len(ms[i].calls) : ms[i].calls[k] \in CallIds
  BY <1>2, LenProperties, ElementOfSeq
<1> QED
  BY <1>1, <1>2, <1>3

\* What holds of a message and those behind it goes on holding.
LEMMA AnswersStay ==
  ASSUME NEW ms \in Seq(Message), NEW m \in Message, NEW i \in 1..Len(ms)
  PROVE  /\ CallsAnswered(ms, i) => CallsAnswered(Append(ms, m), i)
         /\ IsAnswer(ms, i) => IsAnswer(Append(ms, m), i)
<1> DEFINE tape == Append(ms, m)
<1>1. /\ Len(ms) \in Nat /\ i \in Nat
      /\ DOMAIN ms = 1..Len(ms) /\ DOMAIN tape = 1..(Len(ms) + 1)
      /\ \A j \in 1..Len(ms) : tape[j] = ms[j]
  BY OneMoreMessage
<1>2. \A k \in DOMAIN ms[i].calls : k \in Nat /\ k > 0
  BY CallsOfMessage
<1> HIDE DEF tape
<1>3. ASSUME CallsAnswered(ms, i) PROVE CallsAnswered(tape, i)
  <2>1. ASSUME NEW k \in DOMAIN ms[i].calls
        PROVE  i + k \in DOMAIN tape /\ tape[i + k].answers = ms[i].calls[k]
    <3>1. i + k \in DOMAIN ms /\ ms[i + k].answers = ms[i].calls[k]
      BY <1>3 DEF CallsAnswered
    <3> QED
      BY <1>1, <3>1
  <2> QED
    BY <1>1, <2>1 DEF CallsAnswered
<1>4. ASSUME IsAnswer(ms, i) PROVE IsAnswer(tape, i)
  <2>1. \A k \in 1..(i - 1) : tape[i - k] = ms[i - k]
    BY <1>1
  <2> QED
    BY <1>1, <1>4, <2>1 DEF IsAnswer
<1> QED
  BY <1>3, <1>4 DEF tape

\* A message of the system or the user, or a reply without tool calls.
LEMMA PlainMessage ==
  ASSUME NEW ms \in Seq(Message), Answered(ms),
         NEW m \in Message, m.calls = <<>>, m.role # "tool"
  PROVE  Answered(Append(ms, m))
<1> DEFINE tape == Append(ms, m)
<1>1. /\ DOMAIN ms = 1..Len(ms) /\ DOMAIN tape = 1..(Len(ms) + 1) /\ Len(ms) \in Nat
      /\ tape[Len(ms) + 1] = m
  BY OneMoreMessage
<1>2. \A i \in 1..Len(ms) : CallsAnswered(tape, i) /\ IsAnswer(tape, i)
  BY <1>1, AnswersStay DEF Answered
<1> HIDE DEF tape
<1>3. CallsAnswered(tape, Len(ms) + 1) /\ IsAnswer(tape, Len(ms) + 1)
  BY <1>1 DEF CallsAnswered, IsAnswer
<1>4. Answered(tape)
  BY <1>1, <1>2, <1>3 DEF Answered
<1> QED
  BY <1>4 DEF tape

\* A reply with tool calls: they are open.
LEMMA OpeningMessage ==
  ASSUME NEW ms \in Seq(Message), Answered(ms), NEW cs \in Seq(ToolCall),
         NEW m \in Message, m.calls = [k \in DOMAIN cs |-> cs[k].id], m.role # "tool"
  PROVE  AnsweredUpTo(Append(ms, m), cs)
<1> DEFINE tape == Append(ms, m)
           new  == Len(ms) + 1
<1>1. /\ DOMAIN ms = 1..Len(ms) /\ DOMAIN tape = 1..(Len(ms) + 1) /\ Len(ms) \in Nat
      /\ Len(tape) = Len(ms) + 1 /\ tape[Len(ms) + 1] = m
  BY OneMoreMessage
<1>2. \A i \in 1..Len(ms) : CallsAnswered(tape, i) /\ IsAnswer(tape, i)
  BY <1>1, AnswersStay DEF Answered
<1> HIDE DEF tape
<1>3. \A j \in DOMAIN tape : IsAnswer(tape, j)
  <2>1. IsAnswer(tape, new)
    BY <1>1 DEF IsAnswer
  <2> QED
    BY <1>1, <1>2, <2>1
<1>4. /\ new \in DOMAIN tape /\ Len(tape) - new = 0
      /\ \A j \in DOMAIN tape \ {new} : CallsAnswered(tape, j)
  BY <1>1, <1>2
<1>5. Len(cs) \in Nat /\ DOMAIN cs = 1..Len(cs)
  BY LenProperties
<1>6. /\ tape[new].calls = [k \in 1..Len(cs) |-> cs[k].id]
      /\ Len(tape[new].calls) = Len(cs)
      /\ DOMAIN tape[new].calls = 1..Len(cs)
      /\ \A k \in 1..Len(cs) : tape[new].calls[k] = cs[k].id
  BY <1>1, <1>5
<1>7. AnsweredUpTo(tape, cs)
  BY <1>3, <1>4, <1>5, <1>6 DEF AnsweredUpTo
<1> QED
  BY <1>7 DEF tape

\* The answer to the first of the open calls.
LEMMA AnsweringMessage ==
  ASSUME NEW ms \in Seq(Message), NEW cs \in Seq(ToolCall), cs # <<>>, AnsweredUpTo(ms, cs),
         NEW m \in Message, m.calls = <<>>, m.answers = Head(cs).id
  PROVE  AnsweredUpTo(Append(ms, m), Tail(cs))
<1> DEFINE tape == Append(ms, m)
           rest == Tail(cs)
<1>1. /\ DOMAIN ms = 1..Len(ms) /\ DOMAIN tape = 1..(Len(ms) + 1) /\ Len(ms) \in Nat
      /\ Len(tape) = Len(ms) + 1 /\ tape[Len(ms) + 1] = m
      /\ \A j \in 1..Len(ms) : tape[j] = ms[j]
  BY OneMoreMessage
<1>2. \A j \in 1..Len(ms) :
        /\ CallsAnswered(ms, j) => CallsAnswered(tape, j)
        /\ IsAnswer(ms, j) => IsAnswer(tape, j)
  BY AnswersStay
<1>3. /\ Len(cs) \in Nat /\ Len(cs) > 0 /\ Len(rest) = Len(cs) - 1
      /\ Head(cs) = cs[1]
      /\ \A k \in 1..Len(rest) : rest[k] = cs[k + 1]
  BY HeadTailProperties, LenProperties, EmptySeq
<1> HIDE DEF tape, rest
<1>4. PICK i \in DOMAIN ms :
        /\ \A j \in DOMAIN ms \ {i} : CallsAnswered(ms, j)
        /\ Len(ms[i].calls) = (Len(ms) - i) + Len(cs)
        /\ \A k \in DOMAIN ms[i].calls :
             IF k <= Len(ms) - i THEN ms[i + k].answers = ms[i].calls[k]
                                 ELSE cs[k - (Len(ms) - i)].id = ms[i].calls[k]
  BY DEF AnsweredUpTo
<1> DEFINE ids == ms[i].calls
           n   == (Len(ms) - i) + 1
<1>5. /\ Len(ids) \in Nat /\ DOMAIN ids = 1..Len(ids) /\ i \in 1..Len(ms)
      /\ tape[i].calls = ids
  BY <1>1, <1>4, CallsOfMessage
<1> HIDE DEF ids
<1>6. n \in DOMAIN ids /\ ids[n] = m.answers
  <2>1. n \in DOMAIN ids /\ ~(n <= Len(ms) - i) /\ n - (Len(ms) - i) = 1
    BY <1>1, <1>3, <1>4, <1>5 DEF ids
  <2> QED
    BY <1>3, <1>4, <2>1 DEF ids
<1>7. \A j \in DOMAIN tape : IsAnswer(tape, j)
  <2>1. \A j \in 1..Len(ms) : IsAnswer(tape, j)
    BY <1>1, <1>2 DEF AnsweredUpTo
  <2>2. n \in 1..((Len(ms) + 1) - 1) /\ (Len(ms) + 1) - n = i
    BY <1>1, <1>5
  <2>3. IsAnswer(tape, Len(ms) + 1)
    BY <1>1, <1>5, <1>6, <2>2 DEF IsAnswer
  <2> QED
    BY <1>1, <2>1, <2>3
<1>8. \A j \in DOMAIN tape \ {i} : CallsAnswered(tape, j)
  <2>1. CallsAnswered(tape, Len(ms) + 1)
    BY <1>1 DEF CallsAnswered
  <2> QED
    BY <1>1, <1>2, <1>4, <2>1
<1>9. ASSUME NEW k \in DOMAIN ids
      PROVE  IF k <= Len(tape) - i THEN tape[i + k].answers = ids[k]
                                   ELSE rest[k - (Len(tape) - i)].id = ids[k]
  <2>1. CASE k <= Len(ms) - i
    <3>1. i + k \in 1..Len(ms)
      BY <1>1, <1>5, <2>1
    <3> QED
      BY <1>1, <1>4, <1>5, <2>1, <3>1 DEF ids
  <2>2. CASE k = n
    BY <1>1, <1>5, <1>6, <2>2
  <2>3. CASE k > n
    <3>1. /\ k - (Len(ms) - i) = (k - (Len(tape) - i)) + 1
          /\ k - (Len(tape) - i) \in 1..Len(rest)
          /\ ~(k <= Len(tape) - i) /\ ~(k <= Len(ms) - i)
      BY <1>1, <1>3, <1>4, <1>5, <2>3 DEF ids
    <3> QED
      BY <1>3, <1>4, <3>1 DEF ids
  <2> QED
    BY <1>1, <1>5, <2>1, <2>2, <2>3
<1>10. Len(ids) = (Len(tape) - i) + Len(rest)
  BY <1>1, <1>3, <1>4, <1>5 DEF ids
<1>11. AnsweredUpTo(tape, rest)
  <2>1. i \in DOMAIN tape
    BY <1>1, <1>5
  <2> QED
    BY <1>5, <1>7, <1>8, <1>9, <1>10, <2>1 DEF AnsweredUpTo
<1> QED
  BY <1>11 DEF tape, rest

\* A history with no call open is answered.
LEMMA NothingOpen ==
  ASSUME NEW ms \in Seq(Message), AnsweredUpTo(ms, <<>>)
  PROVE  Answered(ms)
<1>1. PICK i \in DOMAIN ms :
        /\ \A j \in DOMAIN ms \ {i} : CallsAnswered(ms, j)
        /\ Len(ms[i].calls) = (Len(ms) - i) + Len(<<>>)
        /\ \A k \in DOMAIN ms[i].calls :
             k <= Len(ms) - i => ms[i + k].answers = ms[i].calls[k]
  BY DEF AnsweredUpTo
<1>2. /\ Len(ms) \in Nat /\ DOMAIN ms = 1..Len(ms) /\ i \in 1..Len(ms)
  BY <1>1, LenProperties
<1>3. /\ DOMAIN ms[i].calls = 1..Len(ms[i].calls)
      /\ Len(ms[i].calls) = Len(ms) - i
  BY <1>1, <1>2, CallsOfMessage
<1>4. CallsAnswered(ms, i)
  <2>1. ASSUME NEW k \in DOMAIN ms[i].calls
        PROVE  i + k \in DOMAIN ms /\ ms[i + k].answers = ms[i].calls[k]
    BY <1>1, <1>2, <1>3
  <2> QED
    BY <2>1 DEF CallsAnswered
<1> QED
  BY <1>1, <1>4 DEF Answered, AnsweredUpTo

-----------------------------------------------------------------------------
(* What a step does to the tape and to the run that takes it               *)

Elsewhere(r) ==
  \A q \in Runs \ {r} : pc'[q] = pc[q] /\ calls'[q] = calls[q] /\ at'[q] = at[q]

\* What ends a run moves no other.
LEMMA FinishShape ==
  ASSUME TypeOK, NEW r \in Runs, NEW how, NEW es, Finish(r, how, es)
  PROVE  Elsewhere(r) /\ pc'[r] = how /\ calls'[r] = <<>> /\ at'[r] = at[r]
BY DEF Finish, Elsewhere, TypeOK

\* A turn that begins asks the provider, or ends the run at the limit.
LEMMA BeginTurnShape ==
  ASSUME TypeOK, NEW r \in Runs, NEW t \in Nat, NEW es, BeginTurn(r, t, es)
  PROVE  /\ Elsewhere(r) /\ calls'[r] = <<>>
         /\ \/ pc'[r] = "provider" /\ at'[r] = t
            \/ pc'[r] = "done" /\ at'[r] = at[r]
<1>1. CASE Finish(r, "done", Append(es, Ev("session:end", r, <<"max_turns", MaxTurns>>)))
  BY <1>1, FinishShape
<1>2. CASE /\ at' = [at EXCEPT ![r] = t] /\ pc' = [pc EXCEPT ![r] = "provider"]
           /\ calls' = [calls EXCEPT ![r] = <<>>]
  BY <1>2 DEF Elsewhere, TypeOK
<1> QED
  BY <1>1, <1>2 DEF BeginTurn

\* A call that begins executes a tool, or fails the run on bad arguments.
LEMMA BeginCallShape ==
  ASSUME TypeOK, NEW r \in Runs, NEW cs \in Seq(ToolCall), NEW es, BeginCall(r, cs, es)
  PROVE  /\ Elsewhere(r) /\ at'[r] = at[r]
         /\ \/ pc'[r] = "tool" /\ calls'[r] = cs
            \/ Head(cs).args = "garbage" /\ pc'[r] = "failed" /\ calls'[r] = <<>>
<1>1. CASE Head(cs).args = "garbage" /\ Finish(r, "failed", es)
  BY <1>1, FinishShape
<1>2. CASE /\ pc' = [pc EXCEPT ![r] = "tool"] /\ calls' = [calls EXCEPT ![r] = cs]
           /\ UNCHANGED <<turn, at>>
  BY <1>2 DEF Elsewhere, TypeOK
<1> QED
  BY <1>1, <1>2 DEF BeginCall

\* A run that starts pushes the message of the user.
LEMMA StartRunShape ==
  ASSUME TypeOK, NEW r \in Runs, StartRun(r)
  PROVE  /\ Elsewhere(r) /\ pc[r] = "idle" /\ pc'[r] \in {"provider", "done"}
         /\ calls'[r] = <<>> /\ messages' = Append(messages, UserMsg(r))
         /\ pc'[r] = "provider" => at'[r] = 0
BY BeginTurnShape DEF StartRun

\* A provider that fails pushes nothing, and fails the run.
LEMMA ProviderFailsShape ==
  ASSUME TypeOK, NEW r \in Runs, ProviderThrows(r) \/ ProviderReturnsNoMessage(r)
  PROVE  /\ Elsewhere(r) /\ pc[r] = "provider" /\ pc'[r] = "failed"
         /\ calls'[r] = <<>> /\ at'[r] = at[r] /\ messages' = messages
BY FinishShape DEF ProviderThrows, ProviderReturnsNoMessage

\* A provider that answers has its message pushed, with its calls to be made or the
\* run over.
LEMMA ProviderRepliesShape ==
  ASSUME TypeOK, NEW r \in Runs, NEW msg \in Replies(r, at[r]), ProviderReplies(r, msg)
  PROVE  /\ Elsewhere(r) /\ pc[r] = "provider" /\ at'[r] = at[r]
         /\ \E text \in Texts, cs \in Seq(ToolCall) :
              /\ messages' = Append(messages, AssistantMsg(r, text, [k \in DOMAIN cs |-> cs[k].id]))
              /\ \A k \in DOMAIN cs :
                   /\ cs[k].id \in {<<r, at[r], k>>, <<0, at[r], k>>}
                   /\ cs[k].args \in ArgKinds
              /\ \/ cs # <<>> /\ pc'[r] = "tool" /\ calls'[r] = cs
                 \/ /\ cs # <<>> /\ Head(cs).args = "garbage"
                    /\ pc'[r] = "failed" /\ calls'[r] = <<>>
                 \/ cs = <<>> /\ pc'[r] = "done" /\ calls'[r] = <<>>
<1> DEFINE norm == Normalize(msg, at[r])
           cs   == norm.calls
           ids  == [k \in DOMAIN cs |-> cs[k].id]
           es   == events \o
                     <<Ev("provider:response", r, <<at[r], msg.text, norm.rehydrated>>),
                       Ev("message:assistant", r, <<norm.text, ids>>)>>
           fin  == Append(es, Ev("session:end", r, <<"model_done", at[r] + 1>>))
<1>1. /\ norm.text \in Texts /\ cs \in Seq(ToolCall)
      /\ \A k \in DOMAIN cs :
           cs[k].id \in {<<r, at[r], k>>, <<0, at[r], k>>} /\ cs[k].args \in ArgKinds
  BY NormalizeFacts DEF TypeOK
<1>2. /\ pc[r] = "provider"
      /\ messages' = Append(messages, AssistantMsg(r, norm.text, ids))
      /\ \/ cs # <<>> /\ BeginCall(r, cs, es)
         \/ cs = <<>> /\ Finish(r, "done", fin)
  BY DEF ProviderReplies
<1> HIDE DEF norm, es, fin
<1>3. /\ Elsewhere(r) /\ at'[r] = at[r]
      /\ \/ cs # <<>> /\ pc'[r] = "tool" /\ calls'[r] = cs
         \/ cs # <<>> /\ Head(cs).args = "garbage" /\ pc'[r] = "failed" /\ calls'[r] = <<>>
         \/ cs = <<>> /\ pc'[r] = "done" /\ calls'[r] = <<>>
  BY <1>1, <1>2, FinishShape, BeginCallShape
<1> QED
  BY <1>1, <1>2, <1>3

\* A tool that settles has its result pushed; the next call or the next turn follows.
LEMMA ToolSettlesShape ==
  ASSUME LoopInv, NEW r \in Runs, NEW res \in ToolResults, ToolSettles(r, res)
  PROVE  /\ Elsewhere(r) /\ pc[r] = "tool" /\ calls[r] # <<>>
         /\ messages' = Append(messages, ToolMsg(r, Head(calls[r]).id, res))
         /\ \/ /\ Tail(calls[r]) # <<>>
               /\ pc'[r] = "tool" /\ calls'[r] = Tail(calls[r]) /\ at'[r] = at[r]
            \/ /\ Tail(calls[r]) # <<>> /\ Head(Tail(calls[r])).args = "garbage"
               /\ pc'[r] = "failed" /\ calls'[r] = <<>> /\ at'[r] = at[r]
            \/ /\ Tail(calls[r]) = <<>> /\ calls'[r] = <<>>
               /\ \/ pc'[r] = "provider" /\ at'[r] = at[r] + 1
                  \/ pc'[r] = "done" /\ at'[r] = at[r]
<1> DEFINE id   == Head(calls[r]).id
           rest == Tail(calls[r])
           es   == Append(events, IF res = "error" THEN Ev("tool:error", r, <<id, res>>)
                                                   ELSE Ev("tool:end", r, <<id, Preview(res)>>))
<1>1. TypeOK /\ at[r] + 1 \in Nat /\ calls[r] \in Seq(ToolCall)
  BY TurnFacts DEF LoopInv, LoopTypes, TypeOK
<1>2. calls[r] # <<>> /\ rest \in Seq(ToolCall)
  BY <1>1, ToolHasCall, HeadIsToolCall DEF ToolSettles
<1>3. /\ pc[r] = "tool" /\ messages' = Append(messages, ToolMsg(r, id, res))
      /\ \/ rest # <<>> /\ BeginCall(r, rest, es)
         \/ rest = <<>> /\ BeginTurn(r, at[r] + 1, es)
  BY DEF ToolSettles
<1> HIDE DEF es
<1> QED
  BY <1>1, <1>2, <1>3, BeginCallShape, BeginTurnShape

-----------------------------------------------------------------------------
(* Requests are made with a well-formed history                            *)

\* When runs do not overlap, the one that is suspended is alone.
LEMMA Alone ==
  ASSUME AnswersInv, NEW r \in Runs, pc[r] \in {"provider", "tool"}
  PROVE  \A q \in Runs \ {r} : pc[q] \in Settled \cup {"idle"}
<1>1. \A q \in Runs \ {r} : q < r \/ r < q
  BY LoopAssumption DEF Runs
<1> QED
  BY <1>1 DEF AnswersInv, Settled

\* The first of a list of calls.
LEMMA FirstCall ==
  ASSUME NEW cs \in Seq(ToolCall), cs # <<>>
  PROVE  1 \in DOMAIN cs /\ Head(cs) = cs[1]
<1>1. Len(cs) \in Nat /\ Len(cs) # 0 /\ DOMAIN cs = 1..Len(cs)
  BY LenProperties, EmptySeq
<1> QED
  BY <1>1, HeadTailProperties

\* The ids of a list of calls.
LEMMA IdsOfCalls ==
  ASSUME NEW cs \in Seq(ToolCall)
  PROVE  LET ids == [k \in DOMAIN cs |-> cs[k].id]
         IN ids \in Seq(CallIds) /\ Len(ids) = Len(cs) /\ (cs = <<>> => ids = <<>>)
<1>1. DOMAIN cs = 1..Len(cs) /\ Len(cs) \in Nat
  BY LenProperties
<1>2. \A k \in 1..Len(cs) : cs[k] \in ToolCall
  BY ElementOfSeq
<1>3. \A k \in 1..Len(cs) : cs[k].id \in CallIds
  BY <1>2 DEF ToolCall
<1> DEFINE ids == [k \in 1..Len(cs) |-> cs[k].id]
<1>4. ids \in Seq(CallIds) /\ Len(ids) = Len(cs)
  BY <1>1, <1>3
<1>5. ids = [k \in DOMAIN cs |-> cs[k].id]
  BY <1>1
<1> HIDE DEF ids
<1>6. cs = <<>> => ids = <<>>
  BY <1>4, EmptySeq
<1> QED
  BY <1>4, <1>5, <1>6

\* The one run under way carries the invariant on.
LEMMA GoesOnAlone ==
  ASSUME AnswersInv, NEW r \in Runs, pc[r] \in {"provider", "tool"}, Elsewhere(r),
         calls'[r] = <<>> \/ \A k \in DOMAIN calls'[r] : calls'[r][k].args = "json",
         \/ pc'[r] = "tool" /\ AnsweredUpTo(messages', calls'[r])
         \/ pc'[r] # "tool" /\ Answered(messages')
  PROVE  AnswersInv'
<1>1. \A q \in Runs \ {r} : pc'[q] \in Settled \cup {"idle"}
  BY Alone DEF Elsewhere
<1>2. ASSUME NEW p \in Runs, NEW q \in Runs, p < q, pc'[q] # "idle"
      PROVE  pc'[p] \in Settled
  <2>1. pc[q] # "idle"
    BY <1>2 DEF Elsewhere
  <2>2. pc[p] \in Settled
    BY <1>2, <2>1 DEF AnswersInv
  <2> QED
    BY <2>2 DEF Elsewhere, Settled
<1>3. \A q \in Runs : \A k \in DOMAIN calls'[q] : calls'[q][k].args = "json"
  BY DEF AnswersInv, Elsewhere
<1>4. (\A q \in Runs : pc'[q] # "tool") => Answered(messages')
  OBVIOUS
<1>5. \A q \in Runs : pc'[q] = "tool" => AnsweredUpTo(messages', calls'[q])
  BY <1>1 DEF Settled
<1> QED
  BY <1>2, <1>3, <1>4, <1>5 DEF AnswersInv

\* A run that starts alone finds every call answered.
LEMMA StartRunAnswers ==
  ASSUME ~Overlapping, LoopInv, AnswersInv, NEW r \in Runs, StartRun(r)
  PROVE  AnswersInv'
<1>1. /\ Elsewhere(r) /\ pc[r] = "idle" /\ pc'[r] \in {"provider", "done"}
      /\ calls'[r] = <<>> /\ messages' = Append(messages, UserMsg(r))
  BY StartRunShape DEF LoopInv, LoopTypes
<1>2. \A q \in Runs \ {r} : q < r \/ r < q
  BY LoopAssumption DEF Runs
<1>3. \A q \in Runs : q < r => pc[q] \in Settled
  BY DEF StartRun
<1>4. \A q \in Runs : r < q => pc[q] = "idle"
  BY <1>1 DEF AnswersInv, Settled
<1>5. \A q \in Runs : pc[q] # "tool" /\ pc'[q] # "tool"
  BY <1>1, <1>2, <1>3, <1>4 DEF Elsewhere, Settled
<1>6. Answered(messages')
  <2>1. /\ messages \in Seq(Message) /\ UserMsg(r) \in Message /\ Answered(messages)
        /\ UserMsg(r).calls = <<>> /\ UserMsg(r).role # "tool"
    BY <1>5, MessageTypes DEF LoopInv, LoopTypes, TypeOK, AnswersInv, UserMsg, Msg
  <2> QED
    BY <1>1, <2>1, PlainMessage
<1>7. \A q \in Runs : \A k \in DOMAIN calls'[q] : calls'[q][k].args = "json"
  BY <1>1 DEF AnswersInv, Elsewhere
<1>8. ASSUME NEW p \in Runs, NEW q \in Runs, p < q, pc'[q] # "idle"
      PROVE  pc'[p] \in Settled
  <2>1. CASE q = r
    BY <1>1, <1>3, <1>8, <2>1 DEF Elsewhere, Settled, Runs
  <2>2. CASE q # r
    BY <1>1, <1>8, <2>2 DEF AnswersInv, Elsewhere, Settled
  <2> QED
    BY <2>1, <2>2
<1> QED
  BY <1>5, <1>6, <1>7, <1>8 DEF AnswersInv

\* The calls of a new message are open, in order.
LEMMA ProviderAnswers ==
  ASSUME "bad arguments" \notin Faults, LoopInv, AnswersInv, NEW r \in Runs,
         \/ ProviderThrows(r)
         \/ ProviderReturnsNoMessage(r)
         \/ \E msg \in Replies(r, at[r]) : ProviderReplies(r, msg)
  PROVE  AnswersInv'
<1>0. TypeOK /\ messages \in Seq(Message)
  BY DEF LoopInv, LoopTypes, TypeOK
<1>1. Answered(messages)
  <2>1. pc[r] = "provider"
    BY DEF ProviderThrows, ProviderReturnsNoMessage, ProviderReplies
  <2> QED
    BY <2>1, Alone DEF AnswersInv, Settled
<1>2. CASE ProviderThrows(r) \/ ProviderReturnsNoMessage(r)
  <2>1. /\ Elsewhere(r) /\ pc[r] = "provider" /\ pc'[r] = "failed"
        /\ calls'[r] = <<>> /\ messages' = messages
    BY <1>0, <1>2, ProviderFailsShape
  <2> QED
    BY <1>1, <2>1, GoesOnAlone
<1>3. ASSUME NEW msg \in Replies(r, at[r]), ProviderReplies(r, msg) PROVE AnswersInv'
  <2>1. /\ Elsewhere(r) /\ pc[r] = "provider"
        /\ \E text \in Texts, cs \in Seq(ToolCall) :
             /\ messages' = Append(messages, AssistantMsg(r, text, [k \in DOMAIN cs |-> cs[k].id]))
             /\ \A k \in DOMAIN cs : cs[k].args \in ArgKinds
             /\ \/ cs # <<>> /\ pc'[r] = "tool" /\ calls'[r] = cs
                \/ /\ cs # <<>> /\ Head(cs).args = "garbage"
                   /\ pc'[r] = "failed" /\ calls'[r] = <<>>
                \/ cs = <<>> /\ pc'[r] = "done" /\ calls'[r] = <<>>
    BY <1>0, <1>3, ProviderRepliesShape
  <2>2. PICK text \in Texts, cs \in Seq(ToolCall) : <2>1!2!(text, cs)
    BY <2>1
  <2> DEFINE m == AssistantMsg(r, text, [k \in DOMAIN cs |-> cs[k].id])
  <2>3. /\ m \in Message /\ m.role # "tool" /\ m.calls = [k \in DOMAIN cs |-> cs[k].id]
    <3>1. [k \in DOMAIN cs |-> cs[k].id] \in Seq(CallIds)
      BY IdsOfCalls
    <3> QED
      BY <3>1, MessageTypes DEF AssistantMsg, Msg
  <2>4. messages' = Append(messages, m)
    BY <2>2
  <2> HIDE DEF m
  <2>5. \A k \in DOMAIN cs : cs[k].args = "json"
    BY <2>2 DEF ArgKinds
  <2>6. CASE cs # <<>>
    <3>1. Head(cs).args = "json"
      <4>1. 1 \in DOMAIN cs /\ Head(cs) = cs[1]
        BY <2>6, FirstCall
      <4> QED
        BY <2>5, <4>1
    <3>2. pc'[r] = "tool" /\ calls'[r] = cs
      BY <2>2, <2>6, <3>1
    <3>3. AnsweredUpTo(messages', cs)
      BY <1>0, <1>1, <2>3, <2>4, OpeningMessage
    <3> QED
      BY <2>1, <2>5, <3>2, <3>3, GoesOnAlone
  <2>7. CASE cs = <<>>
    <3>1. pc'[r] = "done" /\ calls'[r] = <<>>
      BY <2>2, <2>7
    <3>2. m.calls = <<>>
      BY <2>3, <2>7, IdsOfCalls
    <3>3. Answered(messages')
      BY <1>0, <1>1, <2>3, <2>4, <3>2, PlainMessage
    <3> QED
      BY <2>1, <3>1, <3>3, GoesOnAlone
  <2> QED
    BY <2>6, <2>7
<1> QED
  BY <1>2, <1>3

\* The result of the first open call closes it.
LEMMA ToolAnswers ==
  ASSUME LoopInv, AnswersInv, NEW r \in Runs, NEW res \in ToolResults, ToolSettles(r, res)
  PROVE  AnswersInv'
<1> DEFINE cs   == calls[r]
           rest == Tail(cs)
           m    == ToolMsg(r, Head(cs).id, res)
<1>1. /\ Elsewhere(r) /\ pc[r] = "tool" /\ cs # <<>> /\ messages' = Append(messages, m)
      /\ \/ pc'[r] = "tool" /\ calls'[r] = rest
         \/ rest # <<>> /\ Head(rest).args = "garbage"
         \/ rest = <<>> /\ pc'[r] # "tool" /\ calls'[r] = <<>>
  BY ToolSettlesShape
<1>2. cs \in Seq(ToolCall) /\ messages \in Seq(Message)
  BY DEF LoopInv, LoopTypes, TypeOK
<1>3. /\ m \in Message /\ m.calls = <<>> /\ m.answers = Head(cs).id
  BY <1>1, <1>2, HeadIsToolCall, ResultTypes, MessageTypes DEF ToolMsg, Msg
<1>4. \A k \in DOMAIN cs : cs[k].args = "json"
  BY DEF AnswersInv
<1>5. AnsweredUpTo(messages, cs)
  BY <1>1 DEF AnswersInv
<1> HIDE DEF cs, m
<1>6. AnsweredUpTo(messages', rest)
  BY <1>1, <1>2, <1>3, <1>5, AnsweringMessage
<1>7. /\ rest \in Seq(ToolCall)
      /\ \A k \in DOMAIN rest : rest[k].args = "json"
      /\ rest # <<>> => Head(rest).args = "json"
  <2>1. /\ Len(cs) \in Nat /\ DOMAIN cs = 1..Len(cs)
        /\ rest \in Seq(ToolCall) /\ Len(rest) = Len(cs) - 1
        /\ \A k \in 1..Len(rest) : rest[k] = cs[k + 1]
    BY <1>1, <1>2, LenProperties, HeadTailProperties
  <2>2. DOMAIN rest = 1..Len(rest) /\ Len(rest) \in Nat
    BY <2>1, LenProperties
  <2>3. \A k \in DOMAIN rest : rest[k].args = "json"
    BY <1>4, <2>1, <2>2
  <2>4. rest # <<>> => Head(rest) = rest[1] /\ 1 \in DOMAIN rest
    BY <2>1, <2>2, HeadTailProperties, EmptySeq
  <2> QED
    BY <2>1, <2>3, <2>4
<1> HIDE DEF rest
<1>8. CASE rest = <<>>
  <2>1. Answered(messages')
    <3>1. messages' \in Seq(Message)
      BY <1>1, <1>2, <1>3, AppendProperties
    <3> QED
      BY <1>6, <1>8, <3>1, NothingOpen
  <2> QED
    BY <1>1, <1>6, <1>8, <2>1, GoesOnAlone
<1>9. CASE rest # <<>>
  BY <1>1, <1>6, <1>7, <1>9, GoesOnAlone
<1> QED
  BY <1>8, <1>9

\* Every step keeps calls answered in order.
LEMMA NextAnswers ==
  ASSUME "bad arguments" \notin Faults, ~Overlapping, LoopInv, AnswersInv, [Next]_loopVars
  PROVE  AnswersInv'
<1>1. CASE UNCHANGED loopVars
  BY <1>1 DEF AnswersInv, loopVars
<1> QED
  BY <1>1, StartRunAnswers, ProviderAnswers, ToolAnswers DEF Next, Resume

\* No message, no call.
LEMMA InitAnswers == Init => AnswersInv
<1> SUFFICES ASSUME Init PROVE AnswersInv
  OBVIOUS
<1>1. messages = <<SystemMsg>> /\ SystemMsg.calls = <<>> /\ SystemMsg.role = "system"
  BY DEF Init, SystemMsg, Msg
<1>2. Answered(messages)
  BY <1>1 DEF Answered, CallsAnswered, IsAnswer
<1> QED
  BY <1>2 DEF Init, AnswersInv

\* The messages with calls are the same, and run r has gone on.
LEMMA SameCallIds ==
  ASSUME LoopInv, CallIdsInv, NEW r \in Runs, Elsewhere(r), pc'[r] # "idle",
         \/ messages' = messages
         \/ \E m \in Message : m.calls = <<>> /\ messages' = Append(messages, m),
         \/ pc[r] = "idle"
         \/ at'[r] = at[r] /\ pc'[r] # "provider"
         \/ at'[r] = at[r] + 1
  PROVE  CallIdsInv'
<1>0. messages \in Seq(Message) /\ at[r] \in Nat
  BY TurnFacts DEF LoopInv, LoopTypes, TypeOK
<1>1. \A i \in DOMAIN messages' : messages'[i].calls # <<>> =>
        i \in DOMAIN messages /\ messages'[i] = messages[i]
  BY <1>0, OneMoreMessage
<1>2. \A i \in DOMAIN messages' : \A k \in DOMAIN messages'[i].calls :
        i \in DOMAIN messages /\ messages'[i] = messages[i]
  <2>1. DOMAIN <<>> = {}
    OBVIOUS
  <2> QED
    BY <1>1, <2>1
<1>3. ASSUME NEW i \in DOMAIN messages, NEW k \in DOMAIN messages[i].calls
      PROVE  LET q == messages[i].from  id == messages[i].calls[k]
             IN /\ q \in Runs /\ pc'[q] # "idle"
                /\ id[3] = k
                /\ id[2] <= at'[q] /\ (pc'[q] = "provider" => id[2] < at'[q])
  <2> DEFINE q == messages[i].from
             id == messages[i].calls[k]
  <2>1. /\ q \in Runs /\ pc[q] # "idle"
        /\ id[3] = k
        /\ id[2] <= at[q] /\ (pc[q] = "provider" => id[2] < at[q])
    BY DEF CallIdsInv
  <2>2. id \in CallIds
    BY <1>0, CallsOfMessage, LenProperties
  <2>3. id[2] \in Nat
    BY <2>2, TurnFacts DEF CallIds
  <2> HIDE DEF id, q
  <2>4. ASSUME q # r PROVE pc'[q] = pc[q] /\ at'[q] = at[q]
    BY <2>1, <2>4 DEF Elsewhere
  <2>5. ASSUME q = r
        PROVE  id[2] <= at'[q] /\ (pc'[q] = "provider" => id[2] < at'[q])
    BY <1>0, <2>1, <2>3, <2>5
  <2>6. /\ q \in Runs /\ pc'[q] # "idle"
        /\ id[3] = k
        /\ id[2] <= at'[q] /\ (pc'[q] = "provider" => id[2] < at'[q])
    BY <2>1, <2>4, <2>5
  <2> QED
    BY <2>6 DEF q, id
<1> QED
  BY <1>2, <1>3 DEF CallIdsInv

\* A message names its calls by its turn, which no earlier message of the run has.
LEMMA NewCallIds ==
  ASSUME LoopInv, CallIdsInv, NEW r \in Runs, NEW msg \in Replies(r, at[r]),
         ProviderReplies(r, msg)
  PROVE  CallIdsInv'
<1>0. TypeOK /\ messages \in Seq(Message) /\ at[r] \in Turns /\ at[r] \in Nat
  BY TurnFacts DEF LoopInv, LoopTypes, TypeOK
<1>1. /\ Elsewhere(r) /\ pc[r] = "provider" /\ at'[r] = at[r]
      /\ pc'[r] \notin {"idle", "provider"}
      /\ \E text \in Texts, cs \in Seq(ToolCall) :
           /\ messages' = Append(messages, AssistantMsg(r, text, [k \in DOMAIN cs |-> cs[k].id]))
           /\ \A k \in DOMAIN cs : cs[k].id \in {<<r, at[r], k>>, <<0, at[r], k>>}
  BY <1>0, ProviderRepliesShape
<1>2. PICK text \in Texts, cs \in Seq(ToolCall) : <1>1!3!(text, cs)
  BY <1>1
<1> DEFINE m   == AssistantMsg(r, text, [k \in DOMAIN cs |-> cs[k].id])
           new == Len(messages) + 1
<1>3. /\ m \in Message /\ m.from = r
      /\ \A k \in DOMAIN m.calls : m.calls[k][2] = at[r] /\ m.calls[k][3] = k
  BY <1>2, IdsOfCalls, MessageTypes DEF AssistantMsg, Msg
<1>4. messages' = Append(messages, m)
  BY <1>2
<1> HIDE DEF m
<1>5. /\ Len(messages) \in Nat /\ DOMAIN messages = 1..Len(messages)
      /\ DOMAIN messages' = 1..new
      /\ \A i \in DOMAIN messages : messages'[i] = messages[i]
      /\ messages'[new] = m
  BY <1>0, <1>3, <1>4, OneMoreMessage
<1>6. ASSUME NEW i \in DOMAIN messages, NEW k \in DOMAIN messages[i].calls
      PROVE  LET q == messages[i].from  id == messages[i].calls[k]
             IN /\ q \in Runs /\ pc'[q] # "idle"
                /\ id[3] = k
                /\ id[2] <= at'[q] /\ (pc'[q] = "provider" => id[2] < at'[q])
                /\ q = r => id[2] # at[r]
  <2> DEFINE q == messages[i].from
             id == messages[i].calls[k]
  <2>1. /\ q \in Runs /\ pc[q] # "idle"
        /\ id[3] = k
        /\ id[2] <= at[q] /\ (pc[q] = "provider" => id[2] < at[q])
    BY DEF CallIdsInv
  <2>2. id \in CallIds
    BY <1>0, CallsOfMessage, LenProperties
  <2>3. id[2] \in Nat
    BY <2>2, TurnFacts DEF CallIds
  <2> HIDE DEF id, q
  <2>4. /\ q \in Runs /\ pc'[q] # "idle"
        /\ id[3] = k
        /\ id[2] <= at'[q] /\ (pc'[q] = "provider" => id[2] < at'[q])
        /\ q = r => id[2] # at[r]
    BY <1>0, <1>1, <2>1, <2>3 DEF Elsewhere
  <2> QED
    BY <2>4 DEF q, id
<1>7. ASSUME NEW i \in DOMAIN messages', NEW k \in DOMAIN messages'[i].calls
      PROVE  LET q == messages'[i].from  id == messages'[i].calls[k]
             IN /\ q \in Runs /\ pc'[q] # "idle"
                /\ id[3] = k
                /\ id[2] <= at'[q] /\ (pc'[q] = "provider" => id[2] < at'[q])
  <2>1. CASE i \in DOMAIN messages
    BY <1>5, <1>6, <2>1
  <2>2. CASE i = new
    BY <1>0, <1>1, <1>3, <1>5, <2>2
  <2> QED
    BY <1>5, <2>1, <2>2
<1>8. ASSUME NEW i \in DOMAIN messages', NEW j \in DOMAIN messages',
             messages'[i].from = messages'[j].from,
             NEW k \in DOMAIN messages'[i].calls, NEW l \in DOMAIN messages'[j].calls,
             messages'[i].calls[k][2] = messages'[j].calls[l][2]
      PROVE  i = j
  <2>1. CASE i \in DOMAIN messages /\ j \in DOMAIN messages
    BY <1>5, <1>8, <2>1 DEF CallIdsInv
  <2>2. CASE i = new /\ j \in DOMAIN messages
    BY <1>3, <1>5, <1>6, <1>8, <2>2
  <2>3. CASE i \in DOMAIN messages /\ j = new
    BY <1>3, <1>5, <1>6, <1>8, <2>3
  <2> QED
    BY <1>5, <2>1, <2>2, <2>3
<1> QED
  BY <1>7, <1>8 DEF CallIdsInv

\* Every step keeps the ids of earlier turns apart from those to come.
LEMMA NextCallIds ==
  ASSUME LoopInv, CallIdsInv, [Next]_loopVars
  PROVE  CallIdsInv'
<1>0. TypeOK
  BY DEF LoopInv, LoopTypes
<1>1. CASE UNCHANGED loopVars
  BY <1>1 DEF CallIdsInv, loopVars
<1>2. ASSUME NEW r \in Runs, StartRun(r) PROVE CallIdsInv'
  <2>1. UserMsg(r) \in Message /\ UserMsg(r).calls = <<>>
    BY MessageTypes DEF UserMsg, Msg
  <2> QED
    BY <1>0, <1>2, <2>1, StartRunShape, SameCallIds
<1>3. ASSUME NEW r \in Runs, ProviderThrows(r) \/ ProviderReturnsNoMessage(r)
      PROVE  CallIdsInv'
  BY <1>0, <1>3, ProviderFailsShape, SameCallIds
<1>4. ASSUME NEW r \in Runs, NEW res \in ToolResults, ToolSettles(r, res) PROVE CallIdsInv'
  <2> DEFINE m == ToolMsg(r, Head(calls[r]).id, res)
  <2>1. /\ Elsewhere(r) /\ calls[r] # <<>> /\ messages' = Append(messages, m)
        /\ pc'[r] # "idle"
        /\ (at'[r] = at[r] /\ pc'[r] # "provider") \/ at'[r] = at[r] + 1
    BY <1>4, ToolSettlesShape
  <2>2. calls[r] \in Seq(ToolCall)
    BY <1>0 DEF TypeOK
  <2>3. m \in Message /\ m.calls = <<>>
    BY <2>1, <2>2, HeadIsToolCall, ResultTypes, MessageTypes DEF ToolMsg, Msg
  <2> HIDE DEF m
  <2> QED
    BY <2>1, <2>3, SameCallIds
<1> QED
  BY <1>1, <1>2, <1>3, <1>4, NewCallIds DEF Next, Resume

\* No message has an id yet.
LEMMA InitCallIds == Init => CallIdsInv
<1> SUFFICES ASSUME Init PROVE CallIdsInv
  OBVIOUS
<1>1. DOMAIN messages = {1} /\ DOMAIN messages[1].calls = {}
  BY DEF Init, SystemMsg, Msg
<1> QED
  BY <1>1 DEF CallIdsInv

\* Ids of different turns differ, and so do those of one message.
LEMMA CallIdsDiffer == CallIdsInv => CallIdsUniqueWithinRun
BY DEF CallIdsInv, CallIdsUniqueWithinRun

\* Every request carries a history in which each tool call is answered right
\* behind it and no two calls of a run have the same id, after runs that failed
\* and tools that threw (the messages run() pushes and sends).  The provider's
\* arguments parse, and a run starts when the one before has settled.
THEOREM RequestsWellFormedAlways ==
  ASSUME ~Overlapping, "bad arguments" \notin Faults
  PROVE  Spec => []RequestsWellFormed
<1>1. LoopInv /\ AnswersInv /\ CallIdsInv /\ [Next]_loopVars
        => LoopInv' /\ AnswersInv' /\ CallIdsInv'
  BY LoopInvNext, NextAnswers, NextCallIds
<1>2. AnswersInv /\ CallIdsInv => RequestsWellFormed
  BY CallIdsDiffer, Alone DEF AnswersInv, RequestsWellFormed, Settled
<1> QED
  BY <1>1, <1>2, LoopInvInit, InitAnswers, InitCallIds, PTL DEF Spec

-----------------------------------------------------------------------------
(* The history a run wrote itself, whatever runs overlap                   *)

\* The messages of a run are counted, and the count only grows along the history.
LEMMA WroteCounts ==
  ASSUME NEW ms, NEW r, NEW n \in Nat
  PROVE  /\ IsFiniteSet(Wrote(ms, r, n))
         /\ Cardinality(Wrote(ms, r, n)) \in Nat
         /\ \A i \in 0..n : Cardinality(Wrote(ms, r, i)) <= Cardinality(Wrote(ms, r, n))
<1>1. IsFiniteSet(1..n) /\ Wrote(ms, r, n) \in SUBSET (1..n)
  BY FS_Interval DEF Wrote
<1>2. IsFiniteSet(Wrote(ms, r, n))
  BY <1>1, FS_Subset
<1>3. \A i \in 0..n : Wrote(ms, r, i) \in SUBSET Wrote(ms, r, n)
  BY DEF Wrote
<1> QED
  BY <1>2, <1>3, FS_CardinalityType, FS_Subset

\* One more message is the last of its run, and moves none of the others.
LEMMA NthOfAppend ==
  ASSUME NEW ms \in Seq(Message), NEW m \in Message, NEW r
  PROVE  LET tape == Append(ms, m)
             c    == Cardinality(Wrote(ms, r, Len(ms)))
         IN /\ c \in Nat
            /\ Cardinality(Wrote(tape, r, Len(tape))) = IF m.from = r THEN c + 1 ELSE c
            /\ \A n \in 1..c : Nth(tape, r, n) = Nth(ms, r, n)
            /\ m.from = r => Nth(tape, r, c + 1) = {Len(ms) + 1}
<1> DEFINE tape == Append(ms, m)
           last == Len(ms) + 1
           all  == Wrote(ms, r, Len(ms))
           c    == Cardinality(all)
<1>1. /\ Len(ms) \in Nat /\ Len(tape) = last
      /\ \A i \in 1..Len(ms) : tape[i] = ms[i]
      /\ tape[last] = m
  BY OneMoreMessage
<1> HIDE DEF tape
<1>2. \A i \in 0..Len(ms) : Wrote(tape, r, i) = Wrote(ms, r, i)
  <2>1. ASSUME NEW i \in 0..Len(ms) PROVE Wrote(tape, r, i) = Wrote(ms, r, i)
    <3>1. \A j \in 1..i : tape[j] = ms[j]
      BY <1>1
    <3> QED
      BY <3>1 DEF Wrote
  <2> QED
    BY <2>1
<1>3. Wrote(tape, r, last) = IF m.from = r THEN all \cup {last} ELSE all
  BY <1>1 DEF Wrote
<1>4. /\ IsFiniteSet(all) /\ c \in Nat
      /\ \A i \in 0..Len(ms) : Cardinality(Wrote(ms, r, i)) <= c
  BY <1>1, WroteCounts
<1>5. last \notin all /\ \A i \in all : i \in 1..Len(ms)
  BY <1>1 DEF Wrote
<1> HIDE DEF all
<1>6. Cardinality(all \cup {last}) = c + 1
  BY <1>4, <1>5, FS_AddElement
<1>7. Cardinality(Wrote(tape, r, last)) = IF m.from = r THEN c + 1 ELSE c
  BY <1>3, <1>6
<1>8. ASSUME NEW i, NEW n \in Nat
      PROVE  /\ i \in Nth(ms, r, n) <=> i \in all /\ Cardinality(Wrote(ms, r, i)) = n
             /\ i \in Nth(tape, r, n)
                  <=> i \in Wrote(tape, r, last) /\ Cardinality(Wrote(tape, r, i)) = n
  BY <1>1 DEF Nth, all
<1>9. ASSUME NEW n \in 1..c PROVE Nth(tape, r, n) = Nth(ms, r, n)
  <2>1. ASSUME NEW i PROVE i \in Nth(tape, r, n) <=> i \in Nth(ms, r, n)
    <3>1. CASE i \in all
      <4>1. Wrote(tape, r, i) = Wrote(ms, r, i) /\ i \in Wrote(tape, r, last)
        BY <1>1, <1>2, <1>3, <1>5, <3>1
      <4> QED
        BY <1>8, <3>1, <4>1
    <3>2. CASE i = last
      BY <1>4, <1>5, <1>7, <1>8, <3>2, <1>3
    <3>3. CASE i \notin all /\ i # last
      BY <1>3, <1>8, <3>3
    <3> QED
      BY <3>1, <3>2, <3>3
  <2> QED
    BY <2>1
<1>10. ASSUME m.from = r PROVE Nth(tape, r, c + 1) = {last}
  <2>1. ASSUME NEW i PROVE i \in Nth(tape, r, c + 1) <=> i = last
    <3>1. CASE i \in all
      <4>1. Cardinality(Wrote(tape, r, i)) <= c /\ Cardinality(Wrote(tape, r, i)) \in Nat
        BY <1>1, <1>2, <1>4, <1>5, <3>1, WroteCounts
      <4> QED
        BY <1>4, <1>5, <1>8, <3>1, <4>1
    <3>2. CASE i = last
      BY <1>3, <1>4, <1>7, <1>8, <1>10, <3>2
    <3>3. CASE i \notin all /\ i # last
      BY <1>3, <1>4, <1>8, <3>3
    <3> QED
      BY <3>1, <3>2, <3>3
  <2> QED
    BY <2>1
<1> QED
  BY <1>1, <1>4, <1>7, <1>9, <1>10 DEF tape, all

PlaceOf(ms, r, n) == CHOOSE i \in Nth(ms, r, n) : TRUE

Gathered(ms, r) ==
  \A n \in 1..Cardinality(Wrote(ms, r, Len(ms))) : Nth(ms, r, n) # {}

\* The n-th message of a run is the one at its n-th place.
LEMMA OwnTypes ==
  ASSUME NEW ms \in Seq(Message), NEW r, Gathered(ms, r)
  PROVE  /\ Own(ms, r) \in Seq(Message)
         /\ Len(Own(ms, r)) = Cardinality(Wrote(ms, r, Len(ms)))
         /\ \A n \in 1..Len(Own(ms, r)) :
              /\ Own(ms, r)[n] = ms[PlaceOf(ms, r, n)]
              /\ PlaceOf(ms, r, n) \in 1..Len(ms)
<1> DEFINE c == Cardinality(Wrote(ms, r, Len(ms)))
<1>1. c \in Nat
  BY WroteCounts, LenProperties
<1>2. ASSUME NEW n \in 1..c
      PROVE  PlaceOf(ms, r, n) \in 1..Len(ms) /\ ms[PlaceOf(ms, r, n)] \in Message
  <2>1. PlaceOf(ms, r, n) \in Nth(ms, r, n)
    BY DEF Gathered, PlaceOf
  <2>2. PlaceOf(ms, r, n) \in 1..Len(ms)
    BY <2>1 DEF Nth, Wrote
  <2> QED
    BY <2>2, ElementOfSeq
<1>3. Own(ms, r) = [n \in 1..c |-> ms[PlaceOf(ms, r, n)]]
  BY DEF Own, PlaceOf
<1> HIDE DEF c
<1>4. Own(ms, r) \in Seq(Message) /\ Len(Own(ms, r)) = c
  BY <1>1, <1>2, <1>3
<1>5. \A n \in 1..c : Own(ms, r)[n] = ms[PlaceOf(ms, r, n)]
  BY <1>3
<1> QED
  BY <1>2, <1>4, <1>5 DEF c

\* A message more is one more for the run it is of, and none for the others.
LEMMA OwnOfAppend ==
  ASSUME NEW ms \in Seq(Message), NEW m \in Message, NEW r, Gathered(ms, r)
  PROVE  /\ Gathered(Append(ms, m), r)
         /\ Own(Append(ms, m), r) = IF m.from = r THEN Append(Own(ms, r), m) ELSE Own(ms, r)
<1> DEFINE tape == Append(ms, m)
           c    == Cardinality(Wrote(ms, r, Len(ms)))
           d    == Cardinality(Wrote(tape, r, Len(tape)))
           old  == Own(ms, r)
           new  == Own(tape, r)
           more == Append(old, m)
<1>1. /\ c \in Nat /\ d = IF m.from = r THEN c + 1 ELSE c
      /\ \A n \in 1..c : Nth(tape, r, n) = Nth(ms, r, n)
      /\ m.from = r => Nth(tape, r, c + 1) = {Len(ms) + 1}
  BY NthOfAppend
<1>2. /\ tape \in Seq(Message) /\ Len(ms) \in Nat
      /\ \A i \in 1..Len(ms) : tape[i] = ms[i]
      /\ tape[Len(ms) + 1] = m
  BY OneMoreMessage
<1>3. Gathered(tape, r)
  <2>1. \A n \in 1..c : Nth(ms, r, n) # {}
    BY DEF Gathered
  <2> HIDE DEF tape, c, d
  <2>2. ASSUME NEW n \in 1..d PROVE Nth(tape, r, n) # {}
    BY <1>1, <2>1, <2>2
  <2> QED
    BY <2>2 DEF Gathered, d
<1>4. /\ old \in Seq(Message) /\ Len(old) = c
      /\ \A n \in 1..c : old[n] = ms[PlaceOf(ms, r, n)] /\ PlaceOf(ms, r, n) \in 1..Len(ms)
  BY OwnTypes
<1>5. /\ new \in Seq(Message) /\ Len(new) = d
      /\ \A n \in 1..d : new[n] = tape[PlaceOf(tape, r, n)]
  BY <1>2, <1>3, OwnTypes
<1> HIDE DEF tape, c, d, old, new
<1>6. \A n \in 1..c : new[n] = old[n]
  <2>1. ASSUME NEW n \in 1..c PROVE new[n] = old[n]
    <3>1. PlaceOf(tape, r, n) = PlaceOf(ms, r, n)
      BY <1>1 DEF PlaceOf
    <3>2. n \in 1..d
      BY <1>1
    <3>3. new[n] = tape[PlaceOf(ms, r, n)] /\ old[n] = ms[PlaceOf(ms, r, n)]
      BY <1>4, <1>5, <3>1, <3>2
    <3> QED
      BY <1>2, <1>4, <3>3
  <2> QED
    BY <2>1
<1>7. CASE m.from # r
  <2>1. new = old
    BY <1>1, <1>4, <1>5, <1>6, <1>7, SeqEqual
  <2> QED
    BY <1>3, <1>7, <2>1 DEF tape, old, new
<1>8. CASE m.from = r
  <2>1. new[c + 1] = m
    <3>1. PlaceOf(tape, r, c + 1) = Len(ms) + 1
      BY <1>1, <1>8 DEF PlaceOf
    <3> QED
      BY <1>1, <1>2, <1>5, <1>8, <3>1
  <2>2. /\ more \in Seq(Message) /\ Len(more) = c + 1
        /\ \A n \in 1..c : more[n] = old[n]
        /\ more[c + 1] = m
    BY <1>4, AppendProperties
  <2> HIDE DEF more
  <2>3. \A n \in 1..(c + 1) : new[n] = more[n]
    BY <1>1, <1>6, <2>1, <2>2
  <2>4. new = more
    BY <1>1, <1>5, <1>8, <2>2, <2>3, SeqEqual
  <2> QED
    BY <1>3, <1>8, <2>4 DEF tape, old, new, more
<1> QED
  BY <1>7, <1>8

\* Run r goes on, having put nothing or a message of its own on the tape; the
\* histories the other runs wrote are what they were.
LEMMA GoesOnOwn ==
  ASSUME LoopInv, OwnInv, NEW r \in Runs, Elsewhere(r), pc'[r] # "idle",
         \/ messages' = messages
         \/ \E m \in Message : m.from = r /\ messages' = Append(messages, m),
         pc'[r] \in {"provider", "done"} => Answered(Own(messages', r)),
         pc'[r] = "tool" => AnsweredUpTo(Own(messages', r), calls'[r])
  PROVE  OwnInv'
<1>1. \A q \in Runs : Gathered(messages, q)
  BY DEF OwnInv, Gathered
<1>2. ASSUME NEW q \in Runs
      PROVE  Gathered(messages', q) /\ (q # r => Own(messages', q) = Own(messages, q))
  <2>1. messages \in Seq(Message)
    BY DEF LoopInv, LoopTypes, TypeOK
  <2>2. CASE messages' = messages
    BY <1>1, <2>2
  <2>3. ASSUME NEW m \in Message, m.from = r, messages' = Append(messages, m)
        PROVE  Gathered(messages', q) /\ (q # r => Own(messages', q) = Own(messages, q))
    <3>1. /\ Gathered(Append(messages, m), q)
          /\ Own(Append(messages, m), q)
               = IF m.from = q THEN Append(Own(messages, q), m) ELSE Own(messages, q)
      BY <1>1, <2>1, OwnOfAppend
    <3> QED
      BY <2>3, <3>1
  <2> QED
    BY <2>2, <2>3
<1>3. ASSUME NEW q \in Runs
      PROVE  /\ pc'[q] = "idle" => Own(messages', q) = <<>>
             /\ pc'[q] \in {"provider", "done"} => Answered(Own(messages', q))
             /\ pc'[q] = "tool" => AnsweredUpTo(Own(messages', q), calls'[q])
  BY <1>2 DEF Elsewhere, OwnInv
<1> QED
  BY <1>2, <1>3 DEF OwnInv, Gathered

\* The history of a run begins with its prompt.
LEMMA StartRunOwn ==
  ASSUME LoopInv, OwnInv, NEW r \in Runs, StartRun(r)
  PROVE  OwnInv'
<1> DEFINE m == UserMsg(r)
<1>1. /\ Elsewhere(r) /\ pc[r] = "idle" /\ pc'[r] \in {"provider", "done"}
      /\ messages' = Append(messages, m) /\ messages \in Seq(Message)
  BY StartRunShape DEF LoopInv, LoopTypes, TypeOK
<1>2. m \in Message /\ m.from = r /\ m.calls = <<>> /\ m.role # "tool"
  BY MessageTypes DEF UserMsg, Msg
<1>3. Gathered(messages, r) /\ Own(messages, r) = <<>>
  BY <1>1 DEF OwnInv, Gathered
<1> HIDE DEF m
<1>4. Own(messages', r) = Append(<<>>, m)
  BY <1>1, <1>2, <1>3, OwnOfAppend
<1>5. <<>> \in Seq(Message) /\ Answered(<<>>)
  BY DEF Answered
<1>6. Answered(Own(messages', r))
  BY <1>2, <1>4, <1>5, PlainMessage
<1> QED
  BY <1>1, <1>2, <1>6, GoesOnOwn

\* Its next message is the answer of the provider.
LEMMA ProviderOwn ==
  ASSUME LoopInv, OwnInv, NEW r \in Runs,
         \/ ProviderThrows(r)
         \/ ProviderReturnsNoMessage(r)
         \/ \E msg \in Replies(r, at[r]) : ProviderReplies(r, msg)
  PROVE  OwnInv'
<1>0. TypeOK /\ messages \in Seq(Message)
  BY DEF LoopInv, LoopTypes, TypeOK
<1>1. CASE ProviderThrows(r) \/ ProviderReturnsNoMessage(r)
  BY <1>0, <1>1, ProviderFailsShape, GoesOnOwn
<1>2. ASSUME NEW msg \in Replies(r, at[r]), ProviderReplies(r, msg) PROVE OwnInv'
  <2>1. /\ Elsewhere(r) /\ pc[r] = "provider" /\ pc'[r] \in {"tool", "failed", "done"}
        /\ \E text \in Texts, cs \in Seq(ToolCall) :
             /\ messages' = Append(messages, AssistantMsg(r, text, [k \in DOMAIN cs |-> cs[k].id]))
             /\ pc'[r] = "tool" => calls'[r] = cs
             /\ pc'[r] = "done" => cs = <<>>
    BY <1>0, <1>2, ProviderRepliesShape
  <2>2. PICK text \in Texts, cs \in Seq(ToolCall) : <2>1!2!(text, cs)
    BY <2>1
  <2> DEFINE m == AssistantMsg(r, text, [k \in DOMAIN cs |-> cs[k].id])
  <2>3. /\ m \in Message /\ m.from = r /\ m.role # "tool"
        /\ m.calls = [k \in DOMAIN cs |-> cs[k].id]
    BY IdsOfCalls, MessageTypes DEF AssistantMsg, Msg
  <2>4. messages' = Append(messages, m)
    BY <2>2
  <2> HIDE DEF m
  <2>5. /\ Gathered(messages, r) /\ Answered(Own(messages, r))
        /\ Own(messages, r) \in Seq(Message)
    <3>1. Gathered(messages, r) /\ Answered(Own(messages, r))
      BY <2>1 DEF OwnInv, Gathered
    <3> QED
      BY <1>0, <3>1, OwnTypes
  <2>6. Own(messages', r) = Append(Own(messages, r), m)
    BY <1>0, <2>3, <2>4, <2>5, OwnOfAppend
  <2>7. AnsweredUpTo(Own(messages', r), cs) /\ Own(messages', r) \in Seq(Message)
    BY <2>3, <2>5, <2>6, OpeningMessage, AppendProperties
  <2>8. pc'[r] = "done" => Answered(Own(messages', r))
    BY <2>2, <2>7, NothingOpen
  <2> QED
    BY <2>1, <2>2, <2>3, <2>4, <2>7, <2>8, GoesOnOwn
<1> QED
  BY <1>1, <1>2

\* Or the result of the call it has open.
LEMMA ToolOwn ==
  ASSUME LoopInv, OwnInv, NEW r \in Runs, NEW res \in ToolResults, ToolSettles(r, res)
  PROVE  OwnInv'
<1> DEFINE cs   == calls[r]
           rest == Tail(cs)
           m    == ToolMsg(r, Head(cs).id, res)
<1>1. /\ Elsewhere(r) /\ pc[r] = "tool" /\ cs # <<>> /\ messages' = Append(messages, m)
      /\ pc'[r] # "idle"
      /\ pc'[r] = "tool" => calls'[r] = rest
      /\ pc'[r] \in {"provider", "done"} => rest = <<>>
  BY ToolSettlesShape
<1>2. cs \in Seq(ToolCall) /\ messages \in Seq(Message)
  BY DEF LoopInv, LoopTypes, TypeOK
<1>3. m \in Message /\ m.from = r /\ m.calls = <<>> /\ m.answers = Head(cs).id
  BY <1>1, <1>2, HeadIsToolCall, ResultTypes, MessageTypes DEF ToolMsg, Msg
<1>4. /\ Gathered(messages, r) /\ AnsweredUpTo(Own(messages, r), cs)
      /\ Own(messages, r) \in Seq(Message)
  <2>1. Gathered(messages, r) /\ AnsweredUpTo(Own(messages, r), cs)
    BY <1>1 DEF OwnInv, Gathered
  <2> QED
    BY <1>2, <2>1, OwnTypes
<1> HIDE DEF cs, m
<1>5. Own(messages', r) = Append(Own(messages, r), m)
  BY <1>1, <1>2, <1>3, <1>4, OwnOfAppend
<1>6. AnsweredUpTo(Own(messages', r), rest)
  BY <1>1, <1>2, <1>3, <1>4, <1>5, AnsweringMessage
<1>7. Own(messages', r) \in Seq(Message)
  BY <1>3, <1>4, <1>5, AppendProperties
<1> HIDE DEF rest
<1>8. pc'[r] \in {"provider", "done"} => Answered(Own(messages', r))
  BY <1>1, <1>6, <1>7, NothingOpen
<1> QED
  BY <1>1, <1>3, <1>6, <1>8, GoesOnOwn

\* Every step keeps the history of each run well formed on its own.
LEMMA NextOwn ==
  ASSUME LoopInv, OwnInv, [Next]_loopVars
  PROVE  OwnInv'
<1>1. CASE UNCHANGED loopVars
  BY <1>1 DEF OwnInv, loopVars
<1> QED
  BY <1>1, StartRunOwn, ProviderOwn, ToolOwn DEF Next, Resume

\* No run has a history yet.
LEMMA InitOwn == Init => OwnInv
<1> SUFFICES ASSUME Init PROVE OwnInv
  OBVIOUS
<1>1. ASSUME NEW r \in Runs
      PROVE  Gathered(messages, r) /\ Own(messages, r) = <<>>
  <2>1. Len(messages) = 1 /\ messages[1].from = 0 /\ r # 0
    BY DEF Init, SystemMsg, Msg, Runs
  <2>2. Wrote(messages, r, Len(messages)) = {}
    BY <2>1 DEF Wrote
  <2>3. Cardinality(Wrote(messages, r, Len(messages))) = 0
    BY <2>2, FS_EmptySet
  <2>4. Gathered(messages, r)
    BY <2>3 DEF Gathered
  <2>5. messages \in Seq(Message)
    BY InitTypes DEF LoopTypes, TypeOK
  <2>6. Own(messages, r) \in Seq(Message) /\ Len(Own(messages, r)) = 0
    BY <2>3, <2>4, <2>5, OwnTypes
  <2> QED
    BY <2>4, <2>6, EmptySeq
<1>2. \A r \in Runs : pc[r] = "idle"
  BY DEF Init
<1> QED
  BY <1>1, <1>2 DEF OwnInv, Gathered

\* However the runs of a session overlap, fail or start over, each sends its
\* requests, and ends if it does not fail, with its own tool calls answered in its
\* own part of the history (the messages run() pushes).
THEOREM OwnHistoryWellFormedAlways == Spec => []OwnHistoryWellFormed
<1>1. LoopInv /\ OwnInv /\ [Next]_loopVars => LoopInv' /\ OwnInv'
  BY LoopInvNext, NextOwn
<1>2. OwnInv => OwnHistoryWellFormed
  BY DEF OwnInv, OwnHistoryWellFormed
<1> QED
  BY <1>1, <1>2, LoopInvInit, InitOwn, PTL DEF Spec

-----------------------------------------------------------------------------
(* What the subscribers of the bus are handed by a step                    *)

\* fs is es and events of run r behind it; none of them starts a tool.
Emits(es, fs, r) ==
  /\ fs \in Seq(Event) /\ Len(es) <= Len(fs)
  /\ \A i \in 1..Len(es) : fs[i] = es[i]
  /\ \A i \in (Len(es) + 1)..Len(fs) : fs[i].run = r
Quiet(es, fs) == \A i \in (Len(es) + 1)..Len(fs) : fs[i].tag # "tool:start"

\* A tool:start of the step is about the call run r now awaits.
Announced(r) ==
  \A i \in (Len(events) + 1)..Len(events') : events'[i].tag = "tool:start" =>
    pc'[r] = "tool" /\ events'[i].data = Head(calls'[r]).id

\* A step that emits may emit one event more of the same run.
LEMMA EmitsOne ==
  ASSUME NEW r \in Runs, NEW es \in Seq(Event), NEW fs, Emits(es, fs, r), Quiet(es, fs),
         NEW e \in Event, e.run = r
  PROVE  /\ Emits(es, Append(fs, e), r)
         /\ e.tag # "tool:start" => Quiet(es, Append(fs, e))
         /\ \A i \in (Len(es) + 1)..Len(Append(fs, e)) :
              Append(fs, e)[i].tag = "tool:start" => Append(fs, e)[i] = e
         /\ Len(fs) \in Nat /\ Len(Append(fs, e)) = Len(fs) + 1
         /\ \A i \in 1..Len(fs) : Append(fs, e)[i] = fs[i]
         /\ Append(fs, e)[Len(fs) + 1] = e
<1> DEFINE gs == Append(fs, e)
<1>1. /\ gs \in Seq(Event) /\ Len(fs) \in Nat /\ Len(es) \in Nat /\ Len(gs) = Len(fs) + 1
      /\ \A i \in 1..Len(fs) : gs[i] = fs[i]
      /\ gs[Len(fs) + 1] = e
  BY AppendProperties, LenProperties DEF Emits
<1> HIDE DEF gs
<1>2. Emits(es, gs, r)
  BY <1>1 DEF Emits
<1>3. e.tag # "tool:start" => Quiet(es, gs)
  BY <1>1 DEF Quiet, Emits
<1>4. \A i \in (Len(es) + 1)..Len(gs) : gs[i].tag = "tool:start" => gs[i] = e
  BY <1>1 DEF Quiet, Emits
<1> QED
  BY <1>1, <1>2, <1>3, <1>4 DEF gs

\* However a run goes on, what it emits is its own, and a call it starts is announced.
LEMMA GoesOnEmits ==
  ASSUME LoopTypes, NEW r \in Runs, NEW log, Emits(events, log, r), Quiet(events, log),
         OneMore(r, log)
  PROVE  /\ Emits(events, events', r) /\ Announced(r)
         /\ Len(log) <= Len(events')
         /\ \A i \in 1..Len(log) : events'[i] = log[i]
<1>0. events \in Seq(Event) /\ Len(log) \in Nat
  BY LenProperties DEF LoopTypes, Emits
<1>1. CASE events' = log
  BY <1>0, <1>1 DEF Announced, Quiet
<1>2. ASSUME NEW e \in Event, e.run = r, events' = Append(log, e),
             e.tag = "tool:start" => pc'[r] = "tool" /\ e.data = Head(calls'[r]).id
      PROVE  /\ Emits(events, events', r) /\ Announced(r)
             /\ Len(log) <= Len(events')
             /\ \A i \in 1..Len(log) : events'[i] = log[i]
  <2>1. /\ Emits(events, events', r)
        /\ \A i \in (Len(events) + 1)..Len(events') :
             events'[i].tag = "tool:start" => events'[i] = e
        /\ Len(events') = Len(log) + 1
        /\ \A i \in 1..Len(log) : events'[i] = log[i]
    BY <1>0, <1>2, EmitsOne
  <2>2. Announced(r)
    BY <1>2, <2>1 DEF Announced
  <2> QED
    BY <1>0, <2>1, <2>2
<1> QED
  BY <1>1, <1>2 DEF OneMore

\* Nothing is emitted yet.
LEMMA NowEmits ==
  ASSUME LoopTypes, NEW r \in Runs
  PROVE  /\ events \in Seq(Event) /\ Len(events) \in Nat
         /\ Emits(events, events, r) /\ Quiet(events, events)
BY LenProperties DEF LoopTypes, Emits, Quiet

\* A run that starts emits events of its own.
LEMMA StartRunEmits ==
  ASSUME LoopTypes, NEW r \in Runs, StartRun(r)
  PROVE  Emits(events, events', r) /\ Announced(r)
<1> DEFINE d   == Ev("session:start", r, 0)
           e   == Ev("message:user", r, 0)
           one == Append(events, d)
           log == Append(one, e)
<1>0. TypeOK
  BY DEF LoopTypes
<1>1. /\ d \in Event /\ d.run = r /\ d.tag = "session:start"
      /\ e \in Event /\ e.run = r /\ e.tag = "message:user"
  BY EventTypes DEF Ev
<1>2. messages' \in Seq(Message)
  BY MessageTypes, AppendProperties DEF LoopTypes, TypeOK, StartRun
<1>3. BeginTurn(r, 0, events \o <<d, e>>)
  BY DEF StartRun
<1> HIDE DEF d, e
<1>4. BeginTurn(r, 0, log)
  BY <1>1, <1>3, TwoEvents DEF LoopTypes
<1>5. Emits(events, one, r) /\ Quiet(events, one)
  BY <1>1, NowEmits, EmitsOne
<1> HIDE DEF one
<1>6. Emits(events, log, r) /\ Quiet(events, log)
  BY <1>1, <1>5, NowEmits, EmitsOne
<1> HIDE DEF log
<1>7. OneMore(r, log)
  BY <1>0, <1>2, <1>4, GoesOnEvent
<1> QED
  BY <1>6, <1>7, GoesOnEmits

\* So does one whose provider answers or fails.
LEMMA ProviderEmits ==
  ASSUME LoopTypes, NEW r \in Runs,
         \/ ProviderThrows(r)
         \/ ProviderReturnsNoMessage(r)
         \/ \E msg \in Replies(r, at[r]) : ProviderReplies(r, msg)
  PROVE  Emits(events, events', r) /\ Announced(r)
<1>0. /\ TypeOK /\ events \in Seq(Event) /\ messages \in Seq(Message)
      /\ at[r] \in Turns /\ at[r] + 1 \in Nat
  BY TurnFacts DEF LoopTypes, TypeOK
<1>1. CASE ProviderThrows(r)
  <2> DEFINE e == Ev("provider:error", r, at[r])
  <2>1. e \in Event /\ e.run = r /\ e.tag = "provider:error"
    BY <1>0, EventTypes DEF Ev
  <2>2. events' = Append(events, e)
    BY <1>1 DEF ProviderThrows, Finish
  <2> HIDE DEF e
  <2>3. Emits(events, events', r) /\ Quiet(events, events')
    BY <2>1, <2>2, NowEmits, EmitsOne
  <2> QED
    BY <2>3 DEF Quiet, Announced
<1>2. CASE ProviderReturnsNoMessage(r)
  <2>1. events' = events
    BY <1>2 DEF ProviderReturnsNoMessage, Finish
  <2> QED
    BY <2>1, NowEmits DEF Quiet, Announced
<1>3. ASSUME NEW msg \in Replies(r, at[r]), ProviderReplies(r, msg)
      PROVE  Emits(events, events', r) /\ Announced(r)
  <2> DEFINE norm == Normalize(msg, at[r])
             ids  == [k \in DOMAIN norm.calls |-> norm.calls[k].id]
             d    == Ev("provider:response", r, <<at[r], msg.text, norm.rehydrated>>)
             e    == Ev("message:assistant", r, <<norm.text, ids>>)
             one  == Append(events, d)
             log  == Append(one, e)
  <2>1. /\ msg.text \in Texts /\ norm.text \in Texts /\ norm.rehydrated \in BOOLEAN
        /\ norm.calls \in Seq(ToolCall) /\ ids \in Seq(CallIds)
    BY <1>0, NormalizeFacts
  <2>2. /\ messages' = Append(messages, AssistantMsg(r, norm.text, ids))
        /\ \/ norm.calls # <<>> /\ BeginCall(r, norm.calls, events \o <<d, e>>)
           \/ Finish(r, "done", Append(events \o <<d, e>>,
                                       Ev("session:end", r, <<"model_done", at[r] + 1>>)))
    BY <1>3 DEF ProviderReplies
  <2> HIDE DEF norm, ids
  <2>3. /\ d \in Event /\ d.run = r /\ d.tag = "provider:response"
        /\ e \in Event /\ e.run = r /\ e.tag = "message:assistant"
    BY <1>0, <2>1, EventTypes DEF Ev
  <2>4. messages' \in Seq(Message)
    BY <1>0, <2>1, <2>2, MessageTypes, AppendProperties
  <2> HIDE DEF d, e
  <2>5. events \o <<d, e>> = log
    BY <1>0, <2>3, TwoEvents
  <2>6. Emits(events, one, r) /\ Quiet(events, one)
    BY <2>3, NowEmits, EmitsOne
  <2> HIDE DEF one
  <2>7. Emits(events, log, r) /\ Quiet(events, log)
    BY <2>3, <2>6, NowEmits, EmitsOne
  <2> HIDE DEF log
  <2>8. OneMore(r, log)
    BY <1>0, <2>1, <2>2, <2>4, <2>5, GoesOnEvent DEF Reasons
  <2> QED
    BY <2>7, <2>8, GoesOnEmits
<1> QED
  BY <1>1, <1>2, <1>3

\* So does one whose tool settles, the end of the call first.
LEMMA ToolEmits ==
  ASSUME LoopInv, NEW r \in Runs, NEW res \in ToolResults, ToolSettles(r, res)
  PROVE  /\ Emits(events, events', r) /\ Announced(r)
         /\ Len(events) < Len(events')
         /\ events'[Len(events) + 1].tag \in {"tool:end", "tool:error"}
         /\ events'[Len(events) + 1].data[1] = Head(calls[r]).id
<1> DEFINE id   == Head(calls[r]).id
           rest == Tail(calls[r])
           e    == IF res = "error" THEN Ev("tool:error", r, <<id, res>>)
                                    ELSE Ev("tool:end", r, <<id, Preview(res)>>)
           log  == Append(events, e)
<1>0. /\ LoopTypes /\ TypeOK /\ messages \in Seq(Message)
      /\ at[r] + 1 \in Nat /\ calls[r] \in Seq(ToolCall)
  BY TurnFacts DEF LoopInv, LoopTypes, TypeOK
<1>1. calls[r] # <<>>
  BY ToolHasCall DEF ToolSettles
<1>2. id \in CallIds /\ rest \in Seq(ToolCall)
  BY <1>0, <1>1, HeadIsToolCall
<1>3. /\ messages' = Append(messages, ToolMsg(r, id, res))
      /\ \/ rest # <<>> /\ BeginCall(r, rest, log)
         \/ rest = <<>> /\ BeginTurn(r, at[r] + 1, log)
  BY DEF ToolSettles
<1>4. messages' \in Seq(Message)
  BY <1>0, <1>2, <1>3, ResultTypes, MessageTypes, AppendProperties
<1>5. /\ e \in Event /\ e.run = r /\ e.tag \in {"tool:end", "tool:error"}
      /\ e.data[1] = id
  BY <1>2, ResultTypes, EventTypes DEF Ev, Preview
<1> HIDE DEF e, rest
<1>6. /\ Emits(events, log, r) /\ Quiet(events, log)
      /\ Len(events) \in Nat /\ Len(log) = Len(events) + 1 /\ log[Len(events) + 1] = e
  BY <1>0, <1>5, NowEmits, EmitsOne
<1> HIDE DEF log
<1>7. OneMore(r, log)
  BY <1>0, <1>2, <1>3, <1>4, GoesOnEvent
<1>8. /\ Emits(events, events', r) /\ Announced(r)
      /\ Len(log) <= Len(events')
      /\ \A i \in 1..Len(log) : events'[i] = log[i]
  BY <1>0, <1>6, <1>7, GoesOnEmits
<1>9. events' \in Seq(Event) /\ Len(events') \in Nat
  BY <1>8, LenProperties DEF Emits
<1> QED
  BY <1>5, <1>6, <1>8, <1>9

\* A run that goes on moves no other, and emits events of its own.
LEMMA ResumeShape ==
  ASSUME LoopInv, NEW r \in Runs, Resume(r)
  PROVE  /\ Elsewhere(r) /\ pc[r] \in {"provider", "tool"}
         /\ pc'[r] \in {"provider", "tool"} \cup Settled
         /\ Emits(events, events', r) /\ Announced(r)
<1>0. LoopTypes /\ TypeOK
  BY DEF LoopInv, LoopTypes
<1>1. CASE ProviderThrows(r) \/ ProviderReturnsNoMessage(r)
  BY <1>0, <1>1, ProviderFailsShape, ProviderEmits DEF Settled
<1>2. ASSUME NEW msg \in Replies(r, at[r]), ProviderReplies(r, msg)
      PROVE  /\ Elsewhere(r) /\ pc[r] \in {"provider", "tool"}
             /\ pc'[r] \in {"provider", "tool"} \cup Settled
             /\ Emits(events, events', r) /\ Announced(r)
  <2>1. /\ Elsewhere(r) /\ pc[r] = "provider" /\ pc'[r] \in {"tool", "failed", "done"}
    BY <1>0, <1>2, ProviderRepliesShape
  <2> QED
    BY <1>0, <1>2, <2>1, ProviderEmits DEF Settled
<1>3. ASSUME NEW res \in ToolResults, ToolSettles(r, res)
      PROVE  /\ Elsewhere(r) /\ pc[r] \in {"provider", "tool"}
             /\ pc'[r] \in {"provider", "tool"} \cup Settled
             /\ Emits(events, events', r) /\ Announced(r)
  <2>1. /\ Elsewhere(r) /\ pc[r] = "tool"
        /\ pc'[r] \in {"tool", "failed", "provider", "done"}
    BY <1>3, ToolSettlesShape
  <2> QED
    BY <1>3, <2>1, ToolEmits DEF Settled
<1> QED
  BY <1>1, <1>2, <1>3 DEF Resume

-----------------------------------------------------------------------------
(* No event is emitted twice                                               *)

\* The run that emitted e is past it now, or will be after the step.
PastNow(e)  == LET r == e.run IN IsPast(e, pc[r], at[r], calls[r], Len(messages))
PastThen(e) == LET r == e.run IN IsPast(e, pc'[r], at'[r], calls'[r], Len(messages'))

\* es is what is emitted so far in a step of run r: the events there were, and new
\* ones of r with these tags.
Reached(es, r, tags) ==
  /\ es \in Seq(Event) /\ NoneTwice(es)
  /\ \A i \in DOMAIN es : PastThen(es[i])
  /\ \A i \in DOMAIN es : es[i].run = r => PastNow(es[i]) \/ es[i].tag \in tags

\* An event run r is not past yet is none of those before it.
LEMMA OneMorePast ==
  ASSUME NEW es, NEW r, NEW tags, Reached(es, r, tags),
         NEW e \in Event, e.run = r, e.tag \notin tags, ~PastNow(e), PastThen(e)
  PROVE  Reached(Append(es, e), r, tags \cup {e.tag})
<1> DEFINE fs == Append(es, e)
<1>1. /\ es \in Seq(Event) /\ fs \in Seq(Event) /\ Len(es) \in Nat
      /\ DOMAIN es = 1..Len(es) /\ DOMAIN fs = 1..(Len(es) + 1)
      /\ \A i \in 1..Len(es) : fs[i] = es[i]
      /\ fs[Len(es) + 1] = e
  BY AppendProperties, LenProperties DEF Reached
<1> HIDE DEF fs
<1>2. \A i \in DOMAIN fs : i \in DOMAIN es \/ i = Len(es) + 1
  BY <1>1
<1>3. \A i \in DOMAIN es : es[i] # e
  BY DEF Reached
<1>4. NoneTwice(fs)
  BY <1>1, <1>2, <1>3 DEF NoneTwice, Reached
<1>5. /\ \A i \in DOMAIN fs : PastThen(fs[i])
      /\ \A i \in DOMAIN fs : fs[i].run = r => PastNow(fs[i]) \/ fs[i].tag \in tags \cup {e.tag}
  BY <1>1, <1>2 DEF Reached
<1> QED
  BY <1>1, <1>4, <1>5 DEF Reached, fs

\* Where run r stands after its step.
Moves(r) ==
  /\ Elsewhere(r) /\ pc'[r] # "idle"
  /\ Len(messages') \in Nat /\ Len(messages) <= Len(messages')
  /\ \/ pc[r] = "idle"
     \/ pc[r] = "provider" /\ pc'[r] \in {"tool", "failed", "done"} /\ at'[r] = at[r]
     \/ /\ pc[r] = "tool" /\ pc'[r] = "tool" /\ at'[r] = at[r]
        /\ calls'[r] = Tail(calls[r]) /\ Tail(calls[r]) # <<>>
     \/ pc[r] = "tool" /\ pc'[r] \in {"failed", "done"} /\ at'[r] = at[r]
     \/ pc[r] = "tool" /\ pc'[r] = "provider" /\ at'[r] = at[r] + 1

\* The parts of a tool-call id.
LEMMA CallIdParts ==
  ASSUME NEW id \in CallIds
  PROVE  id[2] \in Turns /\ id[2] \in Nat /\ id[3] \in Nat /\ id[3] >= 1
<1>1. id[2] \in Turns /\ id[3] \in 1..MaxCalls
  BY DEF CallIds
<1> QED
  BY <1>1, TurnFacts, LoopAssumption

\* Calls numbered one after the other, all of turn t.
Ascend(cs, t) ==
  \A k \in DOMAIN cs : cs[k].id[2] = t /\ cs[k].id[3] = Head(cs).id[3] + k - 1

\* The first of them, and the next.
LEMMA NextCallNumber ==
  ASSUME NEW t, NEW cs \in Seq(ToolCall), cs # <<>>, Ascend(cs, t)
  PROVE  /\ Head(cs).id \in CallIds
         /\ Head(cs).id[2] = t /\ Head(cs).id[3] \in Nat /\ Head(cs).id[3] >= 1
         /\ Tail(cs) # <<>> =>
              /\ Head(Tail(cs)).id[2] = t
              /\ Head(Tail(cs)).id[3] = Head(cs).id[3] + 1
              /\ Ascend(Tail(cs), t)
<1>1. /\ Head(cs).id \in CallIds
      /\ Head(cs).id[3] \in Nat /\ Head(cs).id[3] >= 1
  BY HeadIsToolCall, CallIdParts
<1>2. 1 \in DOMAIN cs /\ Head(cs) = cs[1]
  BY FirstCall
<1>3. ASSUME Tail(cs) # <<>>
      PROVE  /\ Head(Tail(cs)).id[2] = t
             /\ Head(Tail(cs)).id[3] = Head(cs).id[3] + 1
             /\ Ascend(Tail(cs), t)
  <2>1. /\ Tail(cs) \in Seq(ToolCall)
        /\ Len(Tail(cs)) = Len(cs) - 1
        /\ \A i \in 1..Len(Tail(cs)) : Tail(cs)[i] = cs[i + 1]
        /\ Len(cs) \in Nat /\ DOMAIN cs = 1..Len(cs)
    BY HeadTailProperties, LenProperties
  <2>2. 1 \in DOMAIN Tail(cs) /\ Head(Tail(cs)) = Tail(cs)[1]
    BY <1>3, <2>1, FirstCall
  <2>3. DOMAIN Tail(cs) = 1..Len(Tail(cs)) /\ Len(Tail(cs)) \in Nat
    BY <2>1, LenProperties
  <2>4. 2 \in DOMAIN cs /\ Head(Tail(cs)) = cs[2]
    BY <2>1, <2>2, <2>3
  <2>5. /\ Head(Tail(cs)).id[2] = t
        /\ Head(Tail(cs)).id[3] = Head(cs).id[3] + 1
    BY <1>1, <2>4 DEF Ascend
  <2>6. ASSUME NEW k \in DOMAIN Tail(cs)
        PROVE  /\ Tail(cs)[k].id[2] = t
               /\ Tail(cs)[k].id[3] = Head(Tail(cs)).id[3] + k - 1
    <3>1. Tail(cs)[k] = cs[k + 1] /\ k + 1 \in DOMAIN cs /\ k \in Nat
      BY <2>1, <2>3
    <3> QED
      BY <1>1, <2>5, <3>1 DEF Ascend
  <2> QED
    BY <2>5, <2>6 DEF Ascend
<1> QED
  BY <1>1, <1>2, <1>3 DEF Ascend

\* So are the calls of a run that executes one of them.
LEMMA CallsOfRun ==
  ASSUME LoopInv, NEW r \in Runs, CallsAscend(r), pc[r] = "tool"
  PROVE  calls[r] \in Seq(ToolCall) /\ calls[r] # <<>> /\ Ascend(calls[r], at[r])
BY ToolHasCall DEF LoopInv, LoopTypes, TypeOK, CallsAscend, Ascend

\* And of one that will.
LEMMA CallsOfRunThen ==
  ASSUME LoopInv', NEW r \in Runs, CallsAscend(r)', pc'[r] = "tool"
  PROVE  calls'[r] \in Seq(ToolCall) /\ calls'[r] # <<>> /\ Ascend(calls'[r], at'[r])
BY DEF LoopInv, LoopTypes, TypeOK, GrammarInv, Fits, CallsAscend, Ascend

\* What a run is past when it awaits the provider it is past in any case.
LEMMA PastProvider ==
  ASSUME NEW e, NEW t \in Nat, NEW cs, NEW ds, NEW n \in Nat, NEW m \in Nat, n <= m,
         NEW p \in {"tool", "failed", "done"}, p = "tool" => Head(ds).id[2] = t,
         IsPast(e, "provider", t, cs, n)
  PROVE  IsPast(e, p, t, ds, m)
<1> DEFINE Over(u) == u \in 0..t /\ u < t
<1>1. /\ e.tag = "provider:request"  => e.data[2] \in 0..m
      /\ e.tag = "provider:response" => Over(e.data[1])
      /\ e.tag = "message:assistant" => e.data[2] # <<>> /\ Over(e.data[2][1][2])
      /\ e.tag = "tool:start" => Over(e.data[2])
      /\ e.tag \in {"tool:end", "tool:error"} => Over(e.data[1][2])
      /\ e.tag \notin {"provider:error", "session:end"}
  BY DEF IsPast
<1>2. \A u : Over(u) => u \in 0..t /\ u # t
  OBVIOUS
<1> HIDE DEF Over
<1>3. e.tag \in {"tool:end", "tool:error"} => e.data[1][2] # t
  BY <1>1, <1>2
<1>4. CASE p = "tool"
  BY <1>1, <1>2, <1>3, <1>4 DEF IsPast
<1>5. CASE p # "tool"
  BY <1>1, <1>2, <1>5 DEF IsPast
<1> QED
  BY <1>4, <1>5

\* One that has a call executed goes on to the next.
LEMMA PastCall ==
  ASSUME NEW e, NEW t \in Nat, NEW cs, NEW ds, NEW n \in Nat, NEW m \in Nat, n <= m,
         Head(cs).id[3] \in Nat, Head(ds).id[3] = Head(cs).id[3] + 1, Head(ds).id[2] = t,
         IsPast(e, "tool", t, cs, n)
  PROVE  IsPast(e, "tool", t, ds, m)
<1> DEFINE Up(id) == id[2] \in 0..t /\ (id[2] = t => id[3] \in 1..Head(cs).id[3])
           After(id) == id[2] \in 0..t /\ (id[2] = t => id[3] \in 1..Head(ds).id[3])
<1>1. /\ e.tag = "provider:request"  => e.data[2] \in 0..m
      /\ e.tag = "provider:response" => e.data[1] \in 0..t
      /\ e.tag = "message:assistant" => e.data[2] # <<>> /\ e.data[2][1][2] \in 0..t
      /\ e.tag = "tool:start" => Up(e.data)
      /\ e.tag \in {"tool:end", "tool:error"} => Up(e.data[1])
      /\ e.tag \notin {"provider:error", "session:end"}
  BY DEF IsPast
<1>2. \A id : Up(id) => After(id) /\ ~(id[2] = t /\ id[3] = Head(ds).id[3])
  OBVIOUS
<1> HIDE DEF Up
<1>3. \A id : After(id) /\ ~(id[2] = t /\ id[3] = Head(ds).id[3]) => id # Head(ds).id
  OBVIOUS
<1>4. /\ e.tag = "tool:start" => After(e.data)
      /\ e.tag \in {"tool:end", "tool:error"} => After(e.data[1]) /\ e.data[1] # Head(ds).id
  BY <1>1, <1>2, <1>3
<1> QED
  BY <1>1, <1>4 DEF IsPast

\* What a run is past it stays past.
LEMMA StaysPast ==
  ASSUME LoopInv, PastInv, NEW r \in Runs, Moves(r), CallsAscend(r)', LoopInv',
         NEW e \in Event, PastNow(e)
  PROVE  PastThen(e)
<1>0. /\ e.run \in Runs /\ Len(messages) \in Nat
      /\ \A q \in Runs : at[q] \in Nat
  BY LenProperties, TurnFacts DEF Event, LoopInv, LoopTypes, TypeOK
<1>1. CASE e.run # r
  BY <1>0, <1>1 DEF Moves, Elsewhere, PastNow, PastThen, IsPast
<1>2. ASSUME e.run = r PROVE PastThen(e)
  <2>1. CASE pc[r] = "idle"
    BY <1>2, <2>1 DEF PastNow, IsPast
  <2>2. ASSUME pc[r] = "provider" PROVE PastThen(e)
    <3>1. pc'[r] = "tool" => Head(calls'[r]).id[2] = at'[r]
      BY CallsOfRunThen, NextCallNumber
    <3>2. /\ IsPast(e, "provider", at[r], calls[r], Len(messages))
          /\ pc'[r] \in {"tool", "failed", "done"} /\ at'[r] = at[r]
          /\ Len(messages') \in Nat /\ Len(messages) <= Len(messages')
      BY <1>2, <2>2 DEF Moves, PastNow
    <3>3. IsPast(e, pc'[r], at[r], calls'[r], Len(messages'))
      BY <1>0, <3>1, <3>2, PastProvider
    <3> QED
      BY <1>2, <3>2, <3>3 DEF PastThen
  <2>3. ASSUME pc[r] = "tool" PROVE PastThen(e)
    <3>1. /\ Head(calls[r]).id[2] = at[r] /\ Head(calls[r]).id[3] \in Nat
          /\ Tail(calls[r]) # <<>> =>
               /\ Head(Tail(calls[r])).id[2] = at[r]
               /\ Head(Tail(calls[r])).id[3] = Head(calls[r]).id[3] + 1
      <4>1. calls[r] \in Seq(ToolCall) /\ calls[r] # <<>> /\ Ascend(calls[r], at[r])
        BY <2>3, CallsOfRun DEF PastInv
      <4> QED
        BY <4>1, NextCallNumber
    <3>2. ASSUME pc'[r] = "tool" PROVE PastThen(e)
      <4>1. /\ IsPast(e, "tool", at[r], calls[r], Len(messages))
            /\ at'[r] = at[r] /\ calls'[r] = Tail(calls[r]) /\ Tail(calls[r]) # <<>>
            /\ Len(messages') \in Nat /\ Len(messages) <= Len(messages')
        BY <1>2, <2>3, <3>2 DEF Moves, PastNow
      <4>2. IsPast(e, "tool", at[r], calls'[r], Len(messages'))
        BY <1>0, <3>1, <4>1, PastCall
      <4> QED
        BY <1>2, <3>2, <4>1, <4>2 DEF PastThen
    <3>3. CASE pc'[r] # "tool"
      BY <1>0, <1>2, <2>3, <3>3 DEF Moves, PastNow, PastThen, IsPast
    <3> QED
      BY <3>2, <3>3
  <2> QED
    BY <2>1, <2>2, <2>3 DEF Moves
<1> QED
  BY <1>1, <1>2

\* The events there are when a step begins.
LEMMA NowReached ==
  ASSUME LoopInv, PastInv, NEW r \in Runs, Moves(r), CallsAscend(r)', LoopInv'
  PROVE  Reached(events, r, {})
<1>1. events \in Seq(Event) /\ DOMAIN events = 1..Len(events)
  BY LenProperties DEF LoopInv, LoopTypes
<1>2. \A i \in DOMAIN events : events[i] \in Event /\ PastNow(events[i])
  BY <1>1, EventsHaveRuns DEF PastInv, PastNow
<1>3. \A i \in DOMAIN events : PastThen(events[i])
  BY <1>2, StaysPast
<1> QED
  BY <1>1, <1>2, <1>3 DEF Reached, PastInv

\* A step keeps it that no event is emitted twice.
LEMMA ReachedKeepsPast ==
  ASSUME LoopInv, PastInv, NEW r \in Runs, Moves(r), CallsAscend(r)',
         Emits(events, events', r), NEW tags, Reached(events', r, tags),
         pc'[r] = "done" => \E i \in DOMAIN events' :
                              events'[i].run = r /\ events'[i].tag = "session:end"
  PROVE  PastInv'
<1>1. NoneTwice(events')
  BY DEF Reached
<1>2. ASSUME NEW q \in Runs PROVE CallsAscend(q)'
  BY DEF CallsAscend, Moves, Elsewhere, PastInv
<1>3. \A i \in DOMAIN events' :
        LET q == events'[i].run
        IN IsPast(events'[i], pc'[q], at'[q], calls'[q], Len(messages'))
  BY DEF Reached, PastThen
<1>4. ASSUME NEW q \in Runs \ {r}, pc'[q] = "done"
      PROVE  \E i \in DOMAIN events' : events'[i].run = q /\ events'[i].tag = "session:end"
  <2>1. PICK i \in DOMAIN events : events[i].run = q /\ events[i].tag = "session:end"
    BY <1>4 DEF PastInv, Moves, Elsewhere
  <2>2. i \in 1..Len(events) /\ Len(events) \in Nat /\ events' \in Seq(Event)
    BY LenProperties DEF LoopInv, LoopTypes, Emits
  <2>3. i \in DOMAIN events' /\ events'[i] = events[i]
    BY <2>2, LenProperties DEF Emits
  <2> QED
    BY <2>1, <2>3
<1> QED
  BY <1>1, <1>2, <1>3, <1>4 DEF PastInv

\* What a run that starts, is answered or has its result emits last.
LEMMA LastEventPast ==
  ASSUME LoopInv, PastInv, LoopInv', NEW r \in Runs, Moves(r), CallsAscend(r)',
         Emits(events, events', r),
         NEW log, NEW tags, Reached(log, r, tags),
         tags \cap {"session:end", "provider:request", "tool:start"} = {},
         OneMore(r, log),
         pc[r] \in {"idle", "provider", "tool"}, pc[r] = "idle" => pc'[r] # "tool",
         Len(messages) < Len(messages')
  PROVE  PastInv'
<1>0. /\ Len(messages) \in Nat /\ Len(messages') \in Nat /\ at[r] \in Nat /\ at'[r] \in Nat
      /\ log \in Seq(Event)
  BY LenProperties, TurnFacts DEF LoopInv, LoopTypes, TypeOK, Reached
<1>1. CASE events' = log /\ pc'[r] = "failed"
  BY <1>1, ReachedKeepsPast
<1>2. ASSUME NEW e \in Event, e.run = r,
             e.tag \in {"session:end", "provider:request", "tool:start"},
             e.tag = "tool:start" => pc'[r] = "tool" /\ e.data = Head(calls'[r]).id,
             e.tag = "provider:request" => e.data[2] = Len(messages'),
             e.tag = "session:end" <=> pc'[r] = "done",
             events' = Append(log, e)
      PROVE  PastInv'
  <2>1. ASSUME e.tag = "session:end" PROVE PastThen(e) /\ ~PastNow(e)
    BY <1>2, <2>1 DEF PastThen, PastNow, IsPast, Moves
  <2>2. ASSUME e.tag = "provider:request" PROVE PastThen(e) /\ ~PastNow(e)
    BY <1>0, <1>2, <2>2 DEF PastThen, PastNow, IsPast, Moves
  <2>3. ASSUME e.tag = "tool:start" PROVE PastThen(e) /\ ~PastNow(e)
    <3>1. pc'[r] = "tool" /\ e.data = Head(calls'[r]).id
      BY <1>2, <2>3
    <3>2. e.data[2] = at'[r] /\ e.data[3] \in Nat /\ e.data[3] >= 1
      <4>1. calls'[r] \in Seq(ToolCall) /\ calls'[r] # <<>> /\ Ascend(calls'[r], at'[r])
        BY <3>1, CallsOfRunThen
      <4>2. /\ Head(calls'[r]).id[2] = at'[r] /\ Head(calls'[r]).id[3] \in Nat
            /\ Head(calls'[r]).id[3] >= 1
        BY <4>1, NextCallNumber
      <4> QED
        BY <3>1, <4>2
    <3>3. PastThen(e)
      BY <1>0, <1>2, <2>3, <3>1, <3>2 DEF PastThen, IsPast
    <3>4. CASE pc[r] # "tool"
      BY <1>0, <1>2, <2>3, <3>1, <3>2, <3>3, <3>4 DEF PastNow, IsPast, Moves
    <3>5. ASSUME pc[r] = "tool" PROVE ~PastNow(e)
      <4>1. at'[r] = at[r] /\ calls'[r] = Tail(calls[r]) /\ Tail(calls[r]) # <<>>
        BY <3>1, <3>5 DEF Moves
      <4>2. /\ e.data[2] = at[r] /\ Head(calls[r]).id[3] \in Nat
            /\ e.data[3] = Head(calls[r]).id[3] + 1
        <5>1. calls[r] \in Seq(ToolCall) /\ calls[r] # <<>> /\ Ascend(calls[r], at[r])
          BY <3>5, CallsOfRun DEF PastInv
        <5>2. /\ Head(calls[r]).id[3] \in Nat
              /\ Head(Tail(calls[r])).id[2] = at[r]
              /\ Head(Tail(calls[r])).id[3] = Head(calls[r]).id[3] + 1
          BY <4>1, <5>1, NextCallNumber
        <5> QED
          BY <3>1, <4>1, <5>2
      <4> QED
        BY <1>2, <2>3, <3>5, <4>2 DEF PastNow, IsPast
    <3> QED
      BY <3>3, <3>4, <3>5
  <2>4. Reached(events', r, tags \cup {e.tag})
    BY <1>2, <2>1, <2>2, <2>3, OneMorePast
  <2>5. /\ DOMAIN events' = 1..(Len(log) + 1) /\ Len(log) \in Nat
        /\ events'[Len(log) + 1] = e
    BY <1>0, <1>2, AppendProperties, LenProperties
  <2> QED
    BY <1>2, <2>4, <2>5, ReachedKeepsPast
<1> QED
  BY <1>1, <1>2 DEF OneMore

\* A run that starts is past its events.
LEMMA StartRunPast ==
  ASSUME LoopInv, PastInv, LoopInv', NEW r \in Runs, StartRun(r)
  PROVE  PastInv'
<1> DEFINE d   == Ev("session:start", r, 0)
           e   == Ev("message:user", r, 0)
           one == Append(events, d)
           log == Append(one, e)
<1>0. /\ LoopTypes /\ TypeOK /\ events \in Seq(Event) /\ messages \in Seq(Message)
      /\ messages' \in Seq(Message)
  BY DEF LoopInv, LoopTypes, TypeOK
<1>1. /\ d \in Event /\ d.run = r /\ d.tag = "session:start"
      /\ e \in Event /\ e.run = r /\ e.tag = "message:user"
  BY EventTypes DEF Ev
<1>2. /\ Elsewhere(r) /\ pc[r] = "idle" /\ pc'[r] \in {"provider", "done"}
      /\ messages' = Append(messages, UserMsg(r))
  BY <1>0, StartRunShape
<1>3. Len(messages) \in Nat /\ Len(messages') = Len(messages) + 1
  BY <1>0, <1>2, MessageTypes, AppendProperties, LenProperties
<1>4. Moves(r) /\ CallsAscend(r)'
  BY <1>2, <1>3 DEF Moves, CallsAscend
<1>5. /\ PastThen(d) /\ ~PastNow(d) /\ PastThen(e) /\ ~PastNow(e)
  BY <1>1, <1>2 DEF PastThen, PastNow, IsPast
<1>6. BeginTurn(r, 0, events \o <<d, e>>)
  BY DEF StartRun
<1> HIDE DEF d, e
<1>7. Reached(one, r, {} \cup {"session:start"})
  BY <1>1, <1>4, <1>5, NowReached, OneMorePast
<1>8. BeginTurn(r, 0, log)
  BY <1>0, <1>1, <1>6, TwoEvents
<1> HIDE DEF one
<1>9. Reached(log, r, {"session:start", "message:user"})
  <2>1. Reached(log, r, ({} \cup {"session:start"}) \cup {"message:user"})
    BY <1>1, <1>5, <1>7, OneMorePast
  <2>2. ({} \cup {"session:start"}) \cup {"message:user"} = {"session:start", "message:user"}
    OBVIOUS
  <2> QED
    BY <2>1, <2>2
<1> HIDE DEF log
<1>10. OneMore(r, log)
  BY <1>0, <1>8, GoesOnEvent
<1>11. Emits(events, events', r)
  BY <1>0, StartRunEmits
<1> QED
  BY <1>2, <1>3, <1>4, <1>9, <1>10, <1>11, LastEventPast

\* So is one whose provider fails.
LEMMA ProviderFailsPast ==
  ASSUME LoopInv, PastInv, LoopInv', NEW r \in Runs,
         ProviderThrows(r) \/ ProviderReturnsNoMessage(r)
  PROVE  PastInv'
<1> DEFINE e == Ev("provider:error", r, at[r])
<1>0. LoopTypes /\ TypeOK /\ at[r] \in Turns /\ Len(messages) \in Nat
  BY LenProperties DEF LoopInv, LoopTypes, TypeOK
<1>1. /\ Elsewhere(r) /\ pc[r] = "provider" /\ pc'[r] = "failed"
      /\ at'[r] = at[r] /\ messages' = messages
  BY <1>0, ProviderFailsShape
<1>2. Moves(r) /\ CallsAscend(r)'
  BY <1>0, <1>1 DEF Moves, CallsAscend
<1>3. Reached(events, r, {}) /\ Emits(events, events', r)
  BY <1>0, <1>2, NowReached, ProviderEmits
<1>4. e \in Event /\ e.run = r /\ e.tag = "provider:error"
  BY <1>0, EventTypes DEF Ev
<1>5. events' = events \/ events' = Append(events, e)
  BY DEF ProviderThrows, ProviderReturnsNoMessage, Finish
<1> HIDE DEF e
<1>6. PastThen(e) /\ ~PastNow(e)
  BY <1>1, <1>4 DEF PastThen, PastNow, IsPast
<1>7. Reached(events', r, {}) \/ Reached(events', r, {} \cup {"provider:error"})
  <2>1. CASE events' = events
    BY <1>3, <2>1
  <2>2. CASE events' = Append(events, e)
    <3>1. Reached(Append(events, e), r, {} \cup {e.tag})
      BY <1>3, <1>4, <1>6, OneMorePast
    <3> QED
      BY <1>4, <2>2, <3>1
  <2> QED
    BY <1>5, <2>1, <2>2
<1> QED
  BY <1>1, <1>2, <1>3, <1>7, ReachedKeepsPast


\* So is one whose provider answers.
LEMMA ProviderRepliesPast ==
  ASSUME LoopInv, PastInv, LoopInv', NEW r \in Runs,
         NEW msg \in Replies(r, at[r]), ProviderReplies(r, msg)
  PROVE  PastInv'
<1> DEFINE norm == Normalize(msg, at[r])
           cs   == norm.calls
           ids  == [k \in DOMAIN cs |-> cs[k].id]
           d    == Ev("provider:response", r, <<at[r], msg.text, norm.rehydrated>>)
           e    == Ev("message:assistant", r, <<norm.text, ids>>)
           one  == Append(events, d)
           log  == Append(one, e)
<1>0. /\ LoopTypes /\ TypeOK /\ events \in Seq(Event) /\ messages \in Seq(Message)
      /\ messages' \in Seq(Message) /\ at[r] \in Turns /\ at[r] + 1 \in Nat /\ at[r] \in Nat
      /\ Len(messages) \in Nat
  BY TurnFacts, LenProperties DEF LoopInv, LoopTypes, TypeOK
<1>1. /\ msg.text \in Texts /\ norm.text \in Texts /\ norm.rehydrated \in BOOLEAN
      /\ cs \in Seq(ToolCall) /\ ids \in Seq(CallIds)
      /\ \A k \in DOMAIN cs : cs[k].id \in {<<r, at[r], k>>, <<0, at[r], k>>}
  BY <1>0, NormalizeFacts
<1>2. /\ pc[r] = "provider"
      /\ messages' = Append(messages, AssistantMsg(r, norm.text, ids))
      /\ \/ cs # <<>> /\ BeginCall(r, cs, events \o <<d, e>>)
         \/ /\ cs = <<>>
            /\ Finish(r, "done", Append(events \o <<d, e>>,
                                        Ev("session:end", r, <<"model_done", at[r] + 1>>)))
  BY DEF ProviderReplies
<1>3. /\ d \in Event /\ d.run = r /\ d.tag = "provider:response" /\ d.data[1] = at[r]
      /\ e \in Event /\ e.run = r /\ e.tag = "message:assistant" /\ e.data[2] = ids
  BY <1>0, <1>1, EventTypes DEF Ev
<1>4. cs # <<>> =>
        /\ ids # <<>> /\ ids[1][2] = at[r]
        /\ \A k \in DOMAIN cs : cs[k].id[2] = at[r] /\ cs[k].id[3] = Head(cs).id[3] + k - 1
  <2>1. ASSUME cs # <<>>
        PROVE  1 \in DOMAIN cs /\ Head(cs) = cs[1] /\ ids[1] = cs[1].id /\ 1 \in DOMAIN ids
    BY <1>1, <2>1, FirstCall
  <2>2. DOMAIN cs = 1..Len(cs) /\ Len(cs) \in Nat
    BY <1>1, LenProperties
  <2>3. \A k \in DOMAIN cs : cs[k].id[2] = at[r] /\ cs[k].id[3] = k
    BY <1>1
  <2> HIDE DEF ids, cs
  <2> QED
    BY <2>1, <2>2, <2>3
<1>5. cs = <<>> => ids = <<>>
  OBVIOUS
<1> HIDE DEF norm, cs, ids, d, e
<1>6. /\ Elsewhere(r) /\ at'[r] = at[r]
      /\ \/ cs # <<>> /\ pc'[r] = "tool" /\ calls'[r] = cs
         \/ cs # <<>> /\ pc'[r] = "failed"
         \/ cs = <<>> /\ pc'[r] = "done"
  BY <1>0, <1>1, <1>2, FinishShape, BeginCallShape
<1>7. Len(messages') = Len(messages) + 1
  BY <1>0, <1>1, <1>2, MessageTypes, AppendProperties
<1>8. Moves(r) /\ CallsAscend(r)'
  <2>1. Moves(r)
    BY <1>0, <1>2, <1>6, <1>7 DEF Moves
  <2>2. CallsAscend(r)'
    BY <1>4, <1>6 DEF CallsAscend
  <2> QED
    BY <2>1, <2>2
<1>9. PastThen(d) /\ ~PastNow(d)
  BY <1>0, <1>2, <1>3, <1>6 DEF PastThen, PastNow, IsPast
<1>10. PastThen(e) /\ ~PastNow(e)
  <2>1. CASE cs = <<>>
    BY <1>2, <1>3, <1>5, <1>6, <2>1 DEF PastThen, PastNow, IsPast
  <2>2. CASE cs # <<>>
    BY <1>0, <1>2, <1>3, <1>4, <1>6, <2>2 DEF PastThen, PastNow, IsPast
  <2> QED
    BY <2>1, <2>2
<1>11. events \o <<d, e>> = log
  BY <1>0, <1>3, TwoEvents
<1>12. Reached(one, r, {"provider:response"})
  <2>1. Reached(one, r, {} \cup {d.tag})
    BY <1>3, <1>8, <1>9, NowReached, OneMorePast
  <2> QED
    BY <1>3, <2>1
<1> HIDE DEF one
<1>13. Reached(log, r, {"provider:response", "message:assistant"})
  <2>1. Reached(log, r, {"provider:response"} \cup {e.tag})
    BY <1>3, <1>10, <1>12, OneMorePast
  <2>2. {"provider:response"} \cup {e.tag} = {"provider:response", "message:assistant"}
    BY <1>3
  <2> QED
    BY <2>1, <2>2
<1> HIDE DEF log
<1>14. OneMore(r, log)
  BY <1>0, <1>1, <1>2, <1>11, GoesOnEvent DEF Reasons
<1>15. Emits(events, events', r)
  BY <1>0, ProviderEmits
<1> QED
  BY <1>0, <1>2, <1>7, <1>8, <1>13, <1>14, <1>15, LastEventPast

\* And one whose tool settles.
LEMMA ToolPast ==
  ASSUME LoopInv, PastInv, LoopInv', NEW r \in Runs, NEW res \in ToolResults,
         ToolSettles(r, res)
  PROVE  PastInv'
<1> DEFINE id   == Head(calls[r]).id
           rest == Tail(calls[r])
           e    == IF res = "error" THEN Ev("tool:error", r, <<id, res>>)
                                    ELSE Ev("tool:end", r, <<id, Preview(res)>>)
           log  == Append(events, e)
<1>0. /\ LoopTypes /\ TypeOK /\ events \in Seq(Event) /\ messages \in Seq(Message)
      /\ messages' \in Seq(Message) /\ at[r] + 1 \in Nat /\ at[r] \in Nat
      /\ Len(messages) \in Nat
  BY TurnFacts, LenProperties DEF LoopInv, LoopTypes, TypeOK
<1>1. /\ Elsewhere(r) /\ pc[r] = "tool" /\ calls[r] # <<>>
      /\ messages' = Append(messages, ToolMsg(r, id, res))
      /\ \/ /\ rest # <<>>
            /\ pc'[r] = "tool" /\ calls'[r] = rest /\ at'[r] = at[r]
         \/ pc'[r] = "failed" /\ at'[r] = at[r]
         \/ pc'[r] = "provider" /\ at'[r] = at[r] + 1
         \/ pc'[r] = "done" /\ at'[r] = at[r]
  BY ToolSettlesShape
<1>2. calls[r] \in Seq(ToolCall) /\ Ascend(calls[r], at[r])
  BY <1>1, CallsOfRun DEF PastInv
<1>3. /\ id \in CallIds /\ id[2] = at[r] /\ id[3] \in Nat /\ id[3] >= 1
      /\ rest \in Seq(ToolCall)
      /\ rest # <<>> => /\ Head(rest).id[2] = at[r] /\ Head(rest).id[3] = id[3] + 1
                        /\ Ascend(rest, at[r])
  BY <1>1, <1>2, NextCallNumber, HeadIsToolCall
<1>4. Len(messages') = Len(messages) + 1
  BY <1>0, <1>1, <1>3, ResultTypes, MessageTypes, AppendProperties
<1>5. Moves(r) /\ CallsAscend(r)'
  <2>1. Moves(r)
    BY <1>0, <1>1, <1>4 DEF Moves
  <2>2. CallsAscend(r)'
    BY <1>1, <1>3 DEF CallsAscend, Ascend
  <2> QED
    BY <2>1, <2>2
<1>6. /\ e \in Event /\ e.run = r /\ e.tag \in {"tool:end", "tool:error"}
      /\ e.data[1] = id
  BY <1>3, ResultTypes, EventTypes DEF Ev, Preview
<1>7. \/ rest # <<>> /\ BeginCall(r, rest, log)
      \/ rest = <<>> /\ BeginTurn(r, at[r] + 1, log)
  BY DEF ToolSettles
<1> HIDE DEF e
<1>8. ~PastNow(e)
  BY <1>1, <1>6 DEF PastNow, IsPast
<1>9. PastThen(e)
  <2>1. CASE pc'[r] = "tool"
    <3>1. /\ id[2] \in 0..at'[r] /\ id[3] \in 1..Head(calls'[r]).id[3]
          /\ id # Head(calls'[r]).id
      <4>1. /\ at'[r] = at[r] /\ Head(calls'[r]).id[2] = at[r]
            /\ Head(calls'[r]).id[3] = id[3] + 1
        BY <1>1, <1>3, <2>1
      <4>2. id[2] = at[r] /\ id[3] \in Nat /\ id[3] >= 1
        BY <1>3
      <4> HIDE DEF id
      <4> QED
        BY <1>0, <4>1, <4>2
    <3> HIDE DEF id
    <3> QED
      BY <1>6, <2>1, <3>1 DEF PastThen, IsPast
  <2>2. CASE pc'[r] # "tool"
    BY <1>0, <1>1, <1>3, <1>6, <2>2 DEF PastThen, IsPast
  <2> QED
    BY <2>1, <2>2
<1> HIDE DEF id, rest
<1>10. Reached(log, r, {e.tag})
  <2>1. Reached(log, r, {} \cup {e.tag})
    BY <1>5, <1>6, <1>8, <1>9, NowReached, OneMorePast
  <2> QED
    BY <2>1
<1> HIDE DEF log
<1>11. OneMore(r, log)
  BY <1>0, <1>3, <1>7, GoesOnEvent
<1>12. Emits(events, events', r)
  BY ToolEmits
<1> QED
  BY <1>0, <1>1, <1>4, <1>5, <1>6, <1>10, <1>11, <1>12, LastEventPast

\* No step emits an event a second time, or one its run is not past afterwards.
LEMMA NextPast ==
  ASSUME LoopInv, PastInv, [Next]_loopVars
  PROVE  PastInv'
<1>0. LoopInv'
  BY LoopInvNext
<1>1. CASE UNCHANGED loopVars
  BY <1>1 DEF PastInv, CallsAscend, loopVars
<1>2. ASSUME NEW r \in Runs, StartRun(r) PROVE PastInv'
  BY <1>0, <1>2, StartRunPast
<1>3. ASSUME NEW r \in Runs, Resume(r) PROVE PastInv'
  BY <1>0, <1>3, ProviderFailsPast, ProviderRepliesPast, ToolPast DEF Resume
<1> QED
  BY <1>1, <1>2, <1>3 DEF Next

\* Nothing is emitted at first.
LEMMA InitPast == Init => PastInv
BY DEF Init, PastInv, NoneTwice, CallsAscend

\* However many runs a session has, and however they overlap, no event is emitted
\* twice: a line of a log stands for one event (the emits of run()).
THEOREM NoEventTwice == Spec => [](NoneTwice(events))
<1>1. LoopInv /\ PastInv /\ [Next]_loopVars => LoopInv' /\ PastInv'
  BY LoopInvNext, NextPast
<1>2. PastInv => NoneTwice(events)
  BY DEF PastInv
<1> QED
  BY <1>1, <1>2, LoopInvInit, InitPast, PTL DEF Spec

=============================================================================
