--------------------------- MODULE AcpClientProofs --------------------------
(***************************************************************************)
(* Proofs about AcpClient, for every number of prompts and of updates, and *)
(* for callers that prompt again after a failure as well as for those that *)
(* do not.  ClientInv is inductive; what is said of the call table and of  *)
(* shutdown() follows from it.  With CollectInv, for callers that give up  *)
(* at the first failure, it carries what a prompt returns.                 *)
(***************************************************************************)
EXTENDS AcpClient, SequenceTheorems, FiniteSetTheorems, TLAPS

\* A new client has made no call.
LEMMA InitClientInv == Init => ClientInv
<1> SUFFICES ASSUME Init PROVE ClientInv
  OBVIOUS
<1>1. /\ stdin \in Seq(Calls) /\ stdout \in Seq(Lines)
      /\ sent \in [Calls -> Seq(Lines)]
  BY DEF Init
<1>2. settled \in [Calls -> Outcomes] /\ nextId \in 1..(MaxPrompts + 3)
  BY ClientAssumption DEF Init, Outcomes
<1>3. TypeOK
  BY <1>1, <1>2 DEF Init, TypeOK
<1>4. Made = {}
  BY DEF Init, Made
<1> QED
  BY <1>3, <1>4 DEF Init, ClientInv, PendingIffUnsettled, ClosedMeansGoneOrKilled

\* call(), whichever method makes it: the new id is fresh, its entry and its
\* unsettled promise appear together.
LEMMA CallKeepsTable ==
  ASSUME ClientInv, NEW awaiting, Call(awaiting), nextId \in Calls
  PROVE  /\ nextId' \in 1..(MaxPrompts + 3) /\ nextId' >= nextId
         /\ pending' \subseteq Calls
         /\ settled' = settled
         /\ stdin' \in Seq(Calls)
         /\ pending' = {c \in 1..(nextId' - 1) : settled[c] = "none"}
         /\ exitCode => pending' = {} /\ caller' = "failed"
         /\ ~exitCode => nextId' = nextId + 1 /\ caller' = awaiting
\* Shown before Calls is expanded: the backend loses Seq(1..n).
<1>1. stdin \in Seq(Calls)
  BY DEF ClientInv, TypeOK
<1>2. ~exitCode => stdin' \in Seq(Calls)
  BY <1>1 DEF Call
<1> USE ClientAssumption DEF ClientInv, TypeOK, PendingIffUnsettled, Calls, Made
<1>3. CASE exitCode
  BY <1>3 DEF Call, table
<1>4. CASE ~exitCode
  <2>1. /\ nextId' = nextId + 1 /\ pending' = pending \cup {nextId}
        /\ settled' = settled /\ caller' = awaiting
    BY <1>4 DEF Call, table
  <2>2. settled[nextId] = "none"
    OBVIOUS
  <2>3. stdin' \in Seq(Calls)
    BY <1>4, <1>2
  <2>4. pending' = {c \in 1..(nextId' - 1) : settled[c] = "none"}
    BY <2>1, <2>2
  <2> QED BY <1>4, <2>1, <2>3, <2>4
<1> QED BY <1>3, <1>4

\* The methods that make a call.
LEMMA CallsPreserveClientInv ==
  ClientInv /\ (Initialize \/ NewSession \/ Prompt) => ClientInv'
<1> SUFFICES ASSUME ClientInv, Initialize \/ NewSession \/ Prompt
             PROVE  ClientInv'
  OBVIOUS
<1> DEFINE awaiting == IF caller = "created" THEN "initialize"
                       ELSE IF caller = "initialized" THEN "session/new"
                       ELSE "session/prompt"
<1>1. /\ Call(awaiting) /\ nextId \in Calls
      /\ caller \in {"created", "initialized", "open"}
      /\ caller = "created" => nextId = 1
      /\ UNCHANGED <<exitCode, sessionId, signal, child, working, stdout, sent>>
  BY ClientAssumption DEF Initialize, NewSession, Prompt, ClientInv, Calls, buffers
<1>2. /\ nextId' \in 1..(MaxPrompts + 3) /\ nextId' >= nextId
      /\ pending' \subseteq Calls
      /\ settled' = settled
      /\ stdin' \in Seq(Calls)
      /\ pending' = {c \in 1..(nextId' - 1) : settled[c] = "none"}
      /\ exitCode => pending' = {} /\ caller' = "failed"
      /\ ~exitCode => nextId' = nextId + 1 /\ caller' = awaiting
  <2> HIDE DEF awaiting
  <2> QED BY <1>1, CallKeepsTable
<1>3. caller' \in {"initialize", "session/new", "session/prompt", "failed"}
  BY <1>2
<1>4. TypeOK'
  BY <1>1, <1>2, <1>3 DEF ClientInv, TypeOK
<1>5. PendingIffUnsettled'
  BY <1>1, <1>2 DEF PendingIffUnsettled, Made
<1>6. \A c \in Calls : c >= nextId' => settled'[c] = "none"
  BY <1>2 DEF ClientInv, TypeOK, Calls
<1>7. caller' = "initialize" => nextId' = 2
  BY <1>1, <1>2
<1> QED
  BY <1>3, <1>4, <1>5, <1>6, <1>7 DEF ClientInv, ClosedMeansGoneOrKilled

\* A step that leaves the call table, the child's pipes and the exit alone
\* preserves the invariant if it leaves the caller where its position says.
LEMMA CallerMoves ==
  ASSUME ClientInv, UNCHANGED <<table, exitCode, server>>,
         sessionId' \in BOOLEAN, signal' \in Closing \cup {"none"},
         caller' \in {"initialized", "open", "failed", "closing", "closed"},
         caller' = "initialized" => caller = "initialize",
         caller' = "closing" => signal' \in Closing,
         caller' = "closed" => exitCode \/ signal' = "SIGKILL"
  PROVE  ClientInv'
<1>1. UNCHANGED <<nextId, pending, settled, exitCode, child, stdin, working, stdout, sent>>
  BY DEF table, server
<1>2. TypeOK'
  BY <1>1 DEF ClientInv, TypeOK
<1>3. PendingIffUnsettled'
  BY <1>1 DEF ClientInv, PendingIffUnsettled, Made
<1> QED
  BY <1>1, <1>2, <1>3 DEF ClientInv, ClosedMeansGoneOrKilled

\* The continuations of the caller, shutdown() included.
LEMMA CallerPreservesClientInv ==
  ClientInv /\ (Resume \/ Fail \/ Shutdown \/ WaitEnds \/ WaitTimesOut) => ClientInv'
<1> SUFFICES ASSUME ClientInv,
                    Resume \/ Fail \/ Shutdown \/ WaitEnds \/ WaitTimesOut
             PROVE  ClientInv'
  OBVIOUS
<1> USE DEF Closing
<1>6. sessionId \in BOOLEAN /\ signal \in Closing \cup {"none"}
  BY DEF ClientInv, TypeOK
<1>1. CASE Resume
  <2>1. caller' \in {"initialized", "open"} /\ (caller' = "initialized" => caller = "initialize")
    BY <1>1 DEF Resume
  <2>2. UNCHANGED <<table, exitCode, signal, server>> /\ sessionId' \in BOOLEAN
    BY <1>6, <1>1 DEF Resume, buffers
  <2> QED BY <1>6, <2>1, <2>2, CallerMoves
<1>2. CASE Fail
  <2>1. caller' \in {"failed", "open"} /\ UNCHANGED <<table, exitCode, sessionId, signal, server>>
    BY <1>2 DEF Fail, buffers
  <2> QED BY <1>6, <2>1, CallerMoves
<1>3. CASE Shutdown
  <2>1. UNCHANGED <<table, exitCode, sessionId, server>>
    BY <1>3 DEF Shutdown, buffers
  <2>2. \/ exitCode /\ caller' = "closed" /\ signal' = signal
        \/ caller' = "closing" /\ signal' = "stdin"
    BY <1>3 DEF Shutdown
  <2> QED BY <1>6, <2>1, <2>2, CallerMoves
<1>4. CASE WaitEnds
  <2>1. exitCode /\ caller' = "closed" /\ UNCHANGED <<table, exitCode, sessionId, signal, server>>
    BY <1>4 DEF WaitEnds, buffers
  <2> QED BY <1>6, <2>1, CallerMoves
<1>5. CASE WaitTimesOut
  <2>1. UNCHANGED <<table, exitCode, sessionId, server>>
    BY <1>5 DEF WaitTimesOut, buffers
  <2>2. \/ caller' = "closing" /\ signal' \in {"SIGTERM", "SIGKILL"}
        \/ caller' = "closed" /\ signal = "SIGKILL" /\ signal' = signal
    BY <1>5 DEF WaitTimesOut
  <2> QED BY <1>6, <2>1, <2>2, CallerMoves
<1> QED
  BY <1>1, <1>2, <1>3, <1>4, <1>5

\* A call settled by a line, a timer or the exit leaves the map in that step.
LEMMA SettlingPreservesClientInv ==
  ASSUME ClientInv,
         UNCHANGED <<caller, nextId, signal, child, stdin, working, sent>>,
         sessionId' \in BOOLEAN, stdout' \in Seq(Lines), exitCode' \in BOOLEAN,
         NEW S, pending' = pending \ S, NEW how \in Outcomes \ {"none"},
         settled' = [c \in Calls |-> IF c \in pending \cap S THEN how ELSE settled[c]],
         exitCode => exitCode', exitCode' => pending' = {}
  PROVE  ClientInv'
<1>1. \A c \in Calls : settled'[c] = "none" <=> settled[c] = "none" /\ c \notin pending \cap S
  BY DEF ClientInv, TypeOK
<1>2. Made \subseteq Calls
  BY ClientAssumption DEF ClientInv, TypeOK, Made, Calls
<1>3. PendingIffUnsettled'
  BY <1>1, <1>2 DEF ClientInv, PendingIffUnsettled, Made
<1>4. TypeOK'
  <2>1. settled' \in [Calls -> Outcomes]
    BY DEF ClientInv, TypeOK
  <2> QED BY <2>1 DEF ClientInv, TypeOK
<1>5. \A c \in Calls : c >= nextId' => settled'[c] = "none"
  <2>1. \A c \in Calls : c >= nextId => c \notin pending
    BY DEF ClientInv, TypeOK, PendingIffUnsettled, Made, Calls
  <2> QED BY <1>1, <2>1 DEF ClientInv
<1> QED
  BY <1>3, <1>4, <1>5 DEF ClientInv, ClosedMeansGoneOrKilled

\* A timer.
LEMMA TimeoutPreservesClientInv ==
  ASSUME ClientInv, NEW c \in Calls, Timeout(c) PROVE ClientInv'
<1>1. /\ UNCHANGED <<caller, nextId, signal, child, stdin, working, sent>>
      /\ sessionId' = sessionId /\ stdout' = stdout /\ exitCode' = exitCode
      /\ pending' = pending \ {c} /\ c \in pending
  BY DEF Timeout, buffers, server
<1>2. settled' = [d \in Calls |-> IF d \in pending \cap {c} THEN "timeout" ELSE settled[d]]
  BY <1>1 DEF Timeout, ClientInv, TypeOK
<1>3. sessionId' \in BOOLEAN /\ stdout' \in Seq(Lines) /\ exitCode' \in BOOLEAN
  BY <1>1 DEF ClientInv, TypeOK
<1>4. exitCode' => pending' = {}
  BY <1>1 DEF ClientInv, PendingIffUnsettled
<1> QED
  BY <1>1, <1>2, <1>3, <1>4, SettlingPreservesClientInv DEF Outcomes

\* The exit of the child.
LEMMA ExitPreservesClientInv ==
  ASSUME ClientInv, ExitEvent PROVE ClientInv'
<1>1. /\ UNCHANGED <<caller, nextId, signal, child, stdin, working, sent>>
      /\ sessionId' = sessionId /\ stdout' = stdout /\ exitCode' = TRUE
      /\ pending' = pending \ pending
  BY DEF ExitEvent, buffers, server
<1>2. settled' = [c \in Calls |-> IF c \in pending \cap pending THEN "exit" ELSE settled[c]]
  BY DEF ExitEvent
<1>3. sessionId' \in BOOLEAN /\ stdout' \in Seq(Lines) /\ exitCode' \in BOOLEAN
  BY <1>1 DEF ClientInv, TypeOK
<1>4. pending' = {}
  BY <1>1
<1> QED
  BY <1>1, <1>2, <1>3, <1>4, SettlingPreservesClientInv DEF Outcomes

\* A line: a response settles its call, a notification settles nothing.
LEMMA ReadLinePreservesClientInv ==
  ASSUME ClientInv, ReadLine PROVE ClientInv'
<1> DEFINE line == Head(stdout)
<1>1. /\ UNCHANGED <<caller, signal, child, stdin, working, sent, exitCode>>
      /\ stdout # <<>> /\ stdout' = Tail(stdout) /\ stdout \in Seq(Lines)
      /\ HandleReply(line) \/ HandleUpdate(line)
  BY DEF ReadLine, ClientInv, TypeOK
<1>2. line \in Lines /\ stdout' \in Seq(Lines)
  BY <1>1
<1>3. /\ sessionId' = sessionId /\ nextId' = nextId
      /\ sessionId' \in BOOLEAN /\ exitCode' \in BOOLEAN
  BY <1>1 DEF HandleReply, HandleUpdate, buffers, table, ClientInv, TypeOK
<1>4. settled = [c \in Calls |-> settled[c]]
  BY DEF ClientInv, TypeOK
<1>5. exitCode => pending = {}
  BY DEF ClientInv, PendingIffUnsettled
<1>6. CASE HandleReply(line)
  <2>1. pending' = pending \ {line.call} /\ line.kind \in Outcomes \ {"none"}
    BY <1>6 DEF HandleReply, Responses, Outcomes
  <2>2. settled' = [c \in Calls |->
                      IF c \in pending \cap {line.call} THEN line.kind ELSE settled[c]]
    BY <1>2, <1>4, <1>6 DEF HandleReply, Lines
  <2>3. exitCode' => pending' = {}
    BY <1>1, <1>5, <2>1
  <2> HIDE DEF line
  <2> QED
    BY <1>1, <1>2, <1>3, <2>1, <2>2, <2>3, SettlingPreservesClientInv
<1>7. CASE HandleUpdate(line)
  <2>1. UNCHANGED <<pending, settled>>
    BY <1>7 DEF HandleUpdate, table
  <2>2. UNCHANGED <<caller, nextId, pending, settled, exitCode, sessionId, signal,
                    child, stdin, working, sent>>
    BY <1>1, <1>3, <2>1
  <2>3. TypeOK'
    BY <1>2, <2>2 DEF ClientInv, TypeOK
  <2> QED
    BY <2>2, <2>3 DEF ClientInv, PendingIffUnsettled, Made, ClosedMeansGoneOrKilled
<1> QED
  BY <1>1, <1>6, <1>7

\* The child moves only itself and the pipes.
LEMMA ChildPreservesClientInv == ClientInv /\ Child => ClientInv'
<1> SUFFICES ASSUME ClientInv, Child PROVE ClientInv'
  OBVIOUS
<1>1. UNCHANGED <<caller, nextId, pending, settled, exitCode, sessionId, signal>>
  BY DEF Child, ChildReads, ChildDies, ChildUpdates, ChildAnswers, table, buffers
<1>2. /\ child' \in {"running", "dead"} /\ stdin' \in Seq(Calls)
      /\ stdout' \in Seq(Lines) /\ sent' \in [Calls -> Seq(Lines)]
      /\ working' \subseteq Calls
  <2>0. /\ child \in {"running", "dead"} /\ stdin \in Seq(Calls)
        /\ stdout \in Seq(Lines) /\ sent \in [Calls -> Seq(Lines)]
        /\ working \subseteq Calls
    BY DEF ClientInv, TypeOK
  <2> USE <2>0
  <2>1. CASE ChildReads
    <3>1. Head(stdin) \in Calls /\ Tail(stdin) \in Seq(Calls)
      BY <2>1 DEF ChildReads
    <3>2. \A how \in Responses : Reply(Head(stdin), how) \in Lines
      BY <3>1 DEF Reply, Lines
    <3>3. /\ child' = child /\ stdin' = Tail(stdin) /\ sent' = sent
          /\ working' \subseteq Calls
      BY <2>1, <3>1 DEF ChildReads
    <3>4. stdout' \in Seq(Lines)
      <4>1. \/ stdout' = stdout
            \/ \E how \in Responses : stdout' = Append(stdout, Reply(Head(stdin), how))
        BY <2>1 DEF ChildReads
      <4> QED BY <4>1, <3>2
    <3> QED BY <3>1, <3>3, <3>4
  <2>2. CASE ChildDies
    BY <2>2 DEF ChildDies
  <2>3. ASSUME NEW c \in Calls, ChildUpdates(c)
        PROVE  /\ child' = child /\ stdin' = stdin /\ working' = working
               /\ stdout' \in Seq(Lines) /\ sent' \in [Calls -> Seq(Lines)]
    <3>1. sent[c] \in Seq(Lines) /\ Len(sent[c]) \in Nat
      OBVIOUS
    <3>2. ToolCount(c) \in Nat
      <4>1. IsFiniteSet(1..Len(sent[c]))
        BY <3>1, FS_Interval
      <4> QED BY <4>1, FS_Subset, FS_CardinalityType DEF ToolCount, ToolsIn
    <3>3. /\ Update("tool_call_update", c, ToolCount(c)) \in Lines
          /\ Update("chunk", c, Len(sent[c]) + 1) \in Lines
          /\ Update("tool_call", c, ToolCount(c) + 1) \in Lines
      BY <3>1, <3>2 DEF Update, Updates, Lines
    <3>4. PICK u \in Lines : /\ sent' = [sent EXCEPT ![c] = Append(sent[c], u)]
                             /\ stdout' = Append(stdout, u)
      BY <2>3, <3>3 DEF ChildUpdates
    <3> QED BY <2>3, <3>1, <3>4 DEF ChildUpdates
  <2>4. ASSUME NEW c \in Calls, ChildAnswers(c)
        PROVE  /\ child' = child /\ stdin' = stdin /\ working' \subseteq Calls
               /\ stdout' \in Seq(Lines) /\ sent' = sent
    <3>1. \A how \in Responses : Reply(c, how) \in Lines
      BY DEF Reply, Lines
    <3> QED BY <2>4, <3>1 DEF ChildAnswers
  <2>5. CASE ChildReads \/ ChildDies
    BY <2>1, <2>2, <2>5
  <2> QED BY <2>3, <2>4, <2>5 DEF Child
<1>3. TypeOK'
  BY <1>1, <1>2 DEF ClientInv, TypeOK
<1> QED
  BY <1>1, <1>3 DEF ClientInv, PendingIffUnsettled, Made, ClosedMeansGoneOrKilled

\* Every step preserves the invariant.
LEMMA NextPreservesClientInv == ClientInv /\ [Next]_vars => ClientInv'
<1> SUFFICES ASSUME ClientInv, [Next]_vars PROVE ClientInv'
  OBVIOUS
<1>1. CASE Initialize \/ NewSession \/ Prompt
  BY <1>1, CallsPreserveClientInv
<1>2. CASE Resume \/ Fail \/ Shutdown \/ WaitEnds \/ WaitTimesOut
  BY <1>2, CallerPreservesClientInv
<1>3. CASE ReadLine
  BY <1>3, ReadLinePreservesClientInv
<1>4. CASE ExitEvent
  BY <1>4, ExitPreservesClientInv
<1>5. ASSUME NEW c \in Calls, Timeout(c) PROVE ClientInv'
  BY <1>5, TimeoutPreservesClientInv
<1>6. CASE Child
  BY <1>6, ChildPreservesClientInv
<1>7. CASE UNCHANGED vars
  BY <1>7 DEF vars, table, buffers, server, ClientInv, TypeOK, PendingIffUnsettled,
              Made, ClosedMeansGoneOrKilled
<1> QED
  BY <1>1, <1>2, <1>3, <1>4, <1>5, <1>6, <1>7 DEF Next, Client
-----------------------------------------------------------------------------
\* The call table, the caller and the shutdown stay consistent whatever the
\* child does and whenever the timers fire.
THEOREM ClientInvariant == Spec => []ClientInv
BY InitClientInv, NextPreservesClientInv, PTL DEF Spec

\* Every variable keeps its type.
THEOREM ClientTypeCorrect == Spec => []TypeOK
<1>1. ClientInv => TypeOK
  BY DEF ClientInv
<1> QED
  BY <1>1, ClientInvariant, PTL

\* A call is in the map exactly as long as its promise has not settled, and
\* none is left there once the exit of the child is known.
THEOREM ClientTable == Spec => []PendingIffUnsettled
<1>1. ClientInv => PendingIffUnsettled
  BY DEF ClientInv
<1> QED
  BY <1>1, ClientInvariant, PTL

\* shutdown() does not return from a live child it has not sent SIGKILL.
THEOREM ClientShutdown == Spec => []ClosedMeansGoneOrKilled
<1>1. ClientInv => ClosedMeansGoneOrKilled
  BY DEF ClientInv
<1> QED
  BY <1>1, ClientInvariant, PTL

-----------------------------------------------------------------------------
(* What a prompt returns                                                   *)

\* Counting one update more.
LEMMA CountNext ==
  ASSUME NEW s, NEW k \in Nat
  PROVE  /\ ToolsIn(s, k) \in Nat
         /\ ToolsIn(s, 0) = 0
         /\ s[k + 1].kind = "tool_call" => ToolsIn(s, k + 1) = ToolsIn(s, k) + 1
         /\ s[k + 1].kind # "tool_call" => ToolsIn(s, k + 1) = ToolsIn(s, k)
<1> DEFINE T(n) == {i \in 1..n : s[i].kind = "tool_call"}
<1>1. IsFiniteSet(T(k)) /\ Cardinality(T(k)) \in Nat
  <2>1. IsFiniteSet(1..k)
    BY FS_Interval
  <2>2. T(k) \subseteq 1..k
    OBVIOUS
  <2>3. IsFiniteSet(T(k))
    <3> HIDE DEF T
    <3> QED BY <2>1, <2>2, FS_Subset
  <2> HIDE DEF T
  <2> QED BY <2>3, FS_CardinalityType
<1>2. T(0) = {}
  OBVIOUS
<1>3. s[k + 1].kind = "tool_call" => T(k + 1) = T(k) \cup {k + 1} /\ k + 1 \notin T(k)
  OBVIOUS
<1>4. s[k + 1].kind # "tool_call" => T(k + 1) = T(k)
  OBVIOUS
<1>5. \A n : ToolsIn(s, n) = Cardinality(T(n))
  BY DEF ToolsIn
<1> HIDE DEF T
<1>6. s[k + 1].kind = "tool_call" => Cardinality(T(k + 1)) = Cardinality(T(k)) + 1
  BY <1>1, <1>3, FS_AddElement
<1> QED BY <1>1, <1>2, <1>4, <1>5, <1>6, FS_EmptySet

\* Counting looks at the updates it counts and at no others.
LEMMA CountSame ==
  ASSUME NEW s, NEW t, NEW k, \A i \in 1..k : s[i] = t[i]
  PROVE  ToolsIn(s, k) = ToolsIn(t, k)
<1>1. {i \in 1..k : s[i].kind = "tool_call"} = {i \in 1..k : t[i].kind = "tool_call"}
  OBVIOUS
<1> QED BY <1>1 DEF ToolsIn

\* Neither does collecting the text.
LEMMA ChunksSame ==
  ASSUME NEW q, NEW s, NEW t, NEW k, \A i \in 1..k : s[i] = t[i], ChunksOf(q, s, k)
  PROVE  ChunksOf(q, t, k)
<1>1. {j \in 1..k : s[j].kind = "chunk"} = {j \in 1..k : t[j].kind = "chunk"}
  OBVIOUS
<1>2. {s[i] : i \in {j \in 1..k : s[j].kind = "chunk"}} =
      {t[i] : i \in {j \in 1..k : t[j].kind = "chunk"}}
  BY <1>1
<1> QED BY <1>2 DEF ChunksOf

\* A queue that is read from.
LEMMA Read ==
  ASSUME NEW S, NEW q \in Seq(S), q # <<>>
  PROVE  /\ Tail(q) \in Seq(S) /\ Head(q) = q[1] /\ 1 \in DOMAIN q /\ Len(q) \in Nat
         /\ Len(Tail(q)) = Len(q) - 1
         /\ DOMAIN q = 1..Len(q) /\ DOMAIN Tail(q) = 1..(Len(q) - 1)
         /\ \A i \in DOMAIN Tail(q) : Tail(q)[i] = q[i + 1] /\ i + 1 \in DOMAIN q /\ i + 1 > 1
         /\ \A i, j \in DOMAIN Tail(q) : i + 1 \in Nat /\ j + 1 \in Nat
                                           /\ (j > i => j + 1 > i + 1)
                                           /\ (i # j => i + 1 # j + 1)
<1>1. Tail(q) \in Seq(S) /\ Len(q) \in Nat /\ Len(q) > 0
  BY EmptySeq, LenProperties
<1>2. Len(Tail(q)) = Len(q) - 1 /\ \A i \in 1..(Len(q) - 1) : Tail(q)[i] = q[i + 1]
  BY HeadTailProperties
<1> QED BY <1>1, <1>2, LenProperties

\* One that is written to.
LEMMA Written ==
  ASSUME NEW S, NEW q \in Seq(S), NEW e \in S
  PROVE  /\ Append(q, e) \in Seq(S) /\ Len(q) \in Nat
         /\ Len(Append(q, e)) = Len(q) + 1
         /\ DOMAIN q = 1..Len(q) /\ DOMAIN Append(q, e) = 1..(Len(q) + 1)
         /\ \A i \in 1..Len(q) : Append(q, e)[i] = q[i]
         /\ Append(q, e)[Len(q) + 1] = e
BY AppendProperties, LenProperties

-----------------------------------------------------------------------------
\* What is on the wire names calls, and calls are numbers.
LEMMA OnTheWire ==
  ASSUME ClientInv
  PROVE  /\ \A c \in Calls : c \in Nat /\ c > 0
         /\ nextId \in Nat /\ nextId > 0
         /\ Len(stdin) \in Nat /\ DOMAIN stdin = 1..Len(stdin)
         /\ Len(stdout) \in Nat /\ DOMAIN stdout = 1..Len(stdout)
         /\ \A i \in DOMAIN stdin : stdin[i] \in Calls
         /\ \A k \in DOMAIN stdout : stdout[k] \in Lines /\ stdout[k].call \in Calls
<1>1. \A c \in Calls : c \in Nat /\ c > 0
  BY ClientAssumption DEF Calls
<1>2. /\ stdin \in Seq(Calls) /\ stdout \in Seq(Lines)
      /\ nextId \in Nat /\ nextId > 0
  BY ClientAssumption DEF ClientInv, TypeOK
<1>3. \A e \in Lines : e.call \in Calls
  BY DEF Lines
<1> QED BY <1>1, <1>2, <1>3, LenProperties, ElementOfSeq

\* A line is written behind the others.
LEMMA LineWritten ==
  ASSUME ClientInv, NEW e \in Lines, stdout' = Append(stdout, e)
  PROVE  /\ \A k \in DOMAIN stdout : k \in DOMAIN stdout' /\ stdout'[k] = stdout[k]
         /\ \A k \in DOMAIN stdout' : k \in DOMAIN stdout \/ stdout'[k] = e
         /\ \A j, k \in DOMAIN stdout' :
              j > k => k \in DOMAIN stdout /\ (j \in DOMAIN stdout \/ stdout'[j] = e)
<1>1. stdout \in Seq(Lines)
  BY DEF ClientInv, TypeOK
<1>2. /\ Len(stdout) \in Nat
      /\ DOMAIN stdout = 1..Len(stdout) /\ DOMAIN stdout' = 1..(Len(stdout) + 1)
      /\ \A k \in 1..Len(stdout) : stdout'[k] = stdout[k]
      /\ stdout'[Len(stdout) + 1] = e
  BY <1>1, Written
<1>3. \A k \in DOMAIN stdout' : k \in DOMAIN stdout \/ k = Len(stdout) + 1
  BY <1>2
<1>4. \A j, k \in DOMAIN stdout' : j > k => k \in DOMAIN stdout
  BY <1>2
<1> QED BY <1>2, <1>3, <1>4

\* What is quiet stays quiet while calls are taken from the pipe.
LEMMA QuietKeepsAnswered ==
  ASSUME AnsweredInv, Quiet \subseteq Quiet', Unread' \subseteq Unread,
         \A c \in Calls : c < nextId => c < nextId',
         \A k \in DOMAIN stdout : stdout[k].call \in Calls,
         UNCHANGED <<stdout, settled>>
  PROVE  AnsweredInv'
BY DEF AnsweredInv

\* A line is written: one more update of a prompt that is not answered, or the
\* one answer of a call that is quiet from then on.
LEMMA LineKeepsAnswered ==
  ASSUME ClientInv, AnsweredInv, NEW e \in Lines, stdout' = Append(stdout, e),
         UNCHANGED <<nextId, settled>>, Quiet \subseteq Quiet', Unread' \subseteq Unread,
         e.call \notin Quiet, e.call \notin Unread', e.call < nextId,
         e.kind \in Responses =>
           e.call \in Quiet' /\ \A k \in DOMAIN stdout : stdout[k].kind \in Responses =>
                                                          stdout[k].call # e.call
  PROVE  AnsweredInv'
<1>1. /\ \A k \in DOMAIN stdout : k \in DOMAIN stdout' /\ stdout'[k] = stdout[k]
      /\ \A k \in DOMAIN stdout' : k \in DOMAIN stdout \/ stdout'[k] = e
      /\ \A j, k \in DOMAIN stdout' :
           j > k => k \in DOMAIN stdout /\ (j \in DOMAIN stdout \/ stdout'[j] = e)
  BY LineWritten
<1>2. ASSUME NEW k \in DOMAIN stdout'
      PROVE  /\ stdout'[k].call < nextId'
             /\ stdout'[k].call \notin Unread'
             /\ stdout'[k].kind \in Responses =>
                  /\ stdout'[k].call \in Quiet'
                  /\ \A j \in DOMAIN stdout' : j > k => stdout'[j].call # stdout'[k].call
  <2>1. CASE k \in DOMAIN stdout
    <3>1. stdout'[k] = stdout[k]
      BY <1>1, <2>1
    <3>2. stdout[k].kind \in Responses => stdout[k].call # e.call
      BY <2>1 DEF AnsweredInv
    <3>3. stdout[k].kind \in Responses =>
            \A j \in DOMAIN stdout' : j > k => stdout'[j].call # stdout[k].call
      BY <1>1, <2>1, <3>2 DEF AnsweredInv
    <3> QED BY <2>1, <3>1, <3>3 DEF AnsweredInv
  <2>2. CASE k \notin DOMAIN stdout
    BY <1>1, <2>2
  <2> QED BY <2>1, <2>2
<1>3. \A c \in Calls : settled'[c] = "result" =>
        c \in Quiet' /\ \A k \in DOMAIN stdout' : stdout'[k].call # c
  BY <1>1 DEF AnsweredInv
<1> QED BY <1>2, <1>3 DEF AnsweredInv

\* A call that is made is new to everything on the wire.
LEMMA CallKeepsWire ==
  ASSUME ClientInv, WireInv, NEW awaiting, Call(awaiting), nextId \in Calls,
         UNCHANGED <<working, stdout, sent>>
  PROVE  WireInv'
<1>1. /\ stdin \in Seq(Calls) /\ Len(stdin) \in Nat /\ DOMAIN stdin = 1..Len(stdin)
      /\ \A c \in Calls : c \in Nat
      /\ nextId \in Nat /\ ~(nextId < nextId) /\ nextId >= nextId
  <2>1. stdin \in Seq(Calls)
    BY DEF ClientInv, TypeOK
  <2> QED BY <2>1, OnTheWire
<1>2. /\ nextId' \in {nextId, nextId + 1} /\ settled' = settled
      /\ \A c \in Nat : c < nextId => c < nextId'
  BY <1>1 DEF Call, table
<1>3. \A c \in Quiet : c # nextId \/ c \notin Unread
  BY DEF Quiet
<1>4. CASE stdin' = stdin
  <2>1. Unread' = Unread /\ Quiet' = Quiet
    BY <1>4 DEF Unread, Quiet, ToolOpen
  <2>2. Unread \subseteq Calls
    BY OnTheWire DEF Unread
  <2>3. AskedInv'
    BY <1>1, <1>2, <1>4, <2>1, <2>2 DEF WireInv, AskedInv
  <2>4. AnsweredInv'
    BY <1>1, <1>2, <2>1, OnTheWire, QuietKeepsAnswered DEF WireInv
  <2> QED BY <2>3, <2>4 DEF WireInv
<1>5. CASE stdin' = Append(stdin, nextId) /\ nextId' = nextId + 1
  <2>1. /\ DOMAIN stdin' = 1..(Len(stdin) + 1)
        /\ \A i \in 1..Len(stdin) : stdin'[i] = stdin[i]
        /\ stdin'[Len(stdin) + 1] = nextId
    BY <1>1, <1>5, Written
  <2>2. Unread' = Unread \cup {nextId}
    <3>1. DOMAIN stdin' = DOMAIN stdin \cup {Len(stdin) + 1}
      BY <1>1, <2>1
    <3> QED BY <1>1, <2>1, <3>1 DEF Unread
  <2>3. Unread \subseteq Calls /\ nextId \notin Unread
    BY <1>1, OnTheWire DEF WireInv, AskedInv, Unread
  <2>4. \A i, j \in DOMAIN stdin' : i # j => stdin'[i] # stdin'[j]
    <3> SUFFICES ASSUME NEW i \in DOMAIN stdin', NEW j \in DOMAIN stdin', i # j
                 PROVE  stdin'[i] # stdin'[j]
      OBVIOUS
    <3>1. i \in DOMAIN stdin \/ j \in DOMAIN stdin
      BY <1>1, <2>1
    <3>2. \A n \in DOMAIN stdin : stdin[n] # nextId
      BY <2>3 DEF Unread
    <3>3. \A n \in DOMAIN stdin' : n \in DOMAIN stdin \/ n = Len(stdin) + 1
      BY <1>1, <2>1
    <3> QED BY <1>1, <2>1, <3>1, <3>2, <3>3 DEF WireInv, AskedInv
  <2>5. \A c \in Calls : c \in working' \/ sent'[c] # <<>> => 2 < c /\ c < nextId' /\ c \notin Unread'
    <3>1. \A c \in Calls : c \in working \/ sent[c] # <<>> => 2 < c /\ c < nextId /\ c \notin Unread
      BY DEF WireInv, AskedInv
    <3>2. \A c \in Calls : c < nextId => c < nextId' /\ c # nextId
      BY <1>1, <1>2
    <3> QED BY <2>2, <3>1, <3>2
  <2>6. \A c \in Unread' : c < nextId'
    <3>1. nextId < nextId + 1
      BY <1>1
    <3> QED BY <1>1, <1>2, <1>5, <2>2, <2>3, <3>1 DEF WireInv, AskedInv
  <2>7. ASSUME NEW k \in DOMAIN stdout PROVE stdout[k].call # nextId
    BY <1>1 DEF WireInv, AnsweredInv
  <2>8. \A c \in Calls : settled[c] = "result" => c # nextId
    BY <1>1 DEF ClientInv
  <2>9. \A c \in Quiet \ {nextId} : c \in Quiet'
    BY <2>2 DEF Quiet, ToolOpen
  <2>10. AnsweredInv'
    <3>1. \A k \in DOMAIN stdout : stdout[k].call < nextId' /\ stdout[k].call \notin Unread'
      BY <1>2, <2>2, <2>7, OnTheWire DEF WireInv, AnsweredInv
    <3>2. \A k \in DOMAIN stdout : stdout[k].kind \in Responses =>
            /\ stdout[k].call \in Quiet'
            /\ \A j \in DOMAIN stdout : j > k => stdout[j].call # stdout[k].call
      BY <2>7, <2>9 DEF WireInv, AnsweredInv
    <3>3. \A c \in Calls : settled[c] = "result" =>
            c \in Quiet' /\ \A k \in DOMAIN stdout : stdout[k].call # c
      BY <2>8, <2>9 DEF WireInv, AnsweredInv
    <3> QED BY <1>2, <3>1, <3>2, <3>3 DEF AnsweredInv
  <2> QED BY <2>4, <2>5, <2>6, <2>10 DEF WireInv, AskedInv
<1> QED BY <1>4, <1>5 DEF Call, table

\* Nothing moves on the wire, and no call is answered.
LEMMA SilentKeepsWire ==
  ASSUME WireInv, UNCHANGED <<nextId, stdin, working, stdout, sent>>,
         \A c \in Calls : settled'[c] = "result" => settled[c] = "result"
  PROVE  WireInv'
<1>1. Unread' = Unread /\ Quiet' = Quiet
  BY DEF Unread, Quiet, ToolOpen
<1> QED BY <1>1 DEF WireInv, AskedInv, AnsweredInv

\* A line that is read is gone; if it was an answer nothing of its call is left.
LEMMA ReadLineKeepsWire ==
  ASSUME ClientInv, WireInv, ReadLine
  PROVE  WireInv'
<1>1. /\ stdout \in Seq(Lines) /\ stdout # <<>> /\ stdout' = Tail(stdout)
      /\ HandleReply(Head(stdout)) \/ HandleUpdate(Head(stdout))
      /\ UNCHANGED <<nextId, stdin, working, sent>>
      /\ settled \in [Calls -> Outcomes]
  BY DEF ReadLine, HandleReply, HandleUpdate, table, ClientInv, TypeOK
<1>2. /\ Head(stdout) = stdout[1] /\ 1 \in DOMAIN stdout
      /\ \A i \in DOMAIN stdout' : stdout'[i] = stdout[i + 1] /\ i + 1 \in DOMAIN stdout /\ i + 1 > 1
      /\ \A i, j \in DOMAIN stdout' : j > i => j + 1 > i + 1
  BY <1>1, Read
<1>3. ASSUME NEW c \in Calls, settled'[c] = "result"
      PROVE  \/ settled[c] = "result"
             \/ stdout[1].call = c /\ stdout[1].kind \in Responses
  BY <1>1, <1>2, <1>3 DEF HandleReply, HandleUpdate, table
<1>4. Unread' = Unread /\ Quiet' = Quiet
  BY <1>1 DEF Unread, Quiet, ToolOpen
<1>5. \A k \in DOMAIN stdout' :
        /\ stdout'[k].call < nextId'
        /\ stdout'[k].call \notin Unread'
        /\ stdout'[k].kind \in Responses =>
             /\ stdout'[k].call \in Quiet'
             /\ \A j \in DOMAIN stdout' : j > k => stdout'[j].call # stdout'[k].call
  BY <1>1, <1>2, <1>4 DEF WireInv, AnsweredInv
<1>6. \A c \in Calls : settled'[c] = "result" =>
        c \in Quiet /\ \A k \in DOMAIN stdout' : stdout'[k].call # c
  <2> SUFFICES ASSUME NEW c \in Calls, settled'[c] = "result"
               PROVE  c \in Quiet /\ \A k \in DOMAIN stdout' : stdout'[k].call # c
    OBVIOUS
  <2>1. CASE settled[c] = "result"
    BY <1>2, <2>1 DEF WireInv, AnsweredInv
  <2>2. CASE stdout[1].call = c /\ stdout[1].kind \in Responses
    BY <1>2, <2>2 DEF WireInv, AnsweredInv
  <2> QED BY <1>3, <2>1, <2>2
<1>7. AskedInv'
  BY <1>1, <1>4 DEF WireInv, AskedInv
<1> QED BY <1>4, <1>5, <1>6, <1>7 DEF WireInv, AnsweredInv

\* A request is taken from the pipe: it is worked on, or answered at once.
LEMMA ChildReadsKeepsWire ==
  ASSUME ClientInv, WireInv, ChildReads
  PROVE  WireInv'
<1> DEFINE c == Head(stdin)
<1>1. /\ stdin \in Seq(Calls) /\ stdin # <<>> /\ stdin' = Tail(stdin)
      /\ UNCHANGED <<nextId, settled, sent>>
  BY DEF ChildReads, ClientInv, TypeOK, table
<1>2. \/ c > 2 /\ working' = working \cup {c} /\ stdout' = stdout
      \/ /\ c <= 2 /\ working' = working
         /\ \E how \in Responses : stdout' = Append(stdout, Reply(c, how))
  BY DEF ChildReads
<1>3. /\ c = stdin[1] /\ 1 \in DOMAIN stdin
      /\ \A i \in DOMAIN stdin' : stdin'[i] = stdin[i + 1] /\ i + 1 \in DOMAIN stdin /\ i + 1 # 1
      /\ \A i, j \in DOMAIN stdin' : i # j => i + 1 # j + 1
  BY <1>1, Read
<1> HIDE DEF c
<1>4. /\ \A i, j \in DOMAIN stdin' : i # j => stdin'[i] # stdin'[j]
      /\ \A i \in DOMAIN stdin' : stdin'[i] # c
  BY <1>3 DEF WireInv, AskedInv
<1>5. c \in Unread /\ Unread' \subseteq Unread \ {c}
  BY <1>3, <1>4 DEF Unread
<1>6. c \in Calls /\ c \in Nat /\ c < nextId /\ c \notin working /\ sent[c] = <<>> /\ c \notin Quiet
  BY <1>3, <1>5, OnTheWire DEF WireInv, AskedInv, Quiet
<1>7. Quiet \subseteq Quiet'
  BY <1>1, <1>2, <1>5, <1>6 DEF Quiet, ToolOpen
<1>8. ASSUME NEW d \in Calls, d \in working' \/ sent'[d] # <<>>
      PROVE  2 < d /\ d < nextId' /\ d \notin Unread'
  BY <1>1, <1>2, <1>5, <1>6, <1>8 DEF WireInv, AskedInv
<1>9. AskedInv'
  BY <1>1, <1>4, <1>5, <1>8 DEF WireInv, AskedInv
<1>10. CASE working' = working \cup {c} /\ stdout' = stdout
  <2>1. AnsweredInv /\ Unread' \subseteq Unread
    BY <1>5 DEF WireInv
  <2>2. AnsweredInv'
    BY <1>1, <1>7, <1>10, <2>1, OnTheWire, QuietKeepsAnswered
  <2> QED BY <1>9, <2>2 DEF WireInv
<1>11. ASSUME c <= 2, working' = working,
              NEW how \in Responses, stdout' = Append(stdout, Reply(c, how))
       PROVE  WireInv'
  <2>1. Reply(c, how) \in Lines /\ Reply(c, how).call = c
    BY <1>6 DEF Reply, Lines
  <2>2. c \in Quiet'
    BY <1>1, <1>5, <1>6, <1>11 DEF Quiet, ToolOpen
  <2>3. \A k \in DOMAIN stdout : stdout[k].call # c
    BY <1>5 DEF WireInv, AnsweredInv
  <2>4. AnsweredInv'
    BY <1>1, <1>5, <1>6, <1>7, <1>11, <2>1, <2>2, <2>3, LineKeepsAnswered DEF WireInv
  <2> QED BY <1>9, <2>4 DEF WireInv
<1> QED BY <1>2, <1>10, <1>11

\* A line about prompt c, which the child works on: it is an update, or the
\* answer and the child is done with the prompt.
LEMMA WorkKeepsWire ==
  ASSUME ClientInv, WireInv, NEW c \in working, NEW e \in Lines, e.call = c,
         stdout' = Append(stdout, e), UNCHANGED <<nextId, settled, stdin>>,
         \A d \in Calls \ {c} : sent'[d] = sent[d] /\ (d \in working' => d \in working),
         working' \subseteq working,
         e.kind \in Responses => c \notin working' /\ sent' = sent /\ ~ToolOpen(c)
  PROVE  WireInv'
<1>1. c \in Calls /\ 2 < c /\ c < nextId /\ c \notin Unread /\ c \notin Quiet
  BY DEF ClientInv, TypeOK, WireInv, AskedInv, Quiet
<1>2. Unread' = Unread
  BY DEF Unread
<1>3. Quiet \subseteq Quiet'
  BY <1>2 DEF Quiet, ToolOpen
<1>4. e.kind \in Responses => c \in Quiet'
  BY <1>1, <1>2 DEF Quiet, ToolOpen
<1>5. \A k \in DOMAIN stdout : stdout[k].kind \in Responses => stdout[k].call # c
  BY <1>1 DEF WireInv, AnsweredInv
<1>6. AnsweredInv'
  BY <1>1, <1>2, <1>3, <1>4, <1>5, LineKeepsAnswered DEF WireInv
<1>7. AskedInv'
  BY <1>1, <1>2 DEF WireInv, AskedInv
<1> QED BY <1>6, <1>7 DEF WireInv

\* A promise that was resolved stays resolved, and only a line resolves one.
LEMMA ResultStays ==
  ASSUME ClientInv, [Next]_vars, NEW c \in Calls
  PROVE  /\ settled[c] = "result" => settled'[c] = "result"
         /\ settled'[c] = "result" => settled[c] = "result" \/ ReadLine
<1>1. c \in pending => settled[c] = "none"
  BY DEF ClientInv, PendingIffUnsettled
<1>2. settled \in [Calls -> Outcomes]
  BY DEF ClientInv, TypeOK
<1>3. CASE UNCHANGED settled
  BY <1>3
<1>4. CASE ReadLine
  BY <1>1, <1>2, <1>4 DEF ReadLine, HandleReply, HandleUpdate, table
<1>5. CASE ExitEvent
  BY <1>1, <1>5 DEF ExitEvent
<1>6. ASSUME NEW d \in Calls, Timeout(d) PROVE settled'[c] \in {settled[c], "timeout"} /\ (settled[c] = "result" => settled'[c] = "result")
  BY <1>1, <1>2, <1>6 DEF Timeout
<1>7. CASE Initialize \/ NewSession \/ Prompt
  BY <1>3, <1>7 DEF Initialize, NewSession, Prompt, Call, table
<1>8. CASE Resume \/ Fail \/ Shutdown \/ WaitEnds \/ WaitTimesOut
  BY <1>3, <1>8 DEF Resume, Fail, Shutdown, WaitEnds, WaitTimesOut, table
<1>9. CASE Child
  BY <1>3, <1>9 DEF Child, ChildReads, ChildDies, ChildUpdates, ChildAnswers, table
<1>10. CASE UNCHANGED vars
  BY <1>3, <1>10 DEF vars, table
<1> QED
  BY <1>1, <1>4, <1>5, <1>6, <1>7, <1>8, <1>9, <1>10 DEF Next, Client

\* What the child writes about a prompt it works on.
LEMMA UpdateWritten ==
  ASSUME ClientInv, NEW c \in Calls, ChildUpdates(c)
  PROVE  \E u \in Lines :
           /\ u.call = c /\ u.kind \in Updates /\ u.kind \notin Responses
           /\ sent' = [sent EXCEPT ![c] = Append(sent[c], u)]
           /\ stdout' = Append(stdout, u)
           /\ ToolOpen(c) => u.kind = "tool_call_update" /\ u.n = ToolCount(c)
           /\ ~ToolOpen(c) => \/ u.kind = "chunk" /\ u.n = Len(sent[c]) + 1
                              \/ u.kind = "tool_call" /\ u.n = ToolCount(c) + 1
<1>1. sent[c] \in Seq(Lines) /\ Len(sent[c]) \in Nat
  BY DEF ClientInv, TypeOK
<1>2. ToolCount(c) \in Nat
  BY <1>1, CountNext DEF ToolCount
<1>3. /\ Update("tool_call_update", c, ToolCount(c)) \in Lines
      /\ Update("chunk", c, Len(sent[c]) + 1) \in Lines
      /\ Update("tool_call", c, ToolCount(c) + 1) \in Lines
  BY <1>1, <1>2 DEF Update, Updates, Lines
<1>4. PICK u \in IF ToolOpen(c) THEN {Update("tool_call_update", c, ToolCount(c))}
                 ELSE {Update("chunk", c, Len(sent[c]) + 1),
                       Update("tool_call", c, ToolCount(c) + 1)} :
        /\ sent' = [sent EXCEPT ![c] = Append(sent[c], u)]
        /\ stdout' = Append(stdout, u)
  BY DEF ChildUpdates
<1>5. u \in Lines
  BY <1>3, <1>4
<1>6. u.kind \in Updates /\ u.kind \notin Responses /\ u.call = c
  BY <1>4 DEF Update, Updates, Responses
<1>7. /\ ToolOpen(c) => u.kind = "tool_call_update" /\ u.n = ToolCount(c)
      /\ ~ToolOpen(c) => \/ u.kind = "chunk" /\ u.n = Len(sent[c]) + 1
                         \/ u.kind = "tool_call" /\ u.n = ToolCount(c) + 1
  BY <1>4 DEF Update
<1> QED BY <1>4, <1>5, <1>6, <1>7

\* Every step keeps the wire in order.
LEMMA NextKeepsWire == ClientInv /\ WireInv /\ [Next]_vars => WireInv'
<1> SUFFICES ASSUME ClientInv, WireInv, [Next]_vars PROVE WireInv'
  OBVIOUS
<1>1. CASE Initialize \/ NewSession \/ Prompt
  <2>1. /\ \E awaiting \in {"initialize", "session/new", "session/prompt"} : Call(awaiting)
        /\ nextId \in Calls
        /\ UNCHANGED <<working, stdout, sent>>
    BY <1>1, ClientAssumption DEF Initialize, NewSession, Prompt, ClientInv, Calls
  <2> QED BY <2>1, CallKeepsWire
<1>2. CASE ReadLine
  BY <1>2, ReadLineKeepsWire
<1>3. CASE ChildReads
  BY <1>3, ChildReadsKeepsWire
<1>4. ASSUME NEW c \in Calls, ChildUpdates(c) PROVE WireInv'
  <2>1. c \in working /\ UNCHANGED <<nextId, settled, stdin, working>> /\ sent \in [Calls -> Seq(Lines)]
    BY <1>4 DEF ChildUpdates, table, ClientInv, TypeOK
  <2>2. PICK u \in Lines : /\ u.call = c /\ u.kind \notin Responses
                           /\ sent' = [sent EXCEPT ![c] = Append(sent[c], u)]
                           /\ stdout' = Append(stdout, u)
    BY <1>4, UpdateWritten
  <2>3. \A d \in Calls \ {c} : sent'[d] = sent[d] /\ (d \in working' => d \in working)
    BY <2>1, <2>2
  <2> QED BY <2>1, <2>2, <2>3, WorkKeepsWire
<1>5. ASSUME NEW c \in Calls, ChildAnswers(c) PROVE WireInv'
  <2>1. /\ c \in working /\ UNCHANGED <<nextId, settled, stdin, sent>> /\ ~ToolOpen(c)
        /\ working' = working \ {c}
    BY <1>5 DEF ChildAnswers, table
  <2>2. PICK how \in Responses : stdout' = Append(stdout, Reply(c, how))
    BY <1>5 DEF ChildAnswers
  <2>3. Reply(c, how) \in Lines /\ Reply(c, how).call = c
    BY DEF Reply, Lines
  <2> QED BY <2>1, <2>2, <2>3, WorkKeepsWire
<1>6. CASE /\ UNCHANGED <<nextId, stdin, working, stdout, sent>>
           /\ ~ReadLine
  <2>1. \A c \in Calls : settled'[c] = "result" => settled[c] = "result"
    BY <1>6, ResultStays
  <2> QED BY <1>6, <2>1, SilentKeepsWire
<1>7. CASE Resume \/ Fail \/ Shutdown \/ WaitEnds \/ WaitTimesOut \/ ExitEvent \/ ChildDies
  BY <1>2, <1>6, <1>7
     DEF Resume, Fail, Shutdown, WaitEnds, WaitTimesOut, ExitEvent, ChildDies, table, server
<1>8. ASSUME NEW c \in Calls, Timeout(c) PROVE WireInv'
  BY <1>2, <1>6, <1>8 DEF Timeout, server
<1>9. CASE UNCHANGED vars
  BY <1>2, <1>6, <1>9 DEF vars, table, server
<1> QED
  BY <1>1, <1>2, <1>3, <1>4, <1>5, <1>7, <1>8, <1>9 DEF Next, Client, Child

\* The updates of a prompt, one more at the end.
LEMMA NextKeepsSent == ClientInv /\ SentInv /\ [Next]_vars => SentInv'
<1> SUFFICES ASSUME ClientInv, SentInv, [Next]_vars PROVE SentInv'
  OBVIOUS
<1>1. CASE UNCHANGED sent
  BY <1>1 DEF SentInv
<1>2. ASSUME NEW c \in Calls, ChildUpdates(c) PROVE SentInv'
  <2>1. /\ sent \in [Calls -> Seq(Lines)] /\ sent[c] \in Seq(Lines) /\ Len(sent[c]) \in Nat
        /\ DOMAIN sent[c] = 1..Len(sent[c])
    BY LenProperties DEF ClientInv, TypeOK
  <2> DEFINE L == Len(sent[c])
  <2>2. PICK u \in Lines :
           /\ u.call = c /\ u.kind \in Updates
           /\ sent' = [sent EXCEPT ![c] = Append(sent[c], u)]
           /\ ToolOpen(c) => u.kind = "tool_call_update" /\ u.n = ToolCount(c)
           /\ ~ToolOpen(c) => \/ u.kind = "chunk" /\ u.n = Len(sent[c]) + 1
                              \/ u.kind = "tool_call" /\ u.n = ToolCount(c) + 1
    BY <1>2, UpdateWritten
  <2>3. /\ \A d \in Calls \ {c} : sent'[d] = sent[d]
        /\ sent'[c] = Append(sent[c], u)
    BY <2>1, <2>2
  <2>4. /\ DOMAIN sent'[c] = 1..(L + 1)
        /\ \A i \in 1..L : sent'[c][i] = sent[c][i]
        /\ sent'[c][L + 1] = u
    BY <2>1, <2>3, Written
  <2>5. \A k \in 0..L : ToolsIn(sent'[c], k) = ToolsIn(sent[c], k)
    <3> SUFFICES ASSUME NEW k \in 0..L PROVE ToolsIn(sent'[c], k) = ToolsIn(sent[c], k)
      OBVIOUS
    <3>1. \A i \in 1..k : sent'[c][i] = sent[c][i]
      BY <2>1, <2>4
    <3> QED BY <3>1, CountSame
  <2>6. ASSUME NEW i \in 1..L
        PROVE  /\ sent'[c][i].call = c
               /\ sent'[c][i].kind \in Updates
               /\ sent'[c][i].kind = "chunk" => sent'[c][i].n = i
               /\ sent'[c][i].kind # "chunk" => sent'[c][i].n = ToolsIn(sent'[c], i)
               /\ sent'[c][i].kind = "tool_call_update" <=>
                    i > 1 /\ sent'[c][i - 1].kind = "tool_call"
    <3>1. sent'[c][i] = sent[c][i] /\ ToolsIn(sent'[c], i) = ToolsIn(sent[c], i)
      BY <2>1, <2>4, <2>5
    <3>2. i > 1 => sent'[c][i - 1] = sent[c][i - 1]
      BY <2>1, <2>4
    <3> QED BY <2>1, <3>1, <3>2 DEF SentInv
  <2>7. /\ ToolsIn(sent'[c], L + 1) = IF u.kind = "tool_call" THEN ToolCount(c) + 1 ELSE ToolCount(c)
    BY <2>1, <2>4, <2>5, CountNext DEF ToolCount
  <2>8. ToolOpen(c) <=> L + 1 > 1 /\ sent'[c][(L + 1) - 1].kind = "tool_call"
    <3>1. sent[c] # <<>> <=> L > 0
      BY <2>1, EmptySeq
    <3>2. L > 0 => sent'[c][(L + 1) - 1] = sent[c][L]
      BY <2>1, <2>4
    <3> QED BY <2>1, <3>1, <3>2 DEF ToolOpen
  <2>9. /\ u.kind = "chunk" => u.n = L + 1
        /\ u.kind # "chunk" => u.n = ToolsIn(sent'[c], L + 1)
        /\ u.kind = "tool_call_update" <=> ToolOpen(c)
    BY <2>2, <2>7
  <2>10. \A i \in DOMAIN sent'[c] : i \in 1..L \/ i = L + 1
    BY <2>1, <2>4
  <2> HIDE DEF L
  <2>11. \A i \in DOMAIN sent'[c] :
           /\ sent'[c][i].call = c
           /\ sent'[c][i].kind \in Updates
           /\ sent'[c][i].kind = "chunk" => sent'[c][i].n = i
           /\ sent'[c][i].kind # "chunk" => sent'[c][i].n = ToolsIn(sent'[c], i)
           /\ sent'[c][i].kind = "tool_call_update" <=>
                i > 1 /\ sent'[c][i - 1].kind = "tool_call"
    BY <2>2, <2>4, <2>6, <2>8, <2>9, <2>10
  <2>12. ASSUME NEW d \in Calls
         PROVE  \A i \in DOMAIN sent'[d] :
                  /\ sent'[d][i].call = d
                  /\ sent'[d][i].kind \in Updates
                  /\ sent'[d][i].kind = "chunk" => sent'[d][i].n = i
                  /\ sent'[d][i].kind # "chunk" => sent'[d][i].n = ToolsIn(sent'[d], i)
                  /\ sent'[d][i].kind = "tool_call_update" <=>
                       i > 1 /\ sent'[d][i - 1].kind = "tool_call"
    <3>1. CASE d = c
      BY <2>11, <3>1
    <3>2. CASE d # c
      <4>1. sent'[d] = sent[d]
        BY <2>3, <3>2
      <4> QED BY <4>1 DEF SentInv
    <3> QED BY <3>1, <3>2
  <2> QED BY <2>12 DEF SentInv
<1>3. CASE Initialize \/ NewSession \/ Prompt
  BY <1>1, <1>3 DEF Initialize, NewSession, Prompt
<1>4. CASE Resume \/ Fail \/ Shutdown \/ WaitEnds \/ WaitTimesOut \/ ExitEvent \/ ReadLine
  BY <1>1, <1>4 DEF Resume, Fail, Shutdown, WaitEnds, WaitTimesOut, ExitEvent, ReadLine, server
<1>5. ASSUME NEW c \in Calls, Timeout(c) \/ ChildAnswers(c) PROVE SentInv'
  BY <1>1, <1>5 DEF Timeout, ChildAnswers, server
<1>6. CASE ChildReads \/ ChildDies \/ UNCHANGED vars
  BY <1>1, <1>6 DEF ChildReads, ChildDies, vars, server
<1> QED
  BY <1>2, <1>3, <1>4, <1>5, <1>6 DEF Next, Client, Child

\* The caller gets past a call when it was answered.
LEMMA NextKeepsCaller ==
  ASSUME ~Retries PROVE ClientInv /\ CallerInv /\ [Next]_vars => CallerInv'
<1> SUFFICES ASSUME ClientInv, CallerInv, [Next]_vars PROVE CallerInv'
  OBVIOUS
<1>1. \A c \in Calls : c \in Nat /\ (settled[c] = "result" => settled'[c] = "result")
  BY OnTheWire, ResultStays
<1>2. nextId \in Nat /\ sessionId \in BOOLEAN
  BY OnTheWire DEF ClientInv, TypeOK
<1>3. CASE UNCHANGED <<caller, nextId, sessionId>>
  BY <1>1, <1>2, <1>3 DEF CallerInv, Awaited
<1>4. CASE caller' \in {"failed", "closing", "closed"}
  BY <1>4 DEF CallerInv
<1>5. CASE Initialize \/ NewSession \/ Prompt
  <2>1. CASE exitCode
    BY <1>4, <1>5, <2>1 DEF Initialize, NewSession, Prompt, Call
  <2>2. CASE ~exitCode
    <3>1. nextId' = nextId + 1
      BY <1>5, <2>2 DEF Initialize, NewSession, Prompt, Call
    <3>2. CASE Initialize
      <4>1. caller' = "initialize" /\ nextId = 1
        BY <2>2, <3>2 DEF Initialize, Call, ClientInv
      <4>2. \A c \in Calls : ~(c < Awaited')
        BY <1>1, <3>1, <4>1, OnTheWire DEF Awaited
      <4> QED BY <4>1, <4>2 DEF CallerInv
    <3>3. CASE NewSession
      <4>1. caller' = "session/new" /\ nextId = 2 /\ caller = "initialized"
        BY <2>2, <3>3 DEF NewSession, Call, ClientInv
      <4>2. \A c \in Calls : c < Awaited' => settled'[c] = "result"
        BY <1>1, <3>1, <4>1 DEF Awaited, CallerInv
      <4> QED BY <3>1, <4>1, <4>2 DEF CallerInv
    <3>4. CASE Prompt
      <4>1. caller' = "session/prompt" /\ caller = "open" /\ sessionId' = sessionId
        BY <2>2, <3>4 DEF Prompt, Call
      <4>2. \A c \in Calls : c < Awaited' => settled'[c] = "result"
        BY <1>1, <1>2, <3>1, <4>1 DEF Awaited, CallerInv
      <4>3. nextId' > 3 /\ sessionId'
        BY <1>2, <3>1, <4>1 DEF CallerInv
      <4> QED BY <4>1, <4>2, <4>3 DEF CallerInv
    <3> QED BY <1>5, <3>2, <3>3, <3>4
  <2> QED BY <2>1, <2>2
<1>6. CASE Resume
  <2>1. /\ nextId' = nextId /\ settled[Awaited] = "result"
        /\ caller \in {"initialize", "session/new", "session/prompt"}
        /\ caller' = IF caller = "initialize" THEN "initialized" ELSE "open"
        /\ sessionId' = IF caller = "session/new" THEN TRUE ELSE sessionId
    BY <1>6 DEF Resume, table, buffers
  <2>2. \A c \in Calls : c <= Awaited' => settled'[c] = "result"
    <3>1. \A c \in Calls : c <= Awaited => c < Awaited \/ c = Awaited
      BY <1>1, <1>2 DEF Awaited
    <3> QED BY <1>1, <2>1, <3>1 DEF CallerInv, Awaited
  <2>3. caller' = "open" => nextId' > 2 /\ sessionId'
    BY <1>2, <2>1 DEF CallerInv
  <2> QED BY <2>1, <2>2, <2>3 DEF CallerInv
<1>7. CASE Fail
  BY <1>4, <1>7 DEF Fail
<1>8. CASE Shutdown \/ WaitEnds
  BY <1>4, <1>8 DEF Shutdown, WaitEnds
<1>9. CASE WaitTimesOut
  <2>1. caller = "closing" /\ (caller' = caller \/ caller' = "closed")
    BY <1>9 DEF WaitTimesOut
  <2> QED BY <1>4, <2>1
<1>10. CASE ReadLine
  BY <1>3, <1>10 DEF ReadLine, HandleReply, HandleUpdate, table, buffers
<1>11. CASE ExitEvent \/ Child \/ UNCHANGED vars
  BY <1>3, <1>11 DEF ExitEvent, Child, ChildReads, ChildDies, ChildUpdates, ChildAnswers, vars, table, buffers
<1>12. ASSUME NEW c \in Calls, Timeout(c) PROVE CallerInv'
  BY <1>3, <1>12 DEF Timeout, buffers
<1> QED
  BY <1>5, <1>6, <1>7, <1>8, <1>9, <1>10, <1>11, <1>12 DEF Next, Client

\* Nothing is emitted for a prompt that was answered.
LEMMA FrozenSent ==
  ASSUME ClientInv, WireInv, [Next]_vars, NEW c \in Calls, settled[c] = "result"
  PROVE  sent'[c] = sent[c]
<1>1. c \notin working /\ sent \in [Calls -> Seq(Lines)]
  BY DEF WireInv, AnsweredInv, Quiet, ClientInv, TypeOK
<1>2. ASSUME NEW d \in Calls, ChildUpdates(d) PROVE sent'[c] = sent[c]
  <2>1. d # c
    BY <1>1, <1>2 DEF ChildUpdates
  <2>2. \E u \in Lines : sent' = [sent EXCEPT ![d] = Append(sent[d], u)]
    BY <1>2, UpdateWritten
  <2> QED BY <1>1, <2>1, <2>2
<1>3. CASE UNCHANGED sent
  BY <1>3
<1>4. CASE Initialize \/ NewSession \/ Prompt
  BY <1>4 DEF Initialize, NewSession, Prompt
<1>5. CASE Resume \/ Fail \/ Shutdown \/ WaitEnds \/ WaitTimesOut \/ ExitEvent \/ ReadLine
  BY <1>5 DEF Resume, Fail, Shutdown, WaitEnds, WaitTimesOut, ExitEvent, ReadLine, server
<1>6. ASSUME NEW d \in Calls, Timeout(d) \/ ChildAnswers(d) PROVE sent'[c] = sent[c]
  BY <1>6 DEF Timeout, ChildAnswers, server
<1>7. CASE ChildReads \/ ChildDies \/ UNCHANGED vars
  BY <1>7 DEF ChildReads, ChildDies, vars, server
<1> QED
  BY <1>2, <1>4, <1>5, <1>6, <1>7 DEF Next, Client, Child

\* Every line of an answered prompt was read: the buffers hold all it emitted.
LEMMA AllRead ==
  ASSUME ClientInv, WireInv, SentInv, NEW c \in Calls, settled[c] = "result",
         toolCalls \in Seq(Entries), NEW k \in 0..Len(sent[c]), ReadSoFar(c, k)
  PROVE  /\ k = Len(sent[c])
         /\ ChunksOf(text, sent[c], Len(sent[c]))
         /\ Len(toolCalls) = ToolCount(c)
         /\ \A i \in 1..Len(toolCalls) : toolCalls[i] = [id |-> i, call |-> c, status |-> "completed"]
<1>1. /\ sent[c] \in Seq(Lines) /\ Len(sent[c]) \in Nat /\ DOMAIN sent[c] = 1..Len(sent[c])
      /\ Len(stdout) \in Nat /\ DOMAIN stdout = 1..Len(stdout)
  BY OnTheWire, LenProperties DEF ClientInv, TypeOK
<1>2. c \in Quiet /\ \A i \in DOMAIN stdout : stdout[i].call # c
  BY DEF WireInv, AnsweredInv
<1>3. Len(stdout) = 0
  <2> SUFFICES ASSUME Len(stdout) # 0 PROVE FALSE
    OBVIOUS
  <2>1. 1 \in DOMAIN stdout
    BY <1>1
  <2>2. CASE 1 <= Len(sent[c]) - k
    <3>1. stdout[1] = sent[c][k + 1] /\ k + 1 \in DOMAIN sent[c]
      BY <1>1, <2>1, <2>2 DEF ReadSoFar
    <3> QED BY <1>2, <2>1, <3>1 DEF SentInv
  <2>3. CASE ~(1 <= Len(sent[c]) - k)
    <3>1. stdout[1].call = c
      BY <2>1, <2>3 DEF ReadSoFar, Reply
    <3> QED BY <1>2, <2>1, <3>1
  <2> QED BY <2>2, <2>3
<1>4. k = Len(sent[c])
  BY <1>1, <1>3 DEF ReadSoFar
<1>5. k = 0 => Len(toolCalls) = 0
  BY <1>1, CountNext DEF ReadSoFar
<1>6. k # 0 => sent[c][k].kind # "tool_call"
  BY <1>1, <1>2, <1>4, EmptySeq DEF Quiet, ToolOpen
<1>7. DOMAIN toolCalls = 1..Len(toolCalls) /\ Len(toolCalls) \in Nat
  BY LenProperties
<1>8. \A i \in 1..Len(toolCalls) : toolCalls[i] = [id |-> i, call |-> c, status |-> "completed"]
  <2> SUFFICES ASSUME NEW i \in 1..Len(toolCalls)
               PROVE  toolCalls[i] = [id |-> i, call |-> c, status |-> "completed"]
    OBVIOUS
  <2>1. ~(i = Len(toolCalls) /\ sent[c][k].kind = "tool_call")
    <3>1. Len(toolCalls) # 0
      BY <1>7
    <3>2. k # 0
      BY <1>5, <3>1
    <3> QED BY <1>6, <3>2
  <2>2. toolCalls[i] = [id |-> i, call |-> c,
                        status |-> IF i = Len(toolCalls) /\ sent[c][k].kind = "tool_call"
                                     THEN "in_progress" ELSE "completed"]
    BY <1>7 DEF ReadSoFar
  <2> QED BY <2>1, <2>2
<1>9. Len(toolCalls) = ToolCount(c)
  BY <1>4 DEF ReadSoFar, ToolCount
<1>10. ChunksOf(text, sent[c], Len(sent[c]))
  BY <1>4 DEF ReadSoFar
<1> QED BY <1>4, <1>8, <1>9, <1>10

\* A prompt that is made finds nothing on stdout, and empties the buffers.
LEMMA PromptStartsBuffers ==
  ASSUME ClientInv, WireInv, CallerInv, BuffersInv, Prompt
  PROVE  BuffersInv'
<1>1. /\ text' = <<>> /\ toolCalls' = <<>> /\ stdout' = stdout /\ sent' = sent
      /\ nextId \in Calls /\ caller = "open" /\ caller' \in {"session/prompt", "failed"}
      /\ caller' = "session/prompt" => nextId' = nextId + 1
  BY DEF Prompt, Call
<1>2. /\ text' \in Seq(Lines) /\ toolCalls' \in Seq(Entries)
      /\ Len(text') = 0 /\ Len(toolCalls') = 0 /\ DOMAIN text' = {} /\ DOMAIN toolCalls' = {}
  BY <1>1
<1>3. ASSUME caller' = "session/prompt"
      PROVE  \E k \in 0..Len(sent'[Awaited']) : ReadSoFar(Awaited, k)'
  <2>1. PICK c \in Calls : c = nextId
    BY <1>1
  <2>2. Awaited' = c
    BY <1>1, <1>3, <2>1, OnTheWire DEF Awaited
  <2>3. Len(sent[c]) = 0
    <3>1. ~(c < nextId)
      BY <2>1, OnTheWire
    <3>2. sent[c] = <<>>
      BY <3>1 DEF WireInv, AskedInv
    <3> QED BY <3>2
  <2>4. stdout = <<>> /\ Len(stdout) = 0 /\ DOMAIN stdout = {}
    <3>1. ASSUME NEW k \in DOMAIN stdout PROVE FALSE
      <4>1. stdout[k].call \in Calls /\ stdout[k].call < nextId /\ stdout[k].call \in Nat
        BY OnTheWire DEF WireInv, AnsweredInv
      <4>2. stdout[k].call <= Awaited
        BY <4>1, OnTheWire DEF Awaited
      <4>3. settled[stdout[k].call] = "result"
        BY <1>1, <4>1, <4>2 DEF CallerInv
      <4> QED BY <4>1, <4>3 DEF WireInv, AnsweredInv
    <3>2. Len(stdout) \in Nat /\ DOMAIN stdout = 1..Len(stdout) /\ stdout \in Seq(Lines)
      BY OnTheWire DEF ClientInv, TypeOK
    <3>3. Len(stdout) = 0
      <4> SUFFICES ASSUME Len(stdout) # 0 PROVE FALSE
        OBVIOUS
      <4>1. 1 \in DOMAIN stdout
        BY <3>2
      <4> QED BY <3>1, <4>1
    <3> QED BY <3>1, <3>2, <3>3, EmptySeq
  <2>5. ToolsIn(sent[c], 0) = 0
    BY CountNext
  <2>6. ReadSoFar(c, 0)'
    BY <1>1, <1>2, <2>3, <2>4, <2>5 DEF ReadSoFar, ChunksOf
  <2> QED BY <1>1, <2>2, <2>3, <2>6
<1> QED BY <1>2, <1>3 DEF BuffersInv

\* The call the caller awaits in prompt().
LEMMA AwaitedPrompt ==
  ASSUME ClientInv, WireInv, CallerInv, caller = "session/prompt"
  PROVE  /\ Awaited \in Calls /\ Awaited > 2 /\ sessionId
         /\ \A c \in Calls : c \in working \cup Unread => c = Awaited
<1>1. nextId \in Nat /\ nextId > 3 /\ sessionId /\ nextId <= MaxPrompts + 3
  BY OnTheWire, ClientAssumption DEF CallerInv, ClientInv, TypeOK
<1>2. Awaited \in Calls /\ Awaited > 2 /\ Awaited \in Nat
  BY <1>1, ClientAssumption DEF Awaited, Calls
<1>3. ASSUME NEW c \in Calls, c \in working \cup Unread PROVE c = Awaited
  <2>1. c < nextId /\ c \in Nat
    BY <1>3, OnTheWire DEF WireInv, AskedInv
  <2>2. settled[c] # "result"
    BY <1>3 DEF WireInv, AnsweredInv, Quiet
  <2>3. ~(c < Awaited)
    BY <2>2 DEF CallerInv
  <2> QED BY <1>1, <2>1, <2>3 DEF Awaited
<1> QED BY <1>1, <1>2, <1>3

\* While a prompt is worked on its answer is not on stdout.
LEMMA WorkingUnanswered ==
  ASSUME ClientInv, WireInv, NEW c \in working, NEW k \in 0..Len(sent[c]), ReadSoFar(c, k)
  PROVE  Len(stdout) = Len(sent[c]) - k
<1>1. /\ c \in Calls /\ c \notin Quiet
      /\ Len(stdout) \in Nat /\ DOMAIN stdout = 1..Len(stdout)
  BY OnTheWire DEF ClientInv, TypeOK, Quiet
<1>2. Len(sent[c]) \in Nat
  BY <1>1, LenProperties DEF ClientInv, TypeOK
<1> SUFFICES ASSUME Len(stdout) = Len(sent[c]) - k + 1 PROVE FALSE
  BY DEF ReadSoFar
<1>3. Len(stdout) \in DOMAIN stdout /\ ~(Len(stdout) <= Len(sent[c]) - k)
  BY <1>1, <1>2
<1>4. stdout[Len(stdout)] \in {Reply(c, how) : how \in Responses}
  BY <1>3 DEF ReadSoFar
<1>5. stdout[Len(stdout)].call = c /\ stdout[Len(stdout)].kind \in Responses
  <2>1. PICK how \in Responses : stdout[Len(stdout)] = Reply(c, how)
    BY <1>4
  <2>2. Reply(c, how).call = c /\ Reply(c, how).kind = how
    BY DEF Reply
  <2> QED BY <2>1, <2>2
<1> QED BY <1>1, <1>3, <1>5 DEF WireInv, AnsweredInv

\* An update that is written is the next behind those on their way.
LEMMA UpdateKeepsReadSoFar ==
  ASSUME ClientInv, WireInv, NEW c \in Calls, ChildUpdates(c),
         toolCalls \in Seq(Entries), NEW k \in 0..Len(sent[c]), ReadSoFar(c, k)
  PROVE  k \in 0..Len(sent'[c]) /\ ReadSoFar(c, k)'
<1>1. /\ sent \in [Calls -> Seq(Lines)] /\ sent[c] \in Seq(Lines) /\ Len(sent[c]) \in Nat
      /\ stdout \in Seq(Lines) /\ Len(stdout) \in Nat /\ DOMAIN stdout = 1..Len(stdout)
      /\ c \in working /\ UNCHANGED <<text, toolCalls>>
  BY LenProperties DEF ClientInv, TypeOK, ChildUpdates, buffers
<1>2. PICK u \in Lines :
         /\ sent' = [sent EXCEPT ![c] = Append(sent[c], u)]
         /\ stdout' = Append(stdout, u)
  BY UpdateWritten
<1> DEFINE L == Len(sent[c])
<1>3. /\ Len(sent'[c]) = L + 1
      /\ \A i \in 1..L : sent'[c][i] = sent[c][i]
      /\ sent'[c][L + 1] = u
  BY <1>1, <1>2, Written
<1>4. Len(stdout) = L - k
  BY <1>1, WorkingUnanswered
<1>5. /\ Len(stdout') = L - k + 1 /\ DOMAIN stdout' = 1..(L - k + 1)
      /\ \A i \in 1..(L - k) : stdout'[i] = stdout[i]
      /\ stdout'[L - k + 1] = u
  <2>1. /\ Len(stdout') = Len(stdout) + 1 /\ DOMAIN stdout' = 1..(Len(stdout) + 1)
        /\ \A i \in 1..Len(stdout) : stdout'[i] = stdout[i]
        /\ stdout'[Len(stdout) + 1] = u
    BY <1>1, <1>2, Written
  <2> HIDE DEF L
  <2> QED BY <1>4, <2>1
<1>6. ASSUME NEW i \in DOMAIN stdout' PROVE i <= Len(sent'[c]) - k /\ stdout'[i] = sent'[c][k + i]
  <2>1. CASE i \in 1..(L - k)
    <3>1. stdout[i] = sent[c][k + i] /\ k + i \in 1..L
      BY <1>1, <1>4, <2>1 DEF ReadSoFar
    <3> QED BY <1>1, <1>3, <1>5, <2>1, <3>1
  <2>2. CASE i = L - k + 1
    BY <1>1, <1>3, <1>5, <2>2
  <2> QED BY <1>1, <1>5, <2>1, <2>2
<1>7. \A i \in 1..k : sent'[c][i] = sent[c][i]
  BY <1>1, <1>3
<1>8. ToolsIn(sent'[c], k) = ToolsIn(sent[c], k)
  BY <1>7, CountSame
<1>9. ChunksOf(text', sent'[c], k)
  BY <1>1, <1>7, ChunksSame DEF ReadSoFar
<1>10. /\ k = 0 => DOMAIN toolCalls = {}
       /\ k # 0 => sent'[c][k] = sent[c][k]
  <2>1. k = 0 => Len(toolCalls) = 0
    BY <1>1, CountNext DEF ReadSoFar
  <2>2. DOMAIN toolCalls = 1..Len(toolCalls)
    BY LenProperties
  <2> QED BY <1>1, <1>7, <2>1, <2>2
<1>11. Len(toolCalls') = ToolsIn(sent'[c], k)
  BY <1>1, <1>8 DEF ReadSoFar
<1>12. \A i \in DOMAIN toolCalls' :
         toolCalls'[i] = [id |-> i, call |-> c,
                          status |-> IF i = Len(toolCalls') /\ sent'[c][k].kind = "tool_call"
                                       THEN "in_progress" ELSE "completed"]
  BY <1>1, <1>10 DEF ReadSoFar
<1>13. Len(stdout') \in {Len(sent'[c]) - k, Len(sent'[c]) - k + 1} /\ k \in 0..Len(sent'[c])
  BY <1>1, <1>3, <1>5
<1> QED BY <1>6, <1>9, <1>11, <1>12, <1>13 DEF ReadSoFar

\* The answer is written behind the last update.
LEMMA AnswerKeepsReadSoFar ==
  ASSUME ClientInv, WireInv, NEW c \in Calls, ChildAnswers(c),
         NEW k \in 0..Len(sent[c]), ReadSoFar(c, k)
  PROVE  ReadSoFar(c, k)'
<1>1. /\ stdout \in Seq(Lines) /\ Len(sent[c]) \in Nat
      /\ c \in working /\ UNCHANGED <<text, toolCalls, sent>>
  BY LenProperties DEF ClientInv, TypeOK, ChildAnswers, buffers
<1>2. PICK how \in Responses : stdout' = Append(stdout, Reply(c, how))
  BY DEF ChildAnswers
<1>3. Reply(c, how) \in Lines
  BY DEF Reply, Lines
<1> DEFINE L == Len(sent[c])
<1>4. Len(stdout) = L - k
  BY <1>1, WorkingUnanswered
<1>5. /\ Len(stdout') = L - k + 1 /\ DOMAIN stdout' = 1..(L - k + 1)
      /\ \A i \in 1..(L - k) : stdout'[i] = stdout[i]
      /\ stdout'[L - k + 1] = Reply(c, how) /\ DOMAIN stdout = 1..(L - k)
  BY <1>1, <1>2, <1>3, <1>4, Written
<1>6. \A i \in DOMAIN stdout' :
         IF i <= L - k THEN stdout'[i] = sent[c][k + i]
         ELSE stdout'[i] \in {Reply(c, h) : h \in Responses}
  <2>1. \A i \in DOMAIN stdout' : i \in 1..(L - k) \/ (i = L - k + 1 /\ ~(i <= L - k))
    BY <1>1, <1>5
  <2>2. \A i \in 1..(L - k) : i <= L - k /\ stdout'[i] = sent[c][k + i]
    BY <1>5 DEF ReadSoFar
  <2> QED BY <1>5, <2>1, <2>2
<1> QED BY <1>1, <1>5, <1>6 DEF ReadSoFar

\* What a line does to the buffers, and that they keep their types.
LEMMA LineRead ==
  ASSUME ClientInv, BuffersInv, ReadLine
  PROVE  /\ text' \in Seq(Lines) /\ toolCalls' \in Seq(Entries)
         /\ UNCHANGED <<caller, nextId, sessionId, sent>>
         /\ stdout[1].kind \in Responses => UNCHANGED <<text, toolCalls>>
         /\ stdout[1].kind \in Updates => HandleUpdate(stdout[1])
<1>1. /\ stdout \in Seq(Lines) /\ stdout # <<>>
      /\ UNCHANGED <<caller, sent>>
      /\ HandleReply(Head(stdout)) \/ HandleUpdate(Head(stdout))
  BY DEF ReadLine, ClientInv, TypeOK
<1>2. Head(stdout) = stdout[1] /\ stdout[1] \in Lines
  BY <1>1, Read, OnTheWire
<1>3. text \in Seq(Lines) /\ toolCalls \in Seq(Entries) /\ sessionId \in BOOLEAN
  BY DEF BuffersInv, ClientInv, TypeOK
<1> DEFINE line == stdout[1]
<1>4. /\ line.kind \in Responses \cup Updates /\ line.n \in Nat /\ line.call \in Calls
      /\ ~(line.kind \in Responses /\ line.kind \in Updates)
  BY <1>2 DEF Lines, Responses, Updates
<1>5. CASE HandleReply(line)
  BY <1>1, <1>2, <1>3, <1>4, <1>5 DEF HandleReply, buffers
<1>6. CASE HandleUpdate(line)
  <2>1. text' \in Seq(Lines)
    <3>1. text' = text \/ text' = Append(text, line)
      BY <1>6 DEF HandleUpdate
    <3> QED BY <1>2, <1>3, <3>1, Written
  <2>2. toolCalls' \in Seq(Entries)
    <3> DEFINE e == [id |-> line.n, call |-> line.call, status |-> "in_progress"]
               m == EntryOf(line.n)
    <3>1. \/ toolCalls' = toolCalls
          \/ toolCalls' = Append(toolCalls, e)
          \/ toolCalls' = [toolCalls EXCEPT ![m].status = "completed"]
      BY <1>6 DEF HandleUpdate
    <3>2. e \in Entries
      BY <1>4 DEF Entries
    <3>3. CASE toolCalls' = [toolCalls EXCEPT ![m].status = "completed"]
      <4> HIDE DEF m
      <4> DEFINE f == [toolCalls[m] EXCEPT !.status = "completed"]
      <4>1. toolCalls' = [toolCalls EXCEPT ![m] = f]
        BY <3>3
      <4>2. CASE m \in DOMAIN toolCalls
        <5>1. m \in 1..Len(toolCalls) /\ toolCalls[m] \in Entries
          BY <1>3, <4>2, LenProperties, ElementOfSeq
        <5>2. f \in Entries
          BY <5>1 DEF Entries
        <5> HIDE DEF f
        <5> QED BY <1>3, <4>1, <5>1, <5>2, ExceptSeq
      <4>3. CASE m \notin DOMAIN toolCalls
        <5>1. toolCalls' = toolCalls
          <6> HIDE DEF f
          <6>1. toolCalls = [i \in 1..Len(toolCalls) |-> toolCalls[i]]
            BY <1>3, LenProperties
          <6> QED BY <1>3, <4>1, <4>3, <6>1
        <5> QED BY <1>3, <5>1
      <4> QED BY <4>2, <4>3
    <3>4. CASE toolCalls' = Append(toolCalls, e)
      <4> HIDE DEF e
      <4> QED BY <1>3, <3>2, <3>4, Written
    <3> HIDE DEF e, m
    <3> QED BY <1>3, <3>1, <3>3, <3>4
  <2> QED BY <1>1, <1>4, <1>6, <2>1, <2>2 DEF HandleUpdate, table
<1> QED BY <1>1, <1>2, <1>5, <1>6

\* The text of one update more.
LEMMA ChunksNext ==
  ASSUME NEW t \in Seq(Lines), NEW s, NEW k \in Nat, NEW u \in Seq(Lines), s[k + 1] \in Lines,
         ChunksOf(t, s, k),
         \A j \in 1..(k + 1) : s[j].kind = "chunk" => s[j].n = j,
         u = IF s[k + 1].kind = "chunk" THEN Append(t, s[k + 1]) ELSE t
  PROVE  ChunksOf(u, s, k + 1)
<1> DEFINE C(n) == {j \in 1..n : s[j].kind = "chunk"}
<1>1. CASE s[k + 1].kind # "chunk"
  <2>1. C(k + 1) = C(k)
    BY <1>1
  <2>2. u = t
    BY <1>1
  <2>3. {t[i] : i \in DOMAIN t} = {s[j] : j \in C(k)}
    BY DEF ChunksOf
  <2>4. {t[i] : i \in DOMAIN t} = {s[j] : j \in C(k + 1)}
    <3> HIDE DEF C
    <3> QED BY <2>1, <2>3
  <2>5. ChunksOf(t, s, k + 1)
    BY <2>4 DEF ChunksOf
  <2> QED BY <2>2, <2>5
<1>2. CASE s[k + 1].kind = "chunk"
  <2>1. C(k + 1) = C(k) \cup {k + 1}
    BY <1>2
  <2>2. /\ Len(t) \in Nat /\ DOMAIN t = 1..Len(t) /\ DOMAIN u = 1..(Len(t) + 1)
        /\ \A i \in 1..Len(t) : u[i] = t[i]
        /\ u[Len(t) + 1] = s[k + 1]
    BY <1>2, Written
  <2>3. DOMAIN u = DOMAIN t \cup {Len(t) + 1}
    BY <2>2
  <2>4. {t[i] : i \in DOMAIN t} = {s[j] : j \in C(k)}
    BY DEF ChunksOf
  <2>5. {u[i] : i \in DOMAIN u} = {t[i] : i \in DOMAIN t} \cup {s[k + 1]}
    BY <2>2, <2>3
  <2>6. {u[i] : i \in DOMAIN u} = {s[j] : j \in C(k + 1)}
    <3> HIDE DEF C
    <3> QED BY <2>1, <2>4, <2>5
  <2>7. \A i \in DOMAIN t : t[i].n < s[k + 1].n
    <3> SUFFICES ASSUME NEW i \in DOMAIN t PROVE t[i].n < s[k + 1].n
      OBVIOUS
    <3>1. PICK j \in C(k) : t[i] = s[j]
      BY <2>4
    <3>2. j \in 1..k /\ s[j].n = j
      BY <3>1
    <3> QED BY <1>2, <3>1, <3>2
  <2>8. \A i, j \in DOMAIN u : i < j => u[i].n < u[j].n
    <3> SUFFICES ASSUME NEW i \in DOMAIN u, NEW j \in DOMAIN u, i < j PROVE u[i].n < u[j].n
      OBVIOUS
    <3>1. i \in DOMAIN t /\ (j \in DOMAIN t \/ j = Len(t) + 1)
      BY <2>2
    <3> QED BY <2>2, <2>7, <3>1 DEF ChunksOf
  <2> QED BY <2>6, <2>8 DEF ChunksOf
<1> QED BY <1>1, <1>2

\* An entry is found by its place.
LEMMA EntryIsPlace ==
  ASSUME NEW n, n \in DOMAIN toolCalls, DOMAIN toolCalls \subseteq Nat \ {0},
         \A i \in DOMAIN toolCalls : toolCalls[i].id = i
  PROVE  EntryOf(n) = n /\ EntryOf(n) # 0
<1>1. {i \in DOMAIN toolCalls : toolCalls[i].id = n} = {n}
  OBVIOUS
<1>2. n \in Nat \ {0}
  OBVIOUS
<1>3. (CHOOSE i \in {n} : \A j \in {n} : i <= j) = n
  BY <1>2
<1> QED BY <1>1, <1>2, <1>3 DEF EntryOf

\* The tool calls of one update more.
LEMMA Collected ==
  ASSUME ClientInv, SentInv, BuffersInv, NEW c \in Calls, sessionId,
         NEW k \in Nat, k < Len(sent[c]), ReadSoFar(c, k),
         HandleUpdate(sent[c][k + 1]), text' \in Seq(Lines), toolCalls' \in Seq(Entries)
  PROVE  /\ ChunksOf(text', sent[c], k + 1)
         /\ Len(toolCalls') = ToolsIn(sent[c], k + 1)
         /\ \A i \in DOMAIN toolCalls' :
              toolCalls'[i] = [id |-> i, call |-> c,
                               status |-> IF i = Len(toolCalls') /\ sent[c][k + 1].kind = "tool_call"
                                            THEN "in_progress" ELSE "completed"]
<1> DEFINE s == sent[c]
           e == s[k + 1]
           T == Len(toolCalls)
<1>1. s \in Seq(Lines) /\ Len(s) \in Nat /\ DOMAIN s = 1..Len(s)
  BY LenProperties DEF ClientInv, TypeOK
<1>2. \A j \in 1..(k + 1) : j \in DOMAIN s
  BY <1>1
<1>3. e \in Lines
  BY <1>1, <1>2, ElementOfSeq
<1>4. /\ e.call = c /\ e.kind \in Updates
      /\ e.kind # "chunk" => e.n = ToolsIn(s, k + 1)
      /\ e.kind = "tool_call_update" <=> k + 1 > 1 /\ s[(k + 1) - 1].kind = "tool_call"
      /\ \A j \in 1..(k + 1) : s[j].kind = "chunk" => s[j].n = j
  <2>1. k + 1 \in DOMAIN s
    BY <1>1
  <2> QED BY <1>2, <2>1 DEF SentInv
<1>5. /\ text \in Seq(Lines) /\ toolCalls \in Seq(Entries) /\ T \in Nat
      /\ DOMAIN toolCalls = 1..T /\ T = ToolsIn(s, k)
  BY LenProperties DEF BuffersInv, ReadSoFar
<1>6. /\ text' = IF e.kind = "chunk" THEN Append(text, e) ELSE text
      /\ e.kind = "tool_call" => toolCalls' = Append(toolCalls, [id |-> e.n, call |-> e.call, status |-> "in_progress"])
      /\ e.kind = "chunk" => toolCalls' = toolCalls
      /\ e.kind = "tool_call_update" /\ EntryOf(e.n) # 0 =>
           toolCalls' = [toolCalls EXCEPT ![EntryOf(e.n)].status = "completed"]
  BY DEF HandleUpdate
<1>7. ChunksOf(text', s, k + 1)
  <2>1. ChunksOf(text, s, k)
    BY DEF ReadSoFar
  <2> QED BY <1>1, <1>3, <1>4, <1>5, <1>6, <2>1, ChunksNext
<1>8. /\ e.kind = "tool_call" => ToolsIn(s, k + 1) = T + 1
      /\ e.kind # "tool_call" => ToolsIn(s, k + 1) = T
  BY <1>5, CountNext
<1>9. \A i \in 1..T : toolCalls[i] = [id |-> i, call |-> c,
                        status |-> IF i = T /\ s[k].kind = "tool_call" THEN "in_progress" ELSE "completed"]
  BY <1>5 DEF ReadSoFar
<1>10. k = 0 => T = 0
  BY <1>5, CountNext
<1>11. ASSUME e.kind # "tool_call_update", NEW i \in 1..T
       PROVE  toolCalls[i] = [id |-> i, call |-> c, status |-> "completed"]
  <2>1. k # 0
    BY <1>5, <1>10
  <2>2. s[k].kind # "tool_call"
    <3>1. (k + 1) - 1 = k /\ k + 1 > 1
      BY <2>1
    <3> QED BY <1>4, <1>11, <3>1
  <2> QED BY <1>9, <2>2
<1> HIDE DEF s, e, T
<1>12. CASE e.kind = "chunk"
  BY <1>5, <1>6, <1>7, <1>8, <1>11, <1>12 DEF s, e, T
<1>13. CASE e.kind = "tool_call"
  <2> DEFINE f == [id |-> e.n, call |-> e.call, status |-> "in_progress"]
  <2>1. f = [id |-> T + 1, call |-> c, status |-> "in_progress"]
    BY <1>4, <1>8, <1>13
  <2>2. f \in Entries
    BY <1>5, <2>1 DEF Entries
  <2> HIDE DEF f
  <2>3. toolCalls' = Append(toolCalls, f)
    BY <1>6, <1>13 DEF f
  <2>4. /\ Len(toolCalls') = T + 1 /\ DOMAIN toolCalls' = 1..(T + 1)
        /\ \A i \in 1..T : toolCalls'[i] = toolCalls[i]
        /\ toolCalls'[T + 1] = f
    BY <1>5, <2>2, <2>3, Written DEF T
  <2>5. ASSUME NEW i \in 1..(T + 1)
        PROVE  toolCalls'[i] = [id |-> i, call |-> c,
                  status |-> IF i = T + 1 /\ e.kind = "tool_call" THEN "in_progress" ELSE "completed"]
    <3>1. CASE i = T + 1
      BY <1>13, <2>1, <2>4, <3>1
    <3>2. CASE i # T + 1
      <4>1. i \in 1..T
        BY <1>5, <3>2
      <4> QED BY <1>11, <1>13, <2>4, <3>2, <4>1
    <3> QED BY <3>1, <3>2
  <2> QED BY <1>7, <1>8, <1>13, <2>4, <2>5 DEF s, e
<1>14. CASE e.kind = "tool_call_update"
  <2>1. k # 0 /\ s[k].kind = "tool_call" /\ k \in Nat
    <3>1. (k + 1) - 1 = k /\ (k + 1 > 1 => k # 0)
      OBVIOUS
    <3> QED BY <1>4, <1>14, <3>1
  <2>2. T > 0
    <3>1. k - 1 \in Nat /\ (k - 1) + 1 = k
      BY <2>1
    <3>2. ToolsIn(s, k) = ToolsIn(s, k - 1) + 1 /\ ToolsIn(s, k - 1) \in Nat
      BY <2>1, <3>1, CountNext
    <3> QED BY <1>5, <3>2
  <2>3. e.n = T
    BY <1>4, <1>8, <1>14
  <2>4. EntryOf(T) = T /\ EntryOf(T) # 0
    <3>1. T \in DOMAIN toolCalls /\ DOMAIN toolCalls \subseteq Nat \ {0}
      BY <1>5, <2>2
    <3>2. \A i \in DOMAIN toolCalls : toolCalls[i].id = i
      BY <1>5, <1>9
    <3> QED BY <3>1, <3>2, EntryIsPlace
  <2> DEFINE f == [toolCalls[T] EXCEPT !.status = "completed"]
  <2>5. f = [id |-> T, call |-> c, status |-> "completed"]
    <3>1. toolCalls[T] = [id |-> T, call |-> c, status |-> "in_progress"]
      BY <1>5, <1>9, <2>1, <2>2
    <3> QED BY <3>1
  <2>6. toolCalls' = [toolCalls EXCEPT ![T] = f]
    BY <1>6, <1>14, <2>3, <2>4
  <2>7. f \in Entries
    BY <1>5, <2>5 DEF Entries
  <2> HIDE DEF f
  <2>8. /\ Len(toolCalls') = T /\ DOMAIN toolCalls' = 1..T
        /\ \A i \in 1..T : toolCalls'[i] = IF i = T THEN f ELSE toolCalls[i]
    <3>1. T \in 1..Len(toolCalls) /\ T = Len(toolCalls)
      BY <1>5, <2>2 DEF T
    <3> QED BY <1>5, <2>6, <2>7, <3>1, ExceptSeq
  <2>9. \A i \in DOMAIN toolCalls' : toolCalls'[i] = [id |-> i, call |-> c, status |-> "completed"]
    BY <1>5, <1>9, <2>5, <2>8
  <2> QED BY <1>7, <1>8, <1>14, <2>8, <2>9 DEF s, e
<1> QED BY <1>4, <1>12, <1>13, <1>14 DEF Updates

\* A line is read: the next update is collected, or the answer is taken.
LEMMA ReadLineKeepsBuffers ==
  ASSUME ClientInv, SentInv, CallerInv, BuffersInv, WireInv, ReadLine
  PROVE  BuffersInv'
<1>1. /\ text' \in Seq(Lines) /\ toolCalls' \in Seq(Entries)
      /\ UNCHANGED <<caller, nextId, sessionId, sent>>
      /\ stdout[1].kind \in Responses => UNCHANGED <<text, toolCalls>>
      /\ stdout[1].kind \in Updates => HandleUpdate(stdout[1])
  BY LineRead
<1> SUFFICES ASSUME caller = "session/prompt"
             PROVE  \E k \in 0..Len(sent'[Awaited']) : ReadSoFar(Awaited, k)'
  BY <1>1 DEF BuffersInv
<1>2. Awaited \in Calls /\ sessionId
  BY AwaitedPrompt
<1>3. PICK c \in Calls : c = Awaited
  BY <1>2
<1>4. PICK k \in 0..Len(sent[c]) : ReadSoFar(c, k)
  BY <1>3 DEF BuffersInv
<1> DEFINE L == Len(sent[c])
<1>5. L \in Nat /\ DOMAIN sent[c] = 1..L
  BY LenProperties DEF ClientInv, TypeOK
<1>6. /\ stdout \in Seq(Lines) /\ stdout # <<>> /\ stdout' = Tail(stdout)
      /\ Awaited' = c
  BY <1>1, <1>3 DEF ReadLine, ClientInv, TypeOK, Awaited
<1>7. /\ 1 \in DOMAIN stdout /\ Len(stdout) \in Nat
      /\ Len(stdout') = Len(stdout) - 1
      /\ DOMAIN stdout = 1..Len(stdout) /\ DOMAIN stdout' = 1..(Len(stdout) - 1)
      /\ \A i \in DOMAIN stdout' : stdout'[i] = stdout[i + 1] /\ i + 1 \in DOMAIN stdout
  BY <1>6, Read
<1>8. /\ Len(stdout) \in {L - k, L - k + 1}
      /\ \A i \in DOMAIN stdout :
           IF i <= L - k THEN stdout[i] = sent[c][k + i]
           ELSE stdout[i] \in {Reply(c, how) : how \in Responses}
  BY <1>4 DEF ReadSoFar
<1>9. CASE k < L
  <2>1. stdout[1] = sent[c][k + 1] /\ k + 1 \in DOMAIN sent[c]
    BY <1>5, <1>7, <1>8, <1>9
  <2>2. HandleUpdate(sent[c][k + 1])
    BY <1>1, <2>1 DEF SentInv
  <2>3. /\ ChunksOf(text', sent[c], k + 1)
        /\ Len(toolCalls') = ToolsIn(sent[c], k + 1)
        /\ \A i \in DOMAIN toolCalls' :
             toolCalls'[i] = [id |-> i, call |-> c,
                              status |-> IF i = Len(toolCalls') /\ sent[c][k + 1].kind = "tool_call"
                                           THEN "in_progress" ELSE "completed"]
    BY <1>1, <1>2, <1>4, <1>5, <1>9, <2>2, Collected
  <2>4. Len(stdout') \in {L - (k + 1), L - (k + 1) + 1}
    <3> HIDE DEF L
    <3>1. k \in Nat
      OBVIOUS
    <3> QED BY <1>5, <1>7, <1>8, <3>1
  <2>5. \A i \in DOMAIN stdout' :
          IF i <= L - (k + 1) THEN stdout'[i] = sent[c][(k + 1) + i]
          ELSE stdout'[i] \in {Reply(c, how) : how \in Responses}
    <3> SUFFICES ASSUME NEW i \in DOMAIN stdout'
                 PROVE  IF i <= L - (k + 1) THEN stdout'[i] = sent[c][(k + 1) + i]
                        ELSE stdout'[i] \in {Reply(c, how) : how \in Responses}
      OBVIOUS
    <3>1. i \in Nat /\ (k + 1) + i = k + (i + 1) /\ (i <= L - (k + 1) <=> i + 1 <= L - k)
      BY <1>5, <1>7
    <3>2. IF i + 1 <= L - k THEN stdout[i + 1] = sent[c][k + (i + 1)]
          ELSE stdout[i + 1] \in {Reply(c, how) : how \in Responses}
      BY <1>7, <1>8
    <3> QED BY <1>7, <3>1, <3>2
  <2>6. k + 1 \in 0..L
    BY <1>5, <1>9
  <2>7. ReadSoFar(c, k + 1)'
    BY <1>1, <2>3, <2>4, <2>5 DEF ReadSoFar
  <2> QED BY <1>1, <1>6, <2>6, <2>7
<1>10. CASE k = L
  <2>1. Len(stdout) = 1 /\ ~(1 <= L - k)
    BY <1>5, <1>7, <1>8, <1>10
  <2>2. UNCHANGED <<text, toolCalls>>
    <3>1. stdout[1] \in {Reply(c, how) : how \in Responses}
      BY <1>7, <1>8, <2>1
    <3>2. stdout[1].kind \in Responses
      BY <3>1 DEF Reply
    <3> QED BY <1>1, <3>2
  <2>3. Len(stdout') = 0 /\ DOMAIN stdout' = {}
    BY <1>7, <2>1
  <2>4. Len(stdout') \in {L - k, L - k + 1}
    BY <1>5, <1>10, <2>3
  <2>5. ReadSoFar(c, k)'
    BY <1>1, <1>4, <2>2, <2>3, <2>4 DEF ReadSoFar
  <2> QED BY <1>1, <1>4, <1>6, <2>5
<1> QED BY <1>5, <1>9, <1>10

\* Steps that touch neither the buffers nor the lines on their way.
LEMMA SilentKeepsBuffers ==
  ASSUME BuffersInv, UNCHANGED <<text, toolCalls, stdout, sent>>,
         caller' = "session/prompt" => caller' = caller /\ nextId' = nextId
  PROVE  BuffersInv'
BY DEF BuffersInv, ReadSoFar, Awaited

\* Every step keeps the buffers up to what was read.
LEMMA NextKeepsBuffers ==
  ClientInv /\ WireInv /\ SentInv /\ CallerInv /\ BuffersInv /\ [Next]_vars => BuffersInv'
<1> SUFFICES ASSUME ClientInv, WireInv, SentInv, CallerInv, BuffersInv, [Next]_vars
             PROVE  BuffersInv'
  OBVIOUS
<1>1. CASE Prompt
  BY <1>1, PromptStartsBuffers
<1>2. CASE Initialize \/ NewSession
  <2>1. UNCHANGED <<text, toolCalls, stdout, sent>> /\ caller' # "session/prompt"
    BY <1>2 DEF Initialize, NewSession, Call, buffers
  <2> QED BY <2>1, SilentKeepsBuffers
<1>3. CASE Resume
  <2>1. caller' # "session/prompt"
    BY <1>3 DEF Resume
  <2>2. \/ UNCHANGED <<text, toolCalls>>
        \/ text' = <<>> /\ toolCalls' = <<>>
    BY <1>3 DEF Resume, buffers
  <2>3. text' \in Seq(Lines) /\ toolCalls' \in Seq(Entries)
    <3>1. text \in Seq(Lines) /\ toolCalls \in Seq(Entries)
      BY DEF BuffersInv
    <3>2. <<>> \in Seq(Lines) /\ <<>> \in Seq(Entries)
      BY EmptySeq
    <3> QED BY <2>2, <3>1, <3>2
  <2> QED BY <2>1, <2>3 DEF BuffersInv
<1>4. CASE Fail \/ Shutdown \/ WaitEnds \/ WaitTimesOut \/ ExitEvent \/ ChildDies \/ UNCHANGED vars
  <2>1. UNCHANGED <<text, toolCalls, stdout, sent, nextId>>
    BY <1>4 DEF Fail, Shutdown, WaitEnds, WaitTimesOut, ExitEvent, ChildDies, vars, buffers, server, table
  <2>2. caller' = "session/prompt" => caller' = caller
    BY <1>4 DEF Fail, Shutdown, WaitEnds, WaitTimesOut, ExitEvent, ChildDies, vars
  <2> QED BY <2>1, <2>2, SilentKeepsBuffers
<1>5. ASSUME NEW c \in Calls, Timeout(c) PROVE BuffersInv'
  <2>1. UNCHANGED <<text, toolCalls, stdout, sent, nextId, caller>>
    BY <1>5 DEF Timeout, buffers, server
  <2> QED BY <2>1, SilentKeepsBuffers
<1>6. CASE ReadLine
  BY <1>6, ReadLineKeepsBuffers
<1>7. CASE ChildReads
  <2>1. UNCHANGED <<text, toolCalls, sent, nextId, caller>>
    BY <1>7 DEF ChildReads, buffers, table
  <2>2. CASE caller = "session/prompt"
    <3>1. 1 \in DOMAIN stdin /\ Head(stdin) = stdin[1]
      BY <1>7, Read DEF ChildReads, ClientInv, TypeOK
    <3>2. Head(stdin) \in Unread /\ Head(stdin) \in Calls
      BY <3>1, OnTheWire DEF Unread
    <3>3. Head(stdin) > 2
      BY <2>2, <3>2, AwaitedPrompt
    <3>4. stdout' = stdout
      BY <1>7, <3>2, <3>3, OnTheWire DEF ChildReads
    <3> QED BY <2>1, <3>4, SilentKeepsBuffers
  <2>3. CASE caller # "session/prompt"
    BY <2>1, <2>3 DEF BuffersInv
  <2> QED BY <2>2, <2>3
<1>8. ASSUME NEW c \in Calls, ChildUpdates(c) \/ ChildAnswers(c) PROVE BuffersInv'
  <2>1. UNCHANGED <<text, toolCalls, nextId, caller>> /\ c \in working
    BY <1>8 DEF ChildUpdates, ChildAnswers, buffers, table
  <2>2. CASE caller = "session/prompt"
    <3>1. c = Awaited /\ Awaited' = c
      BY <2>1, <2>2, AwaitedPrompt DEF Awaited
    <3>2. PICK k \in 0..Len(sent[c]) : ReadSoFar(c, k)
      BY <2>2, <3>1 DEF BuffersInv
    <3>3. k \in 0..Len(sent'[c]) /\ ReadSoFar(c, k)'
      <4>1. CASE ChildUpdates(c)
        BY <3>2, <4>1, UpdateKeepsReadSoFar DEF BuffersInv
      <4>2. CASE ChildAnswers(c)
        <5>1. sent' = sent
          BY <4>2 DEF ChildAnswers
        <5> QED BY <3>2, <4>2, <5>1, AnswerKeepsReadSoFar
      <4> QED BY <1>8, <4>1, <4>2
    <3> QED BY <2>1, <3>1, <3>3 DEF BuffersInv
  <2>3. CASE caller # "session/prompt"
    BY <2>1, <2>3 DEF BuffersInv
  <2> QED BY <2>2, <2>3
<1> QED
  BY <1>1, <1>2, <1>3, <1>4, <1>5, <1>6, <1>7, <1>8 DEF Next, Client, Child

\* What a prompt returns is what the buffers hold when its answer was read, and
\* nothing is emitted for it any more.
LEMMA NextKeepsResults ==
  ASSUME ~Retries
  PROVE  ClientInv /\ CollectInv /\ [Next]_vars => ResultsInv' /\ ResultIsComplete'
<1> SUFFICES ASSUME ClientInv, CollectInv, [Next]_vars
             PROVE  ResultsInv' /\ ResultIsComplete'
  OBVIOUS
<1> USE DEF CollectInv
<1>1. /\ \A c \in Calls : settled[c] = "result" => settled'[c] = "result" /\ sent'[c] = sent[c]
      /\ \A c \in Calls : result[c].returned => settled[c] = "result"
  BY ResultStays, FrozenSent DEF ResultsInv
<1>2. ASSUME NEW c \in Calls, result'[c] = result[c], result[c].returned
      PROVE  /\ settled'[c] = "result"
             /\ ChunksOf(result'[c].text, sent'[c], Len(sent'[c]))
             /\ Len(result'[c].toolCalls) = ToolsIn(sent'[c], Len(sent'[c]))
             /\ \A i \in DOMAIN result'[c].toolCalls :
                  result'[c].toolCalls[i] = [id |-> i, call |-> c, status |-> "completed"]
  <2>1. sent'[c] = sent[c] /\ settled'[c] = "result"
    BY <1>1, <1>2
  <2> QED BY <1>2, <2>1 DEF ResultIsComplete, ToolCount
<1>3. CASE UNCHANGED result
  <2>1. DOMAIN result' = Calls /\ \A c \in Calls : result'[c] = result[c]
    BY <1>3 DEF ResultsInv
  <2>2. ResultsInv'
    BY <1>2, <2>1 DEF ResultsInv
  <2>3. ResultIsComplete'
    BY <1>2, <2>1 DEF ResultIsComplete, ToolCount
  <2> QED BY <2>2, <2>3
<1>4. CASE Resume /\ caller = "session/prompt"
  <2>1. PICK c \in Calls : c = Awaited
    BY <1>4, AwaitedPrompt
  <2>2. /\ settled[c] = "result"
        /\ result' = [result EXCEPT ![c] = [text |-> text, toolCalls |-> toolCalls, returned |-> TRUE]]
    BY <1>4, <2>1 DEF Resume
  <2>3. PICK k \in 0..Len(sent[c]) : ReadSoFar(c, k)
    BY <1>4, <2>1 DEF BuffersInv
  <2>4. toolCalls \in Seq(Entries) /\ DOMAIN toolCalls = 1..Len(toolCalls)
    BY LenProperties DEF BuffersInv
  <2>5. /\ ChunksOf(text, sent[c], Len(sent[c]))
        /\ Len(toolCalls) = ToolCount(c)
        /\ \A i \in 1..Len(toolCalls) : toolCalls[i] = [id |-> i, call |-> c, status |-> "completed"]
    BY <2>2, <2>3, <2>4, AllRead
  <2>6. ASSUME NEW d \in Calls, result'[d].returned
        PROVE  /\ settled'[d] = "result"
               /\ ChunksOf(result'[d].text, sent'[d], Len(sent'[d]))
               /\ Len(result'[d].toolCalls) = ToolsIn(sent'[d], Len(sent'[d]))
               /\ \A i \in DOMAIN result'[d].toolCalls :
                    result'[d].toolCalls[i] = [id |-> i, call |-> d, status |-> "completed"]
    <3>1. CASE d # c
      <4>1. result'[d] = result[d]
        BY <2>2, <3>1
      <4> QED BY <1>2, <2>6, <4>1
    <3>2. CASE d = c
      <4>1. result'[c] = [text |-> text, toolCalls |-> toolCalls, returned |-> TRUE]
        BY <2>2 DEF ResultsInv
      <4>2. sent'[c] = sent[c] /\ settled'[c] = "result"
        BY <1>1, <2>2
      <4> QED BY <2>4, <2>5, <3>2, <4>1, <4>2 DEF ToolCount
    <3> QED BY <3>1, <3>2
  <2>7. DOMAIN result' = Calls
    BY <2>2 DEF ResultsInv
  <2>8. ResultsInv'
    BY <2>6, <2>7 DEF ResultsInv
  <2>9. ResultIsComplete'
    BY <2>6 DEF ResultIsComplete, ToolCount
  <2> QED BY <2>8, <2>9
<1>5. CASE Resume /\ caller # "session/prompt"
  BY <1>3, <1>5 DEF Resume
<1>6. CASE Initialize \/ NewSession \/ Prompt
  BY <1>3, <1>6 DEF Initialize, NewSession, Prompt
<1>7. CASE Fail \/ Shutdown \/ WaitEnds \/ WaitTimesOut \/ ExitEvent \/ ReadLine
  BY <1>3, <1>7 DEF Fail, Shutdown, WaitEnds, WaitTimesOut, ExitEvent, ReadLine
<1>8. ASSUME NEW c \in Calls, Timeout(c) \/ ChildUpdates(c) \/ ChildAnswers(c)
      PROVE  ResultsInv' /\ ResultIsComplete'
  BY <1>3, <1>8 DEF Timeout, ChildUpdates, ChildAnswers
<1>9. CASE ChildReads \/ ChildDies \/ UNCHANGED vars
  BY <1>3, <1>9 DEF ChildReads, ChildDies, vars
<1> QED
  BY <1>4, <1>5, <1>6, <1>7, <1>8, <1>9 DEF Next, Client, Child

\* Nothing was called, written or collected yet.
LEMMA InitCollectInv == Init => CollectInv
<1> SUFFICES ASSUME Init PROVE CollectInv
  OBVIOUS
<1>1. /\ DOMAIN stdin = {} /\ DOMAIN stdout = {}
      /\ \A c \in Calls : sent[c] = <<>> /\ DOMAIN sent[c] = {} /\ settled[c] = "none"
      /\ working = {} /\ caller = "created"
  BY DEF Init
<1>2. WireInv
  BY <1>1 DEF WireInv, AskedInv, AnsweredInv, Unread, Quiet
<1>3. SentInv
  BY <1>1 DEF SentInv
<1>4. CallerInv
  BY <1>1 DEF CallerInv
<1>5. BuffersInv
  <2>1. <<>> \in Seq(Lines) /\ <<>> \in Seq(Entries)
    BY EmptySeq
  <2> QED BY <1>1, <2>1 DEF Init, BuffersInv
<1>6. DOMAIN result = Calls /\ \A c \in Calls : ~result[c].returned
  BY DEF Init, NoResult
<1> QED
  BY <1>2, <1>3, <1>4, <1>5, <1>6 DEF CollectInv, ResultsInv, ResultIsComplete

-----------------------------------------------------------------------------
\* A prompt that returns to a caller that gives up at the first failure returns
\* every chunk and every tool call of that prompt and nothing of another,
\* wherever the child dies and whenever the timers fire.
THEOREM ClientResults ==
  ASSUME ~Retries PROVE Spec => []ResultIsComplete
<1>1. ClientInv /\ CollectInv /\ [Next]_vars => CollectInv'
  BY NextKeepsWire, NextKeepsSent, NextKeepsCaller, NextKeepsBuffers, NextKeepsResults DEF CollectInv
<1>2. CollectInv => ResultIsComplete
  BY DEF CollectInv
<1> QED
  BY <1>1, <1>2, InitCollectInv, ClientInvariant, PTL DEF Spec
=============================================================================
