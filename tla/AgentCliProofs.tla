--------------------------- MODULE AgentCliProofs ---------------------------
(***************************************************************************)
(* Proofs about AgentCli, over those about AgentLoop: any command lines,   *)
(* any files, any number of turns, of tool calls and of appends that fail. *)
(* A step of the run hands its events to the logger and to the renderer    *)
(* one after the other, so what is shown first is what one event does to   *)
(* the log and to the screen; induction over the events of the step does   *)
(* the rest.                                                               *)
(*                                                                         *)
(* The proofs about Replies, which shares no state with AgentCli, stand    *)
(* here because they rest on the same induction.  A reply may be of any    *)
(* length.                                                                 *)
(***************************************************************************)
EXTENDS AgentCli, Replies, AgentLoopProofs, WellFoundedInduction

-----------------------------------------------------------------------------
(* Induction over the events of a step                                     *)

\* A set of numbers has a least one.
LEMMA LeastNumber ==
  ASSUME NEW S \in SUBSET Nat, S # {}
  PROVE  \E i \in S : \A j \in S : i <= j
<1> DEFINE R == OpToRel(<, Nat)
<1>1. IsWellFoundedOn(R, Nat)
  BY NatLessThanWellFounded
<1>2. \A i, j \in Nat : <<i, j>> \in R <=> i < j
  BY DEF OpToRel
<1> HIDE DEF R
<1>3. PICK i \in S : \A j \in S : ~(<<j, i>> \in R)
  BY <1>1, WFMin
<1>4. ASSUME NEW j \in S PROVE i <= j
  <2>1. i \in Nat /\ j \in Nat /\ ~(<<j, i>> \in R)
    BY <1>3
  <2>2. ~(j < i)
    BY <1>2, <2>1
  <2> QED
    BY <2>1, <2>2
<1> QED
  BY <1>4

\* What holds of 0 and goes on from each number below n holds up to n.
LEMMA InductionTo ==
  ASSUME NEW n \in Nat, NEW S, 0 \in S, \A k \in 0..(n - 1) : k \in S => k + 1 \in S
  PROVE  \A k \in 0..n : k \in S
<1> DEFINE Out == {k \in 0..n : k \notin S}
<1> SUFFICES ASSUME Out # {} PROVE FALSE
  OBVIOUS
<1>1. Out \in SUBSET Nat
  OBVIOUS
<1>2. PICK i \in Out : \A j \in Out : i <= j
  BY <1>1, LeastNumber
<1>3. i \in 0..n /\ i \notin S /\ i # 0
  BY <1>2
<1>4. i - 1 \in 0..(n - 1) /\ i - 1 \in 0..n /\ i - 1 < i
  BY <1>3
<1>5. i - 1 \in S
  BY <1>2, <1>4
<1> QED
  BY <1>3, <1>4, <1>5

\* The recursion of FlattenSeq, up to a place.
Flattens(f, seqs, n) ==
  f = [i \in 1..n |-> IF i = 1 THEN seqs[i] ELSE f[i - 1] \o seqs[i]]

\* There is a function like that.
LEMMA FlattensUpTo ==
  ASSUME NEW seqs, NEW n \in Nat
  PROVE  \E f : Flattens(f, seqs, n)
<1> DEFINE S == {k \in 0..n : \E f : Flattens(f, seqs, k)}
<1>1. 0 \in S
  <2>1. Flattens([i \in 1..0 |-> <<>>], seqs, 0)
    BY DEF Flattens
  <2> QED
    BY <2>1
<1>2. ASSUME NEW k \in 0..(n - 1), k \in S PROVE k + 1 \in S
  <2>1. PICK f : Flattens(f, seqs, k)
    BY <1>2
  <2> DEFINE g == [i \in 1..(k + 1) |->
                     IF i = 1 THEN seqs[i]
                     ELSE IF i = k + 1 THEN f[k] \o seqs[i] ELSE f[i]]
  <2>2. /\ g = [i \in 1..(k + 1) |-> g[i]]
        /\ \A i \in 1..(k + 1) :
             g[i] = IF i = 1 THEN seqs[i] ELSE IF i = k + 1 THEN f[k] \o seqs[i] ELSE f[i]
        /\ k \in Nat
    OBVIOUS
  <2>3. \A i \in 1..k : f[i] = IF i = 1 THEN seqs[i] ELSE f[i - 1] \o seqs[i]
    BY <2>1 DEF Flattens
  <2> HIDE DEF g
  <2>4. ASSUME NEW i \in 1..(k + 1)
        PROVE  g[i] = IF i = 1 THEN seqs[i] ELSE g[i - 1] \o seqs[i]
    <3>1. CASE i = 1
      BY <2>2, <3>1
    <3>2. ASSUME i # 1 PROVE g[i] = g[i - 1] \o seqs[i]
      <4>1. /\ i - 1 \in 1..k /\ i - 1 \in 1..(k + 1) /\ i - 1 # k + 1
            /\ i # k + 1 => i \in 1..k
        BY <2>2, <3>2
      <4>2. g[i - 1] = f[i - 1]
        <5>1. CASE i - 1 = 1
          BY <2>2, <2>3, <4>1, <5>1
        <5>2. CASE i - 1 # 1
          BY <2>2, <4>1, <5>2
        <5> QED
          BY <5>1, <5>2
      <4>3. CASE i = k + 1
        <5>1. k = i - 1
          BY <2>2, <4>3
        <5>2. g[i] = f[k] \o seqs[i]
          BY <2>2, <3>2, <4>3, Zenon
        <5> QED
          BY <4>2, <5>1, <5>2
      <4>4. CASE i # k + 1
        BY <2>2, <2>3, <3>2, <4>1, <4>2, <4>4
      <4> QED
        BY <4>3, <4>4
    <3> QED
      BY <3>1, <3>2
  <2>5. Flattens(g, seqs, k + 1)
    BY <2>2, <2>4 DEF Flattens
  <2> QED
    BY <2>5
<1> HIDE DEF S
<1>3. n \in S
  BY <1>1, <1>2, InductionTo
<1> QED
  BY <1>3 DEF S

\* FlattenSeq takes the sequences one after the other.
LEMMA FlattenByPrefix ==
  ASSUME NEW X, NEW n \in Nat, NEW seqs \in [1..n -> Seq(X)]
  PROVE  \E F \in [0..n -> Seq(X)] :
           /\ F[0] = <<>>
           /\ \A k \in 0..(n - 1) : F[k + 1] = F[k] \o seqs[k + 1]
           /\ F[n] = FlattenSeq(seqs)
<1>1. Len(seqs) = n
  OBVIOUS
<1> DEFINE f == CHOOSE f : f = [i \in 1..Len(seqs) |->
                                  IF i = 1 THEN seqs[i] ELSE f[i - 1] \o seqs[i]]
<1>2. FlattenSeq(seqs) = IF Len(seqs) = 0 THEN seqs ELSE f[Len(seqs)]
  BY DEF FlattenSeq
<1>3. f = [i \in 1..n |-> IF i = 1 THEN seqs[i] ELSE f[i - 1] \o seqs[i]]
  BY <1>1, FlattensUpTo DEF Flattens
<1> HIDE DEF f
<1>4. \A i \in 1..n : f[i] = IF i = 1 THEN seqs[i] ELSE f[i - 1] \o seqs[i]
  BY <1>3
<1> DEFINE F == [k \in 0..n |-> IF k = 0 THEN <<>> ELSE f[k]]
           S == {k \in 0..n : F[k] \in Seq(X)}
<1>5. F[0] = <<>> /\ <<>> \in Seq(X) /\ \A k \in 0..n : F[k] = IF k = 0 THEN <<>> ELSE f[k]
  OBVIOUS
<1>6. F \in [0..n -> UNION {Seq(X), {F[k] : k \in 0..n}}]
  OBVIOUS
<1>7. \A k \in 1..n : seqs[k] \in Seq(X)
  OBVIOUS
<1> HIDE DEF F
<1>8. 0 \in S
  <2>1. 0 \in 0..n /\ F[0] \in Seq(X)
    BY <1>5
  <2> QED
    BY <2>1
<1>9. ASSUME NEW k \in 0..(n - 1), k \in S PROVE k + 1 \in S /\ F[k + 1] = F[k] \o seqs[k + 1]
  <2>1. k + 1 \in 1..n /\ k + 1 \in 0..n /\ k \in 0..n /\ k + 1 # 0 /\ (k # 0 => k \in 1..n)
    OBVIOUS
  <2>2. seqs[k + 1] \in Seq(X) /\ F[k] \in Seq(X)
    BY <1>7, <1>9, <2>1
  <2>3. F[k + 1] = f[k + 1]
    BY <1>5, <2>1
  <2>4. F[k + 1] = F[k] \o seqs[k + 1]
    <3>1. CASE k = 0
      <4>1. f[1] = seqs[1] /\ F[1] = f[1] /\ seqs[1] \in Seq(X)
        BY <1>4, <2>1, <2>2, <2>3, <3>1
      <4>2. F[0] \o seqs[1] = seqs[1]
        BY <1>5, <4>1, ConcatEmptySeq
      <4> QED
        BY <3>1, <4>1, <4>2
    <3>2. CASE k # 0
      <4>1. (k + 1) - 1 = k /\ k + 1 # 1 /\ F[k] = f[k]
        BY <1>5, <2>1, <3>2
      <4>2. f[k + 1] = f[(k + 1) - 1] \o seqs[k + 1]
        BY <1>4, <2>1, <4>1
      <4> QED
        BY <2>3, <4>1, <4>2
    <3> QED
      BY <3>1, <3>2
  <2> QED
    BY <2>1, <2>2, <2>4, ConcatProperties
<1>10. \A k \in 0..n : k \in S
  <2> HIDE DEF S
  <2> QED
    BY <1>8, <1>9, InductionTo
<1>11. F \in [0..n -> Seq(X)]
  <2>1. \A k \in 0..n : F[k] \in Seq(X)
    BY <1>10
  <2> QED
    BY <1>6, <2>1
<1>12. F[n] = FlattenSeq(seqs)
  BY <1>1, <1>2 DEF F
<1>13. \A k \in 0..(n - 1) : F[k + 1] = F[k] \o seqs[k + 1]
  <2>1. \A k \in 0..(n - 1) : k \in 0..n
    OBVIOUS
  <2> HIDE DEF S
  <2> QED
    BY <1>9, <1>10, <2>1
<1> HIDE DEF S
<1> QED
  BY <1>5, <1>11, <1>12, <1>13

-----------------------------------------------------------------------------
(* What one event does to the log                                          *)

\* The lines of a log, and those that are no event.
Others == {Header, Torn} \cup {BusError(tag) : tag \in EventTags}
Line   == Event \cup Others

\* No event is taken for another line.
LEMMA LinesDiffer ==
  /\ \A e \in Event : ~IsOther(e)
  /\ \A line \in Others : IsOther(line) /\ line \notin Event
  /\ \A e \in Event : e # Torn /\ e.tag # "bus:error" /\ BusError(e.tag) \in Others
  /\ \A tag \in EventTags : BusError(tag) # Torn /\ BusError(tag).tag = "bus:error"
  /\ Header \in Others /\ Torn \in Others /\ Header # Torn /\ Torn.tag # "bus:error"
<1>1. \A e \in Event : e.tag \in EventTags
  BY DEF Event
<1>2. \A tag \in EventTags : tag \notin {"session:log-init", "part of a line", "bus:error"}
  BY DEF EventTags
<1>3. /\ Header.tag = "session:log-init" /\ Torn.tag = "part of a line"
      /\ \A tag : BusError(tag).tag = "bus:error"
  BY DEF Header, Torn, BusError, Ev
<1>4. \A e \in Event : ~IsOther(e)
  BY <1>1, <1>2, <1>3 DEF IsOther
<1>5. \A line \in Others : IsOther(line)
  BY <1>3 DEF Others, IsOther
<1> QED
  BY <1>1, <1>2, <1>3, <1>4, <1>5 DEF Others

\* A log of the events es: m of them are missing, d is 1 when a part of a line ends
\* it, and q of its lines are reports.
Holds(es, lines, m, d, q) ==
  /\ es \in Seq(Event) /\ lines \in Seq(Line) /\ lines # <<>>
  /\ \A i \in DOMAIN lines : IsOther(lines[i]) \/ lines[i] \in ToSet(es)
  /\ InOrder(es, lines)
  /\ m = Cardinality(Missing(es, lines)) /\ m \in Nat
  /\ d = Dangling(lines)
  /\ q = Cardinality(Reported(lines)) /\ q \in Nat

\* The legible lines of a log one line longer.
LEMMA OneMoreLine ==
  ASSUME NEW lines \in Seq(Line), lines # <<>>, NEW line \in Line
  PROVE  LET more == Append(lines, line)
             n    == Len(lines)
         IN /\ more \in Seq(Line) /\ more # <<>> /\ n \in Nat
            /\ DOMAIN lines = 1..n /\ DOMAIN more = 1..(n + 1)
            /\ \A i \in 1..n : more[i] = lines[i]
            /\ more[n + 1] = line
            /\ Legible(lines) \subseteq 1..n
            /\ Legible(more) = Legible(lines) \cup
                 (IF line # Torn /\ Dangling(lines) = 0 THEN {n + 1} ELSE {})
            /\ Dangling(more) = IF line = Torn THEN 1 ELSE 0
            /\ Torn \notin ToSet(more) => line # Torn /\ Torn \notin ToSet(lines)
<1> DEFINE more == Append(lines, line)
           n    == Len(lines)
<1>1. /\ more \in Seq(Line) /\ more # <<>> /\ n \in Nat /\ n > 0
      /\ DOMAIN lines = 1..n /\ DOMAIN more = 1..(n + 1) /\ Len(more) = n + 1
      /\ \A i \in 1..n : more[i] = lines[i]
      /\ more[n + 1] = line
  BY AppendProperties, LenProperties, EmptySeq
<1> HIDE DEF more
<1>2. Last(lines) = lines[n] /\ Last(more) = line
  BY <1>1 DEF Last
<1> HIDE DEF n
<1>3. Legible(lines) \subseteq 1..n
  BY <1>1 DEF Legible
<1>4. ASSUME NEW i \in 1..n PROVE i \in Legible(more) <=> i \in Legible(lines)
  <2>1. i \in 1..(n + 1) /\ more[i] = lines[i] /\ (i > 1 => more[i - 1] = lines[i - 1])
    BY <1>1
  <2> QED
    BY <1>1, <2>1 DEF Legible
<1>5. n + 1 \in Legible(more) <=> line # Torn /\ lines[n] # Torn
  <2>1. n + 1 \in 1..(n + 1) /\ n + 1 > 1 /\ (n + 1) - 1 = n /\ more[n] = lines[n]
    BY <1>1
  <2> QED
    BY <1>1, <2>1 DEF Legible
<1>6. Dangling(lines) = (IF lines[n] = Torn THEN 1 ELSE 0)
  BY <1>2 DEF Dangling
<1>7. Legible(more) \subseteq 1..(n + 1)
  BY <1>1 DEF Legible
<1>8. Legible(more) = Legible(lines) \cup
                 (IF line # Torn /\ Dangling(lines) = 0 THEN {n + 1} ELSE {})
  <2>1. \A i : i \in 1..(n + 1) <=> i \in 1..n \/ i = n + 1
    BY <1>1
  <2>2. n + 1 \notin 1..n
    BY <1>1
  <2> QED
    BY <1>3, <1>4, <1>5, <1>6, <1>7, <2>1, <2>2
<1>9. Dangling(more) = IF line = Torn THEN 1 ELSE 0
  BY <1>2 DEF Dangling
<1>10. Torn \notin ToSet(more) => line # Torn /\ Torn \notin ToSet(lines)
  <2>1. \A i \in 1..n : i \in 1..(n + 1)
    BY <1>1
  <2>2. n + 1 \in 1..(n + 1)
    BY <1>1
  <2> QED
    BY <1>1, <2>1, <2>2 DEF ToSet
<1> QED
  BY <1>1, <1>3, <1>8, <1>9, <1>10 DEF more, n

\* A log without torn lines has none at its end.
LEMMA UntornLog ==
  ASSUME NEW lines \in Seq(Line), lines # <<>>, Torn \notin ToSet(lines)
  PROVE  Dangling(lines) = 0
<1>1. Len(lines) \in DOMAIN lines
  BY LenProperties, EmptySeq
<1> QED
  BY <1>1 DEF Dangling, ToSet, Last

\* The sets that are counted are finite.
LEMMA CountsAreNumbers ==
  ASSUME NEW es \in Seq(Event), NEW lines \in Seq(Line)
  PROVE  /\ IsFiniteSet(Missing(es, lines)) /\ Cardinality(Missing(es, lines)) \in Nat
         /\ IsFiniteSet(Reported(lines)) /\ Cardinality(Reported(lines)) \in Nat
<1>1. /\ DOMAIN es = 1..Len(es) /\ Len(es) \in Nat
      /\ DOMAIN lines = 1..Len(lines) /\ Len(lines) \in Nat
  BY LenProperties
<1>2. IsFiniteSet(1..Len(es)) /\ IsFiniteSet(1..Len(lines))
  BY <1>1, FS_Interval
<1>3. Missing(es, lines) \in SUBSET (1..Len(es)) /\ Reported(lines) \in SUBSET (1..Len(lines))
  BY <1>1 DEF Missing, Reported, Legible
<1>4. IsFiniteSet(Missing(es, lines)) /\ IsFiniteSet(Reported(lines))
  BY <1>2, <1>3, FS_Subset
<1> QED
  BY <1>4, FS_CardinalityType

\* A line that is no event loses none and moves none; it may be a report.
LEMMA OtherLine ==
  ASSUME NEW es, NEW lines, NEW m, NEW d, NEW q, Holds(es, lines, m, d, q),
         NEW line \in Others
  PROVE  /\ Holds(es, Append(lines, line), m, IF line = Torn THEN 1 ELSE 0,
                  IF line.tag = "bus:error" /\ d = 0 THEN q + 1 ELSE q)
         /\ Torn \notin ToSet(Append(lines, line)) =>
              line # Torn /\ Torn \notin ToSet(lines)
<1> DEFINE more == Append(lines, line)
           n    == Len(lines)
<1>0. /\ es \in Seq(Event) /\ lines \in Seq(Line) /\ lines # <<>> /\ line \in Line
      /\ \A i \in DOMAIN es : es[i] \in Event
  BY LenProperties, ElementOfSeq DEF Holds, Line
<1>1. /\ more \in Seq(Line) /\ more # <<>> /\ n \in Nat
      /\ DOMAIN lines = 1..n /\ DOMAIN more = 1..(n + 1)
      /\ \A i \in 1..n : more[i] = lines[i]
      /\ more[n + 1] = line
      /\ Legible(lines) \subseteq 1..n
      /\ Legible(more) = Legible(lines) \cup
           (IF line # Torn /\ Dangling(lines) = 0 THEN {n + 1} ELSE {})
      /\ Dangling(more) = IF line = Torn THEN 1 ELSE 0
      /\ Torn \notin ToSet(more) => line # Torn /\ Torn \notin ToSet(lines)
  BY <1>0, OneMoreLine
<1> HIDE DEF more, n
<1>2. /\ \A i \in DOMAIN es : es[i] # line
      /\ IsOther(line) /\ n + 1 \notin 1..n
  BY <1>0, <1>1, LinesDiffer
<1>3. \A i \in DOMAIN more : IsOther(more[i]) \/ more[i] \in ToSet(es)
  <2>1. \A i \in DOMAIN more : i \in 1..n \/ i = n + 1
    BY <1>1
  <2> QED
    BY <1>1, <1>2, <2>1 DEF Holds
<1>4. ASSUME NEW i \in Legible(more), NEW a \in DOMAIN es, more[i] = es[a]
      PROVE  i \in Legible(lines) /\ lines[i] = es[a]
  BY <1>1, <1>2, <1>4
<1>5. InOrder(es, more)
  BY <1>4 DEF InOrder, Holds
<1>6. Missing(es, more) = Missing(es, lines)
  <2>1. \A a \in DOMAIN es : es[a] \in Logged(more) <=> es[a] \in Logged(lines)
    BY <1>1, <1>4 DEF Logged
  <2> QED
    BY <2>1 DEF Missing
<1>7. Cardinality(Reported(more)) = IF line.tag = "bus:error" /\ d = 0 THEN q + 1 ELSE q
  <2>0. IsFiniteSet(Reported(lines)) /\ q = Cardinality(Reported(lines)) /\ d = Dangling(lines)
    BY <1>0, CountsAreNumbers DEF Holds
  <2>1. CASE line.tag = "bus:error" /\ d = 0
    <3>1. line # Torn
      BY <2>1, LinesDiffer
    <3>2. Reported(more) = Reported(lines) \cup {n + 1} /\ n + 1 \notin Reported(lines)
      BY <1>1, <1>2, <2>0, <2>1, <3>1 DEF Reported
    <3> QED
      BY <2>0, <2>1, <3>2, FS_AddElement
  <2>2. CASE ~(line.tag = "bus:error" /\ d = 0)
    <3>1. Reported(more) = Reported(lines)
      BY <1>1, <1>2, <2>0, <2>2 DEF Reported
    <3> QED
      BY <2>0, <2>2, <3>1
  <2> QED
    BY <2>1, <2>2
<1>8. Cardinality(Reported(more)) \in Nat
  BY <1>0, <1>1, CountsAreNumbers
<1>9. Holds(es, more, m, IF line = Torn THEN 1 ELSE 0,
            IF line.tag = "bus:error" /\ d = 0 THEN q + 1 ELSE q)
  BY <1>0, <1>1, <1>3, <1>5, <1>6, <1>7, <1>8 DEF Holds
<1> QED
  BY <1>1, <1>9 DEF more


\* The events with one more.
LEMMA OneMoreOfEvents ==
  ASSUME NEW es \in Seq(Event), NEW e \in Event
  PROVE  LET fs == Append(es, e)
             n  == Len(es)
         IN /\ fs \in Seq(Event) /\ n \in Nat
            /\ DOMAIN es = 1..n /\ DOMAIN fs = (1..n) \cup {n + 1} /\ n + 1 \notin 1..n
            /\ \A a \in 1..n : fs[a] = es[a]
            /\ fs[n + 1] = e
            /\ ToSet(fs) = ToSet(es) \cup {e}
<1> DEFINE fs == Append(es, e)
           n  == Len(es)
<1>1. /\ fs \in Seq(Event) /\ n \in Nat /\ DOMAIN es = 1..n /\ DOMAIN fs = 1..(n + 1)
      /\ \A a \in 1..n : fs[a] = es[a]
      /\ fs[n + 1] = e
  BY AppendProperties, LenProperties
<1> HIDE DEF fs, n
<1>2. DOMAIN fs = (1..n) \cup {n + 1} /\ n + 1 \notin 1..n
  BY <1>1
<1>3. ToSet(fs) = ToSet(es) \cup {e}
  BY <1>1, <1>2 DEF ToSet
<1> QED
  BY <1>1, <1>2, <1>3 DEF fs, n

\* An event that is not in the log is missing there.
LEMMA UnloggedEvent ==
  ASSUME NEW es, NEW lines, NEW m, NEW d, NEW q, Holds(es, lines, m, d, q),
         NEW e \in Event, e \notin ToSet(es)
  PROVE  Holds(Append(es, e), lines, m + 1, d, q)
<1> DEFINE fs == Append(es, e)
           n  == Len(es)
<1>0. /\ es \in Seq(Event) /\ lines \in Seq(Line) /\ m = Cardinality(Missing(es, lines))
      /\ Legible(lines) \subseteq DOMAIN lines
  BY DEF Holds, Legible
<1>1. /\ fs \in Seq(Event) /\ n \in Nat
      /\ DOMAIN es = 1..n /\ DOMAIN fs = (1..n) \cup {n + 1} /\ n + 1 \notin 1..n
      /\ \A a \in 1..n : fs[a] = es[a]
      /\ fs[n + 1] = e
      /\ ToSet(fs) = ToSet(es) \cup {e}
  BY <1>0, OneMoreOfEvents
<1> HIDE DEF fs, n
<1>2. \A i \in DOMAIN lines : lines[i] # e
  BY LinesDiffer DEF Holds
<1>3. Missing(fs, lines) = Missing(es, lines) \cup {n + 1} /\ n + 1 \notin Missing(es, lines)
  <2>1. e \notin Logged(lines)
    BY <1>0, <1>2 DEF Logged
  <2> QED
    BY <1>1, <2>1 DEF Missing
<1>4. Cardinality(Missing(fs, lines)) = m + 1 /\ m + 1 \in Nat
  <2>1. IsFiniteSet(Missing(es, lines)) /\ m \in Nat
    BY <1>0, CountsAreNumbers
  <2>2. Cardinality(Missing(es, lines) \cup {n + 1}) = Cardinality(Missing(es, lines)) + 1
    BY <1>3, <2>1, FS_AddElement
  <2> QED
    BY <1>0, <1>3, <2>1, <2>2
<1>5. InOrder(fs, lines)
  <2>1. ASSUME NEW i \in Legible(lines), NEW a \in DOMAIN fs, lines[i] = fs[a]
        PROVE  a \in DOMAIN es /\ lines[i] = es[a]
    BY <1>0, <1>1, <1>2, <2>1
  <2> QED
    BY <2>1 DEF InOrder, Holds
<1>6. \A i \in DOMAIN lines : IsOther(lines[i]) \/ lines[i] \in ToSet(fs)
  BY <1>1 DEF Holds
<1> QED
  BY <1>1, <1>4, <1>5, <1>6 DEF Holds, fs

\* One that is logged is missing if a part of a line takes it along.
LEMMA LoggedEvent ==
  ASSUME NEW es, NEW lines, NEW m, NEW d, NEW q, Holds(es, lines, m, d, q),
         NEW e \in Event, e \notin ToSet(es)
  PROVE  /\ Holds(Append(es, e), Append(lines, e), m + d, 0, q)
         /\ Torn \notin ToSet(Append(lines, e)) => Torn \notin ToSet(lines) /\ d = 0
<1> DEFINE fs   == Append(es, e)
           n    == Len(es)
           more == Append(lines, e)
           l    == Len(lines)
<1>0. /\ es \in Seq(Event) /\ lines \in Seq(Line) /\ lines # <<>> /\ e \in Line
      /\ d = Dangling(lines)
  BY DEF Holds, Line
<1>1. /\ fs \in Seq(Event) /\ n \in Nat
      /\ DOMAIN es = 1..n /\ DOMAIN fs = (1..n) \cup {n + 1} /\ n + 1 \notin 1..n
      /\ \A a \in 1..n : fs[a] = es[a]
      /\ fs[n + 1] = e
      /\ ToSet(fs) = ToSet(es) \cup {e}
  BY <1>0, OneMoreOfEvents
<1>2. /\ more \in Seq(Line) /\ more # <<>> /\ l \in Nat
      /\ DOMAIN lines = 1..l /\ DOMAIN more = 1..(l + 1)
      /\ \A i \in 1..l : more[i] = lines[i]
      /\ more[l + 1] = e
      /\ Legible(lines) \subseteq 1..l
      /\ Legible(more) = Legible(lines) \cup
           (IF e # Torn /\ Dangling(lines) = 0 THEN {l + 1} ELSE {})
      /\ Dangling(more) = IF e = Torn THEN 1 ELSE 0
      /\ Torn \notin ToSet(more) => e # Torn /\ Torn \notin ToSet(lines)
  BY <1>0, OneMoreLine
<1>3. Holds(fs, lines, m + 1, d, q)
  BY UnloggedEvent
<1> HIDE DEF fs, n, more, l
<1>4. /\ e # Torn /\ e.tag # "bus:error" /\ d \in {0, 1}
      /\ \A i \in 1..l : lines[i] # e
  BY <1>0, <1>2, LinesDiffer DEF Holds, Dangling
<1>5. \A i \in 1..(l + 1) : i \in 1..l \/ i = l + 1
  BY <1>2
<1>6. \A i \in DOMAIN more : IsOther(more[i]) \/ more[i] \in ToSet(fs)
  BY <1>1, <1>2, <1>5 DEF Holds
<1>7. Reported(more) = Reported(lines)
  BY <1>2, <1>4, <1>5 DEF Reported
<1>8. InOrder(fs, more)
  <2>1. ASSUME NEW i \in Legible(more), NEW a \in DOMAIN fs, more[i] = fs[a]
        PROVE  \/ i \in Legible(lines) /\ a \in DOMAIN es /\ lines[i] = es[a]
               \/ i = l + 1 /\ a = n + 1
    <3>1. CASE i \in Legible(lines)
      BY <1>1, <1>2, <1>4, <2>1, <3>1
    <3>2. CASE i = l + 1
      <4>1. a \in 1..n => es[a] \in ToSet(es) /\ fs[a] = es[a]
        BY <1>1 DEF ToSet
      <4> QED
        BY <1>1, <1>2, <2>1, <3>2, <4>1
    <3> QED
      BY <1>2, <2>1, <3>1, <3>2
  <2>2. ASSUME NEW i \in Legible(more), NEW a \in DOMAIN fs, more[i] = fs[a],
               NEW j \in Legible(more), NEW b \in DOMAIN fs, i < j, more[j] = fs[b]
        PROVE  a < b
    <3>1. CASE i \in Legible(lines) /\ a \in DOMAIN es /\ lines[i] = es[a]
      <4>1. CASE j \in Legible(lines) /\ b \in DOMAIN es /\ lines[j] = es[b]
        BY <2>2, <3>1, <4>1 DEF InOrder, Holds
      <4>2. CASE j = l + 1 /\ b = n + 1
        BY <1>1, <3>1, <4>2
      <4> QED
        BY <2>1, <2>2, <4>1, <4>2
    <3>2. CASE i = l + 1 /\ a = n + 1
      <4>1. j \in 1..(l + 1)
        BY <1>2, <2>2
      <4> QED
        BY <1>2, <2>2, <3>2, <4>1
    <3> QED
      BY <2>1, <2>2, <3>1, <3>2
  <2> QED
    BY <2>2 DEF InOrder
<1>9. Cardinality(Missing(fs, more)) = m + d
  <2>1. CASE d = 0
    <3>1. Logged(more) = Logged(lines) \cup {e}
      <4>1. Legible(more) = Legible(lines) \cup {l + 1}
        BY <1>0, <1>2, <1>4, <2>1
      <4> QED
        BY <1>2, <4>1 DEF Logged
    <3>2. \A a \in 1..n : es[a] # e
      BY <1>1 DEF ToSet
    <3>3. Missing(fs, more) = Missing(es, lines)
      BY <1>1, <3>1, <3>2 DEF Missing
    <3> QED
      BY <2>1, <3>3 DEF Holds
  <2>2. CASE d = 1
    <3>1. Legible(more) = Legible(lines)
      BY <1>0, <1>2, <2>2
    <3>2. Logged(more) = Logged(lines)
      BY <1>2, <3>1 DEF Logged
    <3>3. Missing(fs, more) = Missing(fs, lines)
      BY <3>2 DEF Missing
    <3> QED
      BY <1>3, <2>2, <3>3 DEF Holds
  <2> QED
    BY <1>4, <2>1, <2>2
<1>10. Holds(fs, more, m + d, 0, q)
  BY <1>1, <1>2, <1>4, <1>6, <1>7, <1>8, <1>9 DEF Holds
<1> QED
  BY <1>0, <1>2, <1>10, UntornLog DEF fs, more

\* How many appends for an event fail.
Cost(write) == IF write[1] = "whole" THEN 0 ELSE IF write[2] = "whole" THEN 1 ELSE 2

\* However the appends for an event end, they lose it only if one of them fails, and
\* report it unless both do.
LEMMA EventLosses ==
  ASSUME NEW es \in Seq(Event), NEW lines \in Seq(Line), NEW n \in Nat,
         Losses(es, lines, n), NEW e \in Event, e \notin ToSet(es), NEW write \in Writes
  PROVE  Losses(Append(es, e), lines \o Appended(e, write), n + Cost(write))
<1> DEFINE fs == Append(es, e)
           b  == BusError(e.tag)
           m  == Cardinality(Missing(es, lines))
           d  == Dangling(lines)
           q  == Cardinality(Reported(lines))
<1>0. /\ m \in Nat /\ d \in {0, 1} /\ q \in Nat
      /\ m + d <= n /\ (Torn \notin ToSet(lines) => 2 * (m - q) <= n)
  <2>1. m \in Nat /\ q \in Nat
    BY CountsAreNumbers
  <2>2. d \in {0, 1}
    BY DEF Dangling
  <2> QED
    BY <2>1, <2>2 DEF Losses
<1>1. /\ e \in Line /\ b \in Line /\ Torn \in Line
      /\ b \in Others /\ Torn \in Others /\ b # Torn /\ b.tag = "bus:error"
      /\ Torn.tag # "bus:error"
  <2>1. e.tag \in EventTags
    BY DEF Event
  <2> QED
    BY <2>1, LinesDiffer DEF Line
<1>2. Holds(es, lines, m, d, q) /\ (Torn \notin ToSet(lines) => d = 0)
  BY <1>0, UntornLog DEF Losses, Holds
<1> HIDE DEF m, d, q, b
<1>3. ASSUME NEW more, NEW k, NEW l, NEW p, NEW c \in Nat,
             Holds(fs, more, k, l, p), k + l <= n + c,
             Torn \notin ToSet(more) => 2 * (k - p) <= n + c
      PROVE  Losses(fs, more, n + c)
  BY <1>3 DEF Losses, Holds
<1>4. CASE write = <<"whole">>
  <2>1. Appended(e, write) = <<e>> /\ Cost(write) = 0 /\ <<e>> \in Seq(Line)
    <3>1. Appended(e, write) = <<e>> \o <<>>
      BY <1>4 DEF Appended, Append1
    <3>2. <<e>> \in Seq(Line)
      BY <1>1
    <3> QED
      BY <1>4, <3>1, <3>2, ConcatEmptySeq DEF Cost
  <2>2. lines \o <<e>> = Append(lines, e)
    BY <1>1, AppendIsConcat
  <2>3. /\ Holds(fs, Append(lines, e), m + d, 0, q)
        /\ Torn \notin ToSet(Append(lines, e)) => Torn \notin ToSet(lines) /\ d = 0
    BY <1>2, LoggedEvent
  <2>4. /\ (m + d) + 0 <= n + 0
        /\ Torn \notin ToSet(Append(lines, e)) => 2 * ((m + d) - q) <= n + 0
    BY <1>0, <2>3
  <2>5. Losses(fs, Append(lines, e), n + 0)
    <3> HIDE DEF fs
    <3> QED
      BY <1>3, <2>3, <2>4
  <2> QED
    BY <2>1, <2>2, <2>5
<1>5. Holds(fs, lines, m + 1, d, q)
  BY <1>2, UnloggedEvent
<1> HIDE DEF fs
<1> DEFINE torn == Append(lines, Torn)
           told == Append(lines, b)
<1>6. /\ Holds(fs, torn, m + 1, 1, q) /\ Torn \in ToSet(torn) /\ torn \in Seq(Line)
      /\ lines \o <<Torn>> = torn
  <2>1. Holds(fs, torn, m + 1, IF Torn = Torn THEN 1 ELSE 0,
              IF Torn.tag = "bus:error" /\ d = 0 THEN q + 1 ELSE q)
    BY <1>1, <1>5, OtherLine
  <2>2. Torn \in ToSet(torn)
    BY <1>1, <1>5, OtherLine
  <2> QED
    BY <1>1, <2>1, <2>2, AppendIsConcat DEF Holds
<1>7. /\ Holds(fs, told, m + 1, 0, IF d = 0 THEN q + 1 ELSE q)
      /\ Torn \notin ToSet(told) => Torn \notin ToSet(lines)
      /\ lines \o <<b>> = told
  <2>1. /\ Holds(fs, told, m + 1, IF b = Torn THEN 1 ELSE 0,
                 IF b.tag = "bus:error" /\ d = 0 THEN q + 1 ELSE q)
        /\ Torn \notin ToSet(told) => Torn \notin ToSet(lines)
    BY <1>1, <1>5, OtherLine
  <2> QED
    BY <1>1, <2>1, AppendIsConcat
<1>8. /\ Holds(fs, Append(torn, b), m + 1, 0, q) /\ Torn \in ToSet(Append(torn, b))
      /\ torn \o <<b>> = Append(torn, b)
  <2>1. /\ Holds(fs, Append(torn, b), m + 1, IF b = Torn THEN 1 ELSE 0,
                 IF b.tag = "bus:error" /\ 1 = 0 THEN q + 1 ELSE q)
        /\ Torn \in ToSet(Append(torn, b))
    BY <1>1, <1>6, OtherLine
  <2> QED
    BY <1>1, <1>6, <2>1, AppendIsConcat
<1>9. /\ Holds(fs, Append(torn, Torn), m + 1, 1, q) /\ Torn \in ToSet(Append(torn, Torn))
      /\ torn \o <<Torn>> = Append(torn, Torn)
  <2>1. /\ Holds(fs, Append(torn, Torn), m + 1, IF Torn = Torn THEN 1 ELSE 0,
                 IF Torn.tag = "bus:error" /\ 1 = 0 THEN q + 1 ELSE q)
        /\ Torn \in ToSet(Append(torn, Torn))
    BY <1>1, <1>6, OtherLine
  <2> QED
    BY <1>1, <1>6, <2>1, AppendIsConcat
<1>10. \A x, y \in Line : /\ <<x>> \o <<y>> \in Seq(Line) /\ <<x>> \in Seq(Line)
                          /\ lines \o (<<x>> \o <<y>>) = (lines \o <<x>>) \o <<y>>
  <2> TAKE x \in Line, y \in Line
  <2>1. <<x>> \in Seq(Line) /\ <<y>> \in Seq(Line)
    OBVIOUS
  <2> QED
    BY <2>1, ConcatProperties, ConcatAssociative
<1>11. \A x \in Line : <<x>> \o <<>> = <<x>> /\ <<>> \o <<x>> = <<x>>
  <2> TAKE x \in Line
  <2>1. <<x>> \in Seq(Line)
    OBVIOUS
  <2> QED
    BY <2>1, ConcatEmptySeq
<1>12. lines \o <<>> = lines /\ <<>> \o <<>> = <<>> /\ <<>> \in Seq(Line)
  BY ConcatEmptySeq
<1> HIDE DEF torn, told
<1>13. CASE write = <<"nothing", "whole">>
  <2>1. Appended(e, write) = <<>> \o <<b>> /\ Cost(write) = 1
    BY <1>13 DEF Appended, Append1, Cost, b
  <2>2. Appended(e, write) \in Seq(Line) /\ lines \o Appended(e, write) = told
    BY <1>1, <1>6, <1>7, <1>8, <1>9, <1>10, <1>11, <1>12, <2>1
  <2>3. Losses(fs, told, n + 1)
    <3>1. /\ (m + 1) + 0 <= n + 1
          /\ Torn \notin ToSet(told) => 2 * ((m + 1) - (IF d = 0 THEN q + 1 ELSE q)) <= n + 1
      BY <1>0, <1>2, <1>7
    <3> QED
      BY <1>3, <1>7, <3>1
  <2> QED
    BY <2>1, <2>2, <2>3 DEF fs
<1>14. CASE write = <<"nothing", "nothing">>
  <2>1. Appended(e, write) = <<>> \o <<>> /\ Cost(write) = 2
    BY <1>14 DEF Appended, Append1, Cost, b
  <2>2. Appended(e, write) \in Seq(Line) /\ lines \o Appended(e, write) = lines
    BY <1>1, <1>6, <1>7, <1>8, <1>9, <1>10, <1>11, <1>12, <2>1
  <2>3. Losses(fs, lines, n + 2)
    <3>1. /\ (m + 1) + d <= n + 2
          /\ Torn \notin ToSet(lines) => 2 * ((m + 1) - q) <= n + 2
      BY <1>0, <1>2, <1>5
    <3> QED
      BY <1>3, <1>5, <3>1
  <2> QED
    BY <2>1, <2>2, <2>3 DEF fs
<1>15. CASE write = <<"nothing", "part">>
  <2>1. Appended(e, write) = <<>> \o <<Torn>> /\ Cost(write) = 2
    BY <1>15 DEF Appended, Append1, Cost, b
  <2>2. Appended(e, write) \in Seq(Line) /\ lines \o Appended(e, write) = torn
    BY <1>1, <1>6, <1>7, <1>8, <1>9, <1>10, <1>11, <1>12, <2>1
  <2>3. Losses(fs, torn, n + 2)
    <3>1. /\ (m + 1) + 1 <= n + 2
          /\ Torn \notin ToSet(torn) => 2 * ((m + 1) - q) <= n + 2
      BY <1>0, <1>2, <1>6
    <3> QED
      BY <1>3, <1>6, <3>1
  <2> QED
    BY <2>1, <2>2, <2>3 DEF fs
<1>16. CASE write = <<"part", "whole">>
  <2>1. Appended(e, write) = <<Torn>> \o <<b>> /\ Cost(write) = 1
    BY <1>16 DEF Appended, Append1, Cost, b
  <2>2. Appended(e, write) \in Seq(Line) /\ lines \o Appended(e, write) = Append(torn, b)
    BY <1>1, <1>6, <1>7, <1>8, <1>9, <1>10, <1>11, <1>12, <2>1
  <2>3. Losses(fs, Append(torn, b), n + 1)
    <3>1. /\ (m + 1) + 0 <= n + 1
          /\ Torn \notin ToSet(Append(torn, b)) => 2 * ((m + 1) - q) <= n + 1
      BY <1>0, <1>2, <1>8
    <3> QED
      BY <1>3, <1>8, <3>1
  <2> QED
    BY <2>1, <2>2, <2>3 DEF fs
<1>17. CASE write = <<"part", "nothing">>
  <2>1. Appended(e, write) = <<Torn>> \o <<>> /\ Cost(write) = 2
    BY <1>17 DEF Appended, Append1, Cost, b
  <2>2. Appended(e, write) \in Seq(Line) /\ lines \o Appended(e, write) = torn
    BY <1>1, <1>6, <1>7, <1>8, <1>9, <1>10, <1>11, <1>12, <2>1
  <2>3. Losses(fs, torn, n + 2)
    <3>1. /\ (m + 1) + 1 <= n + 2
          /\ Torn \notin ToSet(torn) => 2 * ((m + 1) - q) <= n + 2
      BY <1>0, <1>2, <1>6
    <3> QED
      BY <1>3, <1>6, <3>1
  <2> QED
    BY <2>1, <2>2, <2>3 DEF fs
<1>18. CASE write = <<"part", "part">>
  <2>1. Appended(e, write) = <<Torn>> \o <<Torn>> /\ Cost(write) = 2
    BY <1>18 DEF Appended, Append1, Cost, b
  <2>2. Appended(e, write) \in Seq(Line) /\ lines \o Appended(e, write) = Append(torn, Torn)
    BY <1>1, <1>6, <1>7, <1>8, <1>9, <1>10, <1>11, <1>12, <2>1
  <2>3. Losses(fs, Append(torn, Torn), n + 2)
    <3>1. /\ (m + 1) + 1 <= n + 2
          /\ Torn \notin ToSet(Append(torn, Torn)) => 2 * ((m + 1) - q) <= n + 2
      BY <1>0, <1>2, <1>9
    <3> QED
      BY <1>3, <1>9, <3>1
  <2> QED
    BY <2>1, <2>2, <2>3 DEF fs
<1> QED
  BY <1>4, <1>13, <1>14, <1>15, <1>16, <1>17, <1>18 DEF Writes

\* What is appended are lines.
LEMMA AppendedLines ==
  ASSUME NEW e \in Event, NEW write \in Writes
  PROVE  Appended(e, write) \in Seq(Line)
<1>1. e \in Line /\ BusError(e.tag) \in Line /\ Torn \in Line
  BY LinesDiffer DEF Line
<1>2. \A x \in Line, how \in {"whole", "nothing", "part"} : Append1(x, how) \in Seq(Line)
  BY <1>1 DEF Append1
<1>3. /\ write[1] \in {"whole", "nothing", "part"}
      /\ Len(write) # 1 => write[2] \in {"whole", "nothing", "part"}
  BY DEF Writes
<1>4. <<>> \in Seq(Line)
  OBVIOUS
<1> QED
  BY <1>1, <1>2, <1>3, <1>4, ConcatProperties DEF Appended

\* A sequence up to a place, and one place further.
LEMMA OnePlaceFurther ==
  ASSUME NEW X, NEW s \in Seq(X), NEW n \in 0..(Len(s) - 1)
  PROVE  /\ SubSeq(s, 1, n) \in Seq(X) /\ s[n + 1] \in X
         /\ SubSeq(s, 1, n + 1) = Append(SubSeq(s, 1, n), s[n + 1])
         /\ \A x \in ToSet(SubSeq(s, 1, n)) : \E i \in 1..n : x = s[i]
<1>1. /\ Len(s) \in Nat /\ n \in Nat /\ n + 1 \in 1..Len(s) /\ 1 \in 1..Len(s)
      /\ (n + 1) - 1 = n /\ n + 1 \in 1..Len(s)
      /\ \A i \in 1..n : i \in 1..Len(s) /\ s[i] \in X
  <2>1. Len(s) \in Nat /\ \A i \in 1..Len(s) : s[i] \in X
    BY LenProperties, ElementOfSeq
  <2> QED
    BY <2>1
<1>2. /\ SubSeq(s, 1, n) \in Seq(X) /\ Len(SubSeq(s, 1, n)) = n
      /\ \A i \in 1..n : SubSeq(s, 1, n)[i] = s[i]
  BY <1>1, SubSeqProperties
<1>3. s[n + 1] \in X
  BY <1>1, ElementOfSeq
<1>4. SubSeq(s, 1, n + 1) = SubSeq(s, 1, n) \o <<s[n + 1]>>
  BY <1>1, SubSeqRecursiveSecond
<1>5. SubSeq(s, 1, n) \o <<s[n + 1]>> = Append(SubSeq(s, 1, n), s[n + 1])
  BY <1>2, <1>3, AppendIsConcat
<1>6. DOMAIN SubSeq(s, 1, n) = 1..n
  BY <1>2, LenProperties
<1> QED
  BY <1>2, <1>3, <1>4, <1>5, <1>6 DEF ToSet

\* The appends that fail for the first k events.
FailingTo(w, k) == {p \in Failing(w) : p[1] <= k}

\* One event more costs what its own appends cost.
LEMMA FailuresOfEvent ==
  ASSUME NEW n \in Nat, NEW w \in [1..n -> Writes]
  PROVE  /\ \A k \in 0..n : Cardinality(FailingTo(w, k)) \in Nat
         /\ FailingTo(w, 0) = {} /\ FailingTo(w, n) = Failing(w)
         /\ \A k \in 0..(n - 1) :
              Cardinality(FailingTo(w, k + 1)) = Cardinality(FailingTo(w, k)) + Cost(w[k + 1])
<1>1. IsFiniteSet((1..n) \X {1, 2})
  <2>1. IsFiniteSet(1..n)
    BY FS_Interval
  <2>2. IsFiniteSet(1..2)
    <3>1. 1 \in Int /\ 2 \in Int
      OBVIOUS
    <3> QED
      BY <3>1, FS_Interval
  <2>3. {1, 2} = 1..2
    OBVIOUS
  <2> QED
    BY <2>1, <2>2, <2>3, FS_Product
<1>2. ASSUME NEW k \in 0..n
      PROVE  IsFiniteSet(FailingTo(w, k)) /\ Cardinality(FailingTo(w, k)) \in Nat
  <2>1. FailingTo(w, k) \in SUBSET ((1..n) \X {1, 2})
    BY DEF FailingTo, Failing
  <2> QED
    BY <1>1, <2>1, FS_Subset, FS_CardinalityType
<1>3. \A p \in Failing(w) : p = <<p[1], p[2]>> /\ p[1] \in 1..n /\ p[2] \in {1, 2}
  BY DEF Failing
<1>4. FailingTo(w, 0) = {} /\ FailingTo(w, n) = Failing(w)
  BY <1>3 DEF FailingTo
<1>5. ASSUME NEW k \in 0..(n - 1)
      PROVE  Cardinality(FailingTo(w, k + 1)) = Cardinality(FailingTo(w, k)) + Cost(w[k + 1])
  <2> DEFINE T == FailingTo(w, k)
             a == <<k + 1, 1>>
             c == <<k + 1, 2>>
             U == FailingTo(w, k + 1)
  <2>1. /\ k + 1 \in 1..n /\ k \in 0..n /\ w[k + 1] \in Writes
        /\ IsFiniteSet(T) /\ Cardinality(T) \in Nat
    BY <1>2
  <2>2. a \notin T /\ c \notin T /\ a # c
    BY <2>1 DEF FailingTo
  <2>3. \A p : p \in U <=> p \in T \/ (p \in Failing(w) /\ p[1] = k + 1)
    BY <1>3, <2>1 DEF FailingTo
  <2>4. /\ a \in Failing(w) <=> w[k + 1][1] # "whole"
        /\ c \in Failing(w) <=> w[k + 1][1] # "whole" /\ w[k + 1][2] # "whole"
    <3>1. \/ DOMAIN w[k + 1] = {1} /\ w[k + 1][1] = "whole"
          \/ DOMAIN w[k + 1] = {1, 2} /\ w[k + 1][1] # "whole"
      BY <2>1 DEF Writes
    <3> QED
      BY <2>1, <3>1 DEF Failing
  <2>5. \A p \in Failing(w) : p[1] = k + 1 => p \in {a, c}
    BY <1>3
  <2>6. a[1] = k + 1 /\ c[1] = k + 1
    OBVIOUS
  <2> HIDE DEF T, U, a, c
  <2>7. CASE w[k + 1][1] = "whole"
    <3>1. U = T
      BY <2>3, <2>4, <2>5, <2>7
    <3> QED
      BY <2>1, <2>7, <3>1 DEF Cost, T, U
  <2>8. CASE w[k + 1][1] # "whole" /\ w[k + 1][2] = "whole"
    <3>1. U = T \cup {a}
      BY <2>3, <2>4, <2>5, <2>6, <2>8
    <3>2. Cardinality(T \cup {a}) = Cardinality(T) + 1
      BY <2>1, <2>2, FS_AddElement
    <3>3. Cost(w[k + 1]) = 1
      BY <2>8 DEF Cost
    <3> QED
      BY <2>1, <3>1, <3>2, <3>3 DEF T, U
  <2>9. CASE w[k + 1][1] # "whole" /\ w[k + 1][2] # "whole"
    <3>1. U = (T \cup {a}) \cup {c} /\ c \notin T \cup {a}
      BY <2>2, <2>3, <2>4, <2>5, <2>6, <2>9
    <3>2. IsFiniteSet(T \cup {a}) /\ Cardinality(T \cup {a}) = Cardinality(T) + 1
      BY <2>1, <2>2, FS_AddElement
    <3>3. Cardinality((T \cup {a}) \cup {c}) = Cardinality(T \cup {a}) + 1
      BY <3>1, <3>2, FS_AddElement
    <3>4. Cost(w[k + 1]) = 2
      BY <2>9 DEF Cost
    <3>5. Cardinality(U) = Cardinality(T) + 2
      BY <2>1, <3>1, <3>2, <3>3
    <3> QED
      BY <3>4, <3>5 DEF T, U
  <2> QED
    BY <2>7, <2>8, <2>9
<1> QED
  BY <1>2, <1>4, <1>5

\* The events es and those of a step behind them are fs; New are those of the step.
Grown(es, fs) ==
  /\ es \in Seq(Event) /\ fs \in Seq(Event) /\ Len(es) <= Len(fs)
  /\ \A i \in 1..Len(es) : fs[i] = es[i]
New(es, fs)     == SubSeq(fs, Len(es) + 1, Len(fs))
UpTo(es, fs, k) == SubSeq(fs, 1, Len(es) + k)

\* They come one after the other.
LEMMA OneByOne ==
  ASSUME NEW es, NEW fs, Grown(es, fs), NEW N, N = Len(fs) - Len(es)
  PROVE  /\ N \in Nat /\ New(es, fs) \in [1..N -> Event]
         /\ UpTo(es, fs, 0) = es /\ UpTo(es, fs, N) = fs
         /\ \A k \in 0..(N - 1) :
              LET e == New(es, fs)[k + 1]
              IN /\ UpTo(es, fs, k) \in Seq(Event) /\ e \in Event
                 /\ UpTo(es, fs, k + 1) = Append(UpTo(es, fs, k), e)
                 /\ NoneTwice(fs) => e \notin ToSet(UpTo(es, fs, k))
                 /\ e = fs[Len(es) + (k + 1)] /\ Len(UpTo(es, fs, k)) = Len(es) + k
                 /\ \A i \in 1..(Len(es) + k) : UpTo(es, fs, k)[i] = fs[i]
<1>0. /\ es \in Seq(Event) /\ fs \in Seq(Event) /\ Len(es) <= Len(fs)
      /\ \A i \in 1..Len(es) : fs[i] = es[i]
  BY DEF Grown
<1>1. /\ N \in Nat /\ Len(es) \in Nat /\ Len(fs) \in Nat /\ N = Len(fs) - Len(es)
      /\ DOMAIN fs = 1..Len(fs) /\ Len(es) + N = Len(fs)
  BY <1>0, LenProperties
<1>2. \A i \in 1..Len(fs) : fs[i] \in Event
  BY <1>0, <1>1, ElementOfSeq
<1>3. UpTo(es, fs, 0) = es
  <2>1. Len(es) + 0 = Len(es) /\ \A i \in 1..Len(es) : fs[i] \in Event
    BY <1>1, <1>2
  <2>2. /\ SubSeq(fs, 1, Len(es)) \in Seq(Event) /\ Len(SubSeq(fs, 1, Len(es))) = Len(es)
        /\ \A i \in 1..Len(es) : SubSeq(fs, 1, Len(es))[i] = fs[i]
    BY <1>1, <2>1, SubSeqProperties
  <2>3. SubSeq(fs, 1, Len(es)) = es
    BY <1>0, <2>2, SeqEqual
  <2> QED
    BY <2>1, <2>3 DEF UpTo
<1>4. UpTo(es, fs, N) = fs
  BY <1>0, <1>1, SubSeqFull DEF UpTo
<1>5. /\ New(es, fs) \in [1..N -> Event]
      /\ \A k \in 1..N : New(es, fs)[k] = fs[Len(es) + k]
  <2>1. \A i \in (Len(es) + 1)..Len(fs) : fs[i] \in Event
    BY <1>1, <1>2
  <2>2. /\ Len(es) + 1 \in Int /\ Len(fs) \in Int
        /\ Len(fs) - (Len(es) + 1) + 1 = N
        /\ (IF Len(es) + 1 <= Len(fs) THEN N ELSE 0) = N
        /\ \A k \in 1..N : Len(es) + 1 + k - 1 = Len(es) + k
    BY <1>0, <1>1
  <2>3. /\ New(es, fs) \in Seq(Event) /\ Len(New(es, fs)) = N
        /\ \A k \in 1..N : New(es, fs)[k] = fs[Len(es) + k]
    BY <2>1, <2>2, SubSeqProperties DEF New
  <2>4. DOMAIN New(es, fs) = 1..N /\ \A k \in 1..N : New(es, fs)[k] \in Event
    BY <2>3, LenProperties, ElementOfSeq
  <2> QED
    BY <2>3, <2>4
<1>6. ASSUME NEW k \in 0..(N - 1)
      PROVE  LET e == New(es, fs)[k + 1]
             IN /\ UpTo(es, fs, k) \in Seq(Event) /\ e \in Event
                /\ UpTo(es, fs, k + 1) = Append(UpTo(es, fs, k), e)
                /\ NoneTwice(fs) => e \notin ToSet(UpTo(es, fs, k))
                /\ e = fs[Len(es) + (k + 1)] /\ Len(UpTo(es, fs, k)) = Len(es) + k
                /\ \A i \in 1..(Len(es) + k) : UpTo(es, fs, k)[i] = fs[i]
  <2> DEFINE m == Len(es) + k
  <2>1. /\ m \in 0..(Len(fs) - 1) /\ m + 1 = Len(es) + (k + 1) /\ k + 1 \in 1..N
        /\ m + 1 \in 1..Len(fs) /\ m \in Nat
        /\ \A i \in 1..m : i \in 1..Len(fs) /\ i # m + 1
    BY <1>1
  <2> HIDE DEF m
  <2>2. /\ SubSeq(fs, 1, m) \in Seq(Event) /\ fs[m + 1] \in Event
        /\ SubSeq(fs, 1, m + 1) = Append(SubSeq(fs, 1, m), fs[m + 1])
        /\ \A x \in ToSet(SubSeq(fs, 1, m)) : \E i \in 1..m : x = fs[i]
    BY <1>0, <2>1, OnePlaceFurther
  <2>3. New(es, fs)[k + 1] = fs[m + 1]
    BY <1>5, <2>1
  <2>4. NoneTwice(fs) => fs[m + 1] \notin ToSet(SubSeq(fs, 1, m))
    BY <1>1, <2>1, <2>2 DEF NoneTwice
  <2>5. /\ Len(SubSeq(fs, 1, m)) = m
        /\ \A i \in 1..m : SubSeq(fs, 1, m)[i] = fs[i]
    <3>1. \A i \in 1..m : fs[i] \in Event
      BY <1>2, <2>1
    <3> QED
      BY <2>1, <3>1, SubSeqProperties
  <2> QED
    BY <2>1, <2>2, <2>3, <2>4, <2>5 DEF UpTo, m
<1> QED
  BY <1>1, <1>3, <1>4, <1>5, <1>6

\* However the appends for the events of a step end, the log loses as many of them
\* as appends fail, or less.
LEMMA LossesOfStep ==
  ASSUME NEW es, NEW fs, Grown(es, fs), NoneTwice(fs),
         NEW lines \in Seq(Line), NEW n \in Nat, Losses(es, lines, n),
         NEW w \in [DOMAIN New(es, fs) -> Writes],
         NEW more, more = lines \o FlattenSeq([i \in DOMAIN w |-> Appended(New(es, fs)[i], w[i])])
  PROVE  /\ more \in Seq(Line) /\ Cardinality(Failing(w)) \in Nat
         /\ Losses(fs, more, n + Cardinality(Failing(w)))
<1> DEFINE N    == Len(fs) - Len(es)
           seqs == [i \in 1..N |-> Appended(New(es, fs)[i], w[i])]
           Fail(k) == Cardinality(FailingTo(w, k))
<1>1. /\ N \in Nat /\ New(es, fs) \in [1..N -> Event]
      /\ UpTo(es, fs, 0) = es /\ UpTo(es, fs, N) = fs
      /\ \A k \in 0..(N - 1) :
           LET e == New(es, fs)[k + 1]
           IN /\ UpTo(es, fs, k) \in Seq(Event) /\ e \in Event
              /\ UpTo(es, fs, k + 1) = Append(UpTo(es, fs, k), e)
              /\ e \notin ToSet(UpTo(es, fs, k))
  BY OneByOne
<1> HIDE DEF N
<1>2. w \in [1..N -> Writes] /\ DOMAIN w = 1..N
  BY <1>1
<1>3. seqs \in [1..N -> Seq(Line)]
  BY <1>1, <1>2, AppendedLines
<1>4. more = lines \o FlattenSeq(seqs)
  BY <1>2
<1>5. \A k \in 0..(N - 1) : seqs[k + 1] = Appended(New(es, fs)[k + 1], w[k + 1])
  BY <1>1
<1> HIDE DEF seqs
<1>6. PICK F \in [0..N -> Seq(Line)] :
        /\ F[0] = <<>>
        /\ \A k \in 0..(N - 1) : F[k + 1] = F[k] \o seqs[k + 1]
        /\ F[N] = FlattenSeq(seqs)
  BY <1>1, <1>3, FlattenByPrefix
<1>7. /\ \A k \in 0..N : Fail(k) \in Nat
      /\ Fail(0) = 0 /\ Fail(N) = Cardinality(Failing(w))
      /\ \A k \in 0..(N - 1) : Fail(k + 1) = Fail(k) + Cost(w[k + 1])
  BY <1>1, <1>2, FailuresOfEvent, FS_EmptySet
<1> HIDE DEF Fail
<1> DEFINE S == {k \in 0..N : Losses(UpTo(es, fs, k), lines \o F[k], n + Fail(k))}
<1>8. 0 \in S
  <2>1. lines \o F[0] = lines /\ n + Fail(0) = n /\ 0 \in 0..N
    BY <1>1, <1>6, <1>7, ConcatEmptySeq
  <2> QED
    BY <1>1, <2>1
<1>9. ASSUME NEW k \in 0..(N - 1), k \in S PROVE k + 1 \in S
  <2> DEFINE e  == New(es, fs)[k + 1]
             ls == lines \o F[k]
             c  == n + Fail(k)
  <2>1. k + 1 \in 0..N /\ k + 1 \in 1..N /\ k \in 0..N
    BY <1>1
  <2>2. /\ e \in Event /\ UpTo(es, fs, k) \in Seq(Event) /\ e \notin ToSet(UpTo(es, fs, k))
        /\ UpTo(es, fs, k + 1) = Append(UpTo(es, fs, k), e)
    BY <1>1
  <2>3. /\ F[k] \in Seq(Line) /\ ls \in Seq(Line) /\ seqs[k + 1] \in Seq(Line)
        /\ w[k + 1] \in Writes
    BY <1>2, <1>3, <1>6, <2>1, ConcatProperties
  <2>4. c \in Nat /\ n + Fail(k + 1) = c + Cost(w[k + 1])
    <3>1. Fail(k) \in Nat /\ Fail(k + 1) = Fail(k) + Cost(w[k + 1]) /\ Cost(w[k + 1]) \in Nat
      BY <1>7, <2>1 DEF Cost
    <3> QED
      BY <3>1
  <2>5. lines \o F[k + 1] = ls \o Appended(e, w[k + 1])
    <3>1. F[k + 1] = F[k] \o seqs[k + 1] /\ seqs[k + 1] = Appended(e, w[k + 1])
      BY <1>5, <1>6
    <3>2. \A s, t, u \in Seq(Line) : (s \o t) \o u = s \o (t \o u)
      BY ConcatAssociative
    <3>3. F[k] \in Seq(Line) /\ seqs[k + 1] \in Seq(Line)
      BY <2>3
    <3>4. (lines \o F[k]) \o seqs[k + 1] = lines \o (F[k] \o seqs[k + 1])
      BY <3>2, <3>3, Zenon
    <3> QED
      BY <3>1, <3>4
  <2>6. Losses(UpTo(es, fs, k), ls, c)
    BY <1>9
  <2> HIDE DEF e, ls, c
  <2>7. Losses(Append(UpTo(es, fs, k), e), ls \o Appended(e, w[k + 1]), c + Cost(w[k + 1]))
    BY <2>2, <2>3, <2>4, <2>6, EventLosses
  <2> QED
    BY <2>1, <2>2, <2>4, <2>5, <2>7
<1> HIDE DEF S
<1>10. N \in S
  <2>1. \A k \in 0..N : k \in S
    BY <1>1, <1>8, <1>9, InductionTo
  <2> QED
    BY <1>1, <2>1
<1>11. F[N] \in Seq(Line) /\ lines \o F[N] \in Seq(Line)
  <2>1. F[N] \in Seq(Line)
    BY <1>1, <1>6
  <2> QED
    BY <2>1, ConcatProperties
<1>12. Fail(N) \in Nat
  BY <1>1, <1>7
<1> QED
  BY <1>1, <1>4, <1>6, <1>7, <1>10, <1>11, <1>12 DEF S

-----------------------------------------------------------------------------
(* What one event does to the screen                                       *)

\* A line the renderer prints.
Shown ==
  [tag : {"call", "result", "rehydrated", "answer"}, run : Runs,
   data : EventData \cup {d[1] : d \in EventData}]

\* Only the start of a call prints one, and its end the result of one.
LEMMA RenderedLines ==
  ASSUME NEW e \in Event
  PROVE  /\ Rendered(e) \in Seq(Shown)
         /\ e.tag = "tool:start" => Rendered(e) = <<Ev("call", e.run, e.data)>>
         /\ e.tag \in {"tool:end", "tool:error"} => Rendered(e) = <<Ev("result", e.run, e.data[1])>>
         /\ e.tag # "tool:start" =>
              \A i \in 1..Len(Rendered(e)) : Rendered(e)[i].tag # "call"
<1>1. e.run \in Runs /\ e.data \in EventData
  BY DEF Event
<1>2. /\ Ev("call", e.run, e.data) \in Shown /\ Ev("result", e.run, e.data[1]) \in Shown
      /\ Ev("rehydrated", e.run, e.data[1]) \in Shown /\ Ev("answer", e.run, e.data[1]) \in Shown
  BY <1>1 DEF Shown, Ev
<1>3. \A x \in Shown : <<x>> \in Seq(Shown)
  OBVIOUS
<1>4. <<>> \in Seq(Shown)
  OBVIOUS
<1>5. CASE e.tag = "tool:start"
  BY <1>2, <1>3, <1>5 DEF Rendered
<1>6. CASE e.tag \in {"tool:end", "tool:error"}
  <2>1. Rendered(e) = <<Ev("result", e.run, e.data[1])>>
    BY <1>6 DEF Rendered
  <2> QED
    BY <1>2, <1>3, <1>6, <2>1 DEF Ev
<1>7. CASE e.tag = "provider:response"
  <2> DEFINE x == Ev("rehydrated", e.run, e.data[1])
             y == Ev("answer", e.run, e.data[1])
             s == IF e.data[3] THEN <<x>> ELSE <<>>
             t == IF e.data[2] # "null" THEN <<y>> ELSE <<>>
  <2>1. Rendered(e) = s \o t
    BY <1>7 DEF Rendered
  <2>2. /\ x.tag # "call" /\ y.tag # "call" /\ x \in Shown /\ y \in Shown
    BY <1>2 DEF Ev
  <2> HIDE DEF x, y
  <2>3. /\ s \in Seq(Shown) /\ \A i \in 1..Len(s) : s[i].tag # "call"
        /\ t \in Seq(Shown) /\ \A i \in 1..Len(t) : t[i].tag # "call"
    BY <1>3, <1>4, <2>2
  <2> HIDE DEF s, t
  <2>4. /\ s \o t \in Seq(Shown) /\ Len(s \o t) = Len(s) + Len(t)
        /\ \A i \in 1..(Len(s) + Len(t)) :
             (s \o t)[i] = IF i <= Len(s) THEN s[i] ELSE t[i - Len(s)]
        /\ Len(s) \in Nat /\ Len(t) \in Nat
    BY <2>3, ConcatProperties, LenProperties
  <2>5. ASSUME NEW i \in 1..Len(s \o t) PROVE (s \o t)[i].tag # "call"
    <3>1. CASE i <= Len(s)
      BY <2>3, <2>4, <3>1
    <3>2. CASE i > Len(s)
      <4>1. i - Len(s) \in 1..Len(t) /\ ~(i <= Len(s)) /\ i \in 1..(Len(s) + Len(t))
        BY <2>4, <3>2
      <4> QED
        BY <2>3, <2>4, <4>1
    <3> QED
      BY <2>4, <3>1, <3>2
  <2> QED
    BY <1>7, <2>1, <2>4, <2>5
<1>8. CASE e.tag \notin {"tool:start", "tool:end", "tool:error", "provider:response"}
  BY <1>4, <1>8 DEF Rendered
<1> QED
  BY <1>5, <1>6, <1>7, <1>8

\* The end of a call is printed behind its start.
LEMMA PrintedEvent ==
  ASSUME NEW es \in Seq(Event), NEW e \in Event, NEW lines \in Seq(Shown), Printed(es, lines),
         es # <<>> /\ Last(es).tag = "tool:start" =>
           /\ e.tag \in {"tool:end", "tool:error"}
           /\ e.run = Last(es).run /\ e.data[1] = Last(es).data
  PROVE  Printed(Append(es, e), lines \o Rendered(e))
<1> DEFINE fs   == Append(es, e)
           part == Rendered(e)
           more == lines \o part
           n    == Len(lines)
<1>1. /\ part \in Seq(Shown)
      /\ e.tag = "tool:start" => part = <<Ev("call", e.run, e.data)>>
      /\ e.tag \in {"tool:end", "tool:error"} => part = <<Ev("result", e.run, e.data[1])>>
      /\ e.tag # "tool:start" => \A i \in 1..Len(part) : part[i].tag # "call"
  BY RenderedLines
<1> HIDE DEF part
<1>2. /\ Len(more) = n + Len(part) /\ n \in Nat /\ Len(part) \in Nat
      /\ DOMAIN more = 1..(n + Len(part)) /\ DOMAIN lines = 1..n
      /\ \A i \in 1..(n + Len(part)) : more[i] = IF i <= n THEN lines[i] ELSE part[i - n]
  BY <1>1, ConcatProperties, LenProperties
<1>3. fs # <<>> /\ Last(fs) = e
  <2>1. fs # <<>> /\ Len(fs) = Len(es) + 1 /\ fs[Len(es) + 1] = e
    BY AppendProperties
  <2> QED
    BY <2>1 DEF Last
<1> HIDE DEF more, n, fs
<1>4. ASSUME NEW i \in DOMAIN more, more[i].tag = "call"
      PROVE  IF i < Len(more) THEN more[i + 1] = Ev("result", more[i].run, more[i].data)
             ELSE /\ fs # <<>> /\ Last(fs).tag = "tool:start"
                  /\ more[i] = Ev("call", Last(fs).run, Last(fs).data)
  <2>1. CASE i < n
    <3>1. /\ i \in 1..n /\ i + 1 \in 1..(n + Len(part)) /\ i <= n /\ i + 1 <= n
          /\ i \in 1..(n + Len(part)) /\ i < Len(more)
      BY <1>2, <2>1
    <3>2. more[i] = lines[i] /\ more[i + 1] = lines[i + 1]
      BY <1>2, <3>1
    <3>3. lines[i + 1] = Ev("result", lines[i].run, lines[i].data)
      BY <1>2, <1>4, <2>1, <3>1, <3>2 DEF Printed, n
    <3> QED
      BY <3>1, <3>2, <3>3
  <2>2. CASE i = n
    <3>1. n \in 1..n /\ n <= n /\ n \in 1..(n + Len(part)) /\ ~(n < n)
      BY <1>2, <2>2
    <3>2. more[n] = lines[n]
      BY <1>2, <3>1
    <3>3. /\ es # <<>> /\ Last(es).tag = "tool:start"
          /\ lines[n] = Ev("call", Last(es).run, Last(es).data)
      BY <1>2, <1>4, <2>2, <3>1, <3>2 DEF Printed, n
    <3>4. part = <<Ev("result", e.run, e.data[1])>> /\ e.run = Last(es).run /\ e.data[1] = Last(es).data
      BY <1>1, <3>3
    <3>5. lines[n].run = e.run /\ lines[n].data = e.data[1]
      BY <3>3, <3>4 DEF Ev
    <3>6. /\ Len(part) = 1 /\ n + 1 \in 1..(n + Len(part)) /\ (n + 1) - n = 1 /\ ~(n + 1 <= n)
          /\ n < Len(more)
      BY <1>2, <3>4
    <3>7. more[n + 1] = part[1] /\ part[1] = Ev("result", e.run, e.data[1])
      BY <1>2, <3>4, <3>6
    <3> QED
      BY <2>2, <3>2, <3>5, <3>6, <3>7
  <2>3. CASE i > n
    <3>1. i - n \in 1..Len(part) /\ ~(i <= n) /\ i \in 1..(n + Len(part))
      BY <1>2, <2>3
    <3>2. more[i] = part[i - n]
      BY <1>2, <3>1
    <3>3. e.tag = "tool:start" /\ part = <<Ev("call", e.run, e.data)>>
      BY <1>1, <1>4, <3>1, <3>2
    <3>4. i - n = 1 /\ Len(part) = 1
      BY <3>1, <3>3
    <3>5. more[i] = Ev("call", e.run, e.data) /\ ~(i < Len(more))
      BY <1>2, <3>1, <3>2, <3>3, <3>4
    <3> QED
      BY <1>3, <3>3, <3>5
  <2> QED
    BY <1>2, <2>1, <2>2, <2>3
<1>5. Printed(fs, more)
  BY <1>4 DEF Printed
<1> QED
  BY <1>5 DEF fs, more, part

\* With one run on the bus, what comes behind the start of a call is its end.
LEMMA InTurn ==
  ASSUME NEW fs \in Seq(Event), Grammatical(fs), NEW i \in 1..(Len(fs) - 1),
         fs[i].tag = "tool:start"
  PROVE  /\ fs[i + 1].tag \in {"tool:end", "tool:error"}
         /\ fs[i + 1].run = fs[i].run /\ fs[i + 1].data[1] = fs[i].data
<1>1. /\ Len(fs) \in Nat /\ i + 1 \in 1..Len(fs) /\ i \in 1..Len(fs) /\ i + 1 \in Nat
      /\ DOMAIN fs = 1..Len(fs) /\ 1 \in 1..((i + 1) - 1) /\ 1 \in 1..Len(fs)
  <2>1. Len(fs) \in Nat /\ DOMAIN fs = 1..Len(fs)
    BY LenProperties
  <2> QED
    BY <2>1
<1>2. \A j \in 1..Len(fs) : fs[j].run = 1
  <2>1. Runs = {1}
    BY CliAssumption DEF Runs
  <2> QED
    BY <2>1, EventsHaveRuns
<1>3. PICK j \in 1..((i + 1) - 1) : GoesWith(fs, j, i + 1)
  <2>1. InPlace(fs, i + 1)
    BY <1>1 DEF Grammatical
  <2>2. ~ \A k \in 1..((i + 1) - 1) : fs[k].run # fs[i + 1].run
    BY <1>1, <1>2
  <2> QED
    BY <1>1, <2>1, <2>2, InPlaceIs
<1>4. j = i
  <2> SUFFICES ASSUME j # i PROVE FALSE
    OBVIOUS
  <2>1. i \in (j + 1)..((i + 1) - 1)
    BY <1>1, <1>3
  <2>2. fs[i].run # fs[i + 1].run
    BY <1>3, <2>1 DEF GoesWith, ComesBefore
  <2> QED
    BY <1>1, <1>2, <2>2
<1>5. <<fs[i].tag, fs[i + 1].tag>> \in Follows
  BY <1>3, <1>4 DEF GoesWith
<1>6. fs[i + 1].tag \in {"tool:end", "tool:error"}
  BY <1>5 DEF Follows
<1>7. fs[i + 1].data[1] = fs[i].data /\ fs[i].run = fs[i + 1].run
  BY <1>3, <1>4, <1>6 DEF GoesWith, ComesBefore
<1> QED
  BY <1>6, <1>7

\* So after a step, every call on the screen but a last one has its result.
LEMMA PrintedStep ==
  ASSUME NEW es, NEW fs, Grown(es, fs), Grammatical(fs),
         NEW lines \in Seq(Shown), Printed(es, lines),
         NEW more,
         more = lines \o FlattenSeq([i \in DOMAIN New(es, fs) |-> Rendered(New(es, fs)[i])])
  PROVE  more \in Seq(Shown) /\ Printed(fs, more)
<1> DEFINE N    == Len(fs) - Len(es)
           seqs == [i \in 1..N |-> Rendered(New(es, fs)[i])]
<1>0. /\ fs \in Seq(Event) /\ Len(fs) \in Nat /\ Len(es) \in Nat
  BY LenProperties DEF Grown
<1>1. /\ N \in Nat /\ New(es, fs) \in [1..N -> Event]
      /\ UpTo(es, fs, 0) = es /\ UpTo(es, fs, N) = fs
      /\ \A k \in 0..(N - 1) :
           LET e == New(es, fs)[k + 1]
           IN /\ UpTo(es, fs, k) \in Seq(Event) /\ e \in Event
              /\ UpTo(es, fs, k + 1) = Append(UpTo(es, fs, k), e)
              /\ e = fs[Len(es) + (k + 1)] /\ Len(UpTo(es, fs, k)) = Len(es) + k
              /\ \A i \in 1..(Len(es) + k) : UpTo(es, fs, k)[i] = fs[i]
  BY OneByOne
<1>2. seqs \in [1..N -> Seq(Shown)]
  BY <1>1, RenderedLines
<1>3. more = lines \o FlattenSeq(seqs)
  BY <1>1
<1>4. \A k \in 0..(N - 1) : seqs[k + 1] = Rendered(New(es, fs)[k + 1])
  BY <1>1
<1> HIDE DEF seqs
<1>5. PICK F \in [0..N -> Seq(Shown)] :
        /\ F[0] = <<>>
        /\ \A k \in 0..(N - 1) : F[k + 1] = F[k] \o seqs[k + 1]
        /\ F[N] = FlattenSeq(seqs)
  <2> HIDE DEF N
  <2> QED
    BY <1>1, <1>2, FlattenByPrefix
<1> DEFINE S == {k \in 0..N : Printed(UpTo(es, fs, k), lines \o F[k])}
<1>6. 0 \in S
  <2>1. lines \o F[0] = lines /\ 0 \in 0..N
    BY <1>1, <1>5, ConcatEmptySeq
  <2> QED
    BY <1>1, <2>1
<1>7. ASSUME NEW k \in 0..(N - 1), k \in S PROVE k + 1 \in S
  <2> DEFINE e  == New(es, fs)[k + 1]
             ls == lines \o F[k]
             us == UpTo(es, fs, k)
  <2>1. k + 1 \in 0..N /\ k + 1 \in 1..N /\ k \in 0..N
    BY <1>1
  <2>2. /\ e \in Event /\ us \in Seq(Event)
        /\ UpTo(es, fs, k + 1) = Append(us, e)
        /\ e = fs[Len(es) + (k + 1)] /\ Len(us) = Len(es) + k
        /\ \A i \in 1..(Len(es) + k) : us[i] = fs[i]
    BY <1>1
  <2>3. F[k] \in Seq(Shown) /\ ls \in Seq(Shown) /\ seqs[k + 1] \in Seq(Shown)
    BY <1>2, <1>5, <2>1, ConcatProperties
  <2>4. lines \o F[k + 1] = ls \o Rendered(e)
    <3>1. F[k + 1] = F[k] \o seqs[k + 1] /\ seqs[k + 1] = Rendered(e)
      BY <1>4, <1>5
    <3>2. \A s, t, u \in Seq(Shown) : (s \o t) \o u = s \o (t \o u)
      BY ConcatAssociative
    <3>3. F[k] \in Seq(Shown) /\ seqs[k + 1] \in Seq(Shown)
      BY <2>3
    <3>4. (lines \o F[k]) \o seqs[k + 1] = lines \o (F[k] \o seqs[k + 1])
      BY <3>2, <3>3, Zenon
    <3> QED
      BY <3>1, <3>4
  <2>5. Printed(us, ls)
    BY <1>7
  <2>6. ASSUME us # <<>>, Last(us).tag = "tool:start"
        PROVE  /\ e.tag \in {"tool:end", "tool:error"}
               /\ e.run = Last(us).run /\ e.data[1] = Last(us).data
    <3> DEFINE i == Len(es) + k
    <3>1. Len(us) \in Nat /\ Len(us) # 0
      <4> HIDE DEF us
      <4> QED
        BY <2>2, <2>6, EmptySeq, LenProperties
    <3>2. i \in 1..(Len(fs) - 1) /\ i + 1 = Len(es) + (k + 1) /\ i \in 1..(Len(es) + k)
      BY <1>0, <1>1, <2>2, <3>1
    <3>3. Last(us) = fs[i] /\ e = fs[i + 1]
      BY <2>2, <3>2 DEF Last
    <3> HIDE DEF i, us, e
    <3> QED
      BY <1>0, <2>6, <3>2, <3>3, InTurn
  <2> HIDE DEF e, ls, us
  <2>7. Printed(Append(us, e), ls \o Rendered(e))
    BY <2>2, <2>3, <2>5, <2>6, PrintedEvent
  <2> QED
    BY <2>1, <2>2, <2>4, <2>7
<1> HIDE DEF S, N
<1>8. N \in S
  <2>1. \A k \in 0..N : k \in S
    BY <1>1, <1>6, <1>7, InductionTo
  <2> QED
    BY <1>1, <2>1
<1>9. lines \o F[N] \in Seq(Shown)
  <2>1. F[N] \in Seq(Shown)
    BY <1>1, <1>5
  <2> QED
    BY <2>1, ConcatProperties
<1> QED
  BY <1>1, <1>3, <1>5, <1>8, <1>9 DEF S

-----------------------------------------------------------------------------
(* main()                                                                  *)

\* What the inductive invariants say, with what they need of the types.
CliAll ==
  /\ LoopInv /\ PastInv /\ CliInv /\ PromptInv
  /\ log \in Seq(Line) /\ faults \in Nat /\ shown \in Seq(Shown)

\* The command is invoked, and nothing has happened.
LEMMA CliInitAll == CliInit => CliAll
<1> SUFFICES ASSUME CliInit PROVE CliAll
  OBVIOUS
<1>1. /\ Init /\ stage = "argv" /\ cwd = "." /\ system = <<>> /\ subs = {} /\ log = <<>>
      /\ faults = 0 /\ shown = <<>> /\ exit = "none"
  BY DEF CliInit
<1>2. LoopInv /\ PastInv
  BY <1>1, LoopInvInit, InitPast
<1>3. pc[1] = "idle" /\ events = <<>>
  <2>1. 1 \in Runs
    BY CliAssumption DEF Runs
  <2> QED
    BY <1>1, <2>1 DEF Init
<1>4. StageInv
  BY <1>1, <1>3 DEF StageInv, Early
<1>5. Printed(events, shown)
  BY <1>1 DEF Printed
<1>6. CliInv
  BY <1>1, <1>3, <1>4, <1>5 DEF CliInv
<1>7. PromptInv
  BY <1>1, <1>3 DEF PromptInv
<1>8. log \in Seq(Line) /\ shown \in Seq(Shown) /\ faults \in Nat
  BY <1>1
<1> QED
  BY <1>2, <1>6, <1>7, <1>8 DEF CliAll

\* A stage of main() that touches neither the run nor the log nor the screen.
LEMMA StageKeeps ==
  ASSUME CliAll, UNCHANGED <<loopVars, log, faults, shown>>, StageInv', PromptInv',
         stage' = "run" => stage = "run"
  PROVE  CliAll'
<1>1. LoopInv' /\ PastInv'
  <2>1. [Next]_loopVars
    OBVIOUS
  <2> QED
    BY <2>1, LoopInvNext, NextPast DEF CliAll
<1>2. /\ pc' = pc /\ events' = events /\ log' = log /\ faults' = faults /\ shown' = shown
  BY DEF loopVars
<1>3. CliInv'
  BY <1>2 DEF CliAll, CliInv
<1> QED
  BY <1>1, <1>2, <1>3 DEF CliAll

\* Reading the arguments moves nothing.
LEMMA ReadArgumentsKeeps ==
  ASSUME CliAll, ReadArguments
  PROVE  CliAll'
<1>1. /\ stage = "argv" /\ UNCHANGED <<loopVars, readable, cwd, system, subs, log, faults, shown>>
      /\ \/ stage' = "over" /\ exit' = "1"
         \/ stage' = "prompt" /\ exit' = exit
  BY DEF ReadArguments, Ends
<1>2. /\ pc' = pc /\ events' = events /\ log' = log /\ shown' = shown /\ cwd' = cwd
      /\ system' = system /\ subs' = subs
  BY <1>1 DEF loopVars
<1>3. /\ pc[1] = "idle" /\ events = <<>> /\ log = <<>> /\ shown = <<>> /\ subs = {}
      /\ exit = "none" /\ cwd = "." /\ system = <<>>
  BY <1>1 DEF CliAll, CliInv, StageInv, PromptInv, Early
<1>4. StageInv'
  BY <1>1, <1>2, <1>3 DEF StageInv, Early
<1>5. PromptInv'
  BY <1>1, <1>2, <1>3 DEF PromptInv
<1> QED
  BY <1>1, <1>2, <1>4, <1>5, StageKeeps

\* The prompt is read from the directory the command was invoked in.
LEMMA LoadSystemPromptKeeps ==
  ASSUME CliAll, LoadSystemPrompt
  PROVE  CliAll'
<1>1. /\ stage = "prompt" /\ UNCHANGED <<loopVars, readable, args, cwd, subs, log, faults, shown>>
      /\ \/ /\ args.promptFile = "null" /\ system' = Default
            /\ stage' = "cwd" /\ exit' = exit
         \/ /\ args.promptFile # "null" /\ system' = <<cwd, args.promptFile>>
            /\ stage' = "cwd" /\ exit' = exit
         \/ stage' = "over" /\ exit' = "1" /\ system' = system
  BY DEF LoadSystemPrompt, Ends, PromptPath
<1>2. /\ pc' = pc /\ events' = events /\ log' = log /\ shown' = shown /\ cwd' = cwd
      /\ subs' = subs /\ args' = args
  BY <1>1 DEF loopVars
<1>3. /\ pc[1] = "idle" /\ events = <<>> /\ log = <<>> /\ shown = <<>> /\ subs = {}
      /\ exit = "none" /\ cwd = "." /\ system = <<>>
  BY <1>1 DEF CliAll, CliInv, StageInv, PromptInv, Early
<1>4. StageInv'
  BY <1>1, <1>2, <1>3 DEF StageInv, Early
<1>5. PromptInv'
  BY <1>1, <1>2, <1>3 DEF PromptInv
<1> QED
  BY <1>1, <1>2, <1>4, <1>5, StageKeeps

\* Then the command moves to where it works.
LEMMA ChangeDirectoryKeeps ==
  ASSUME CliAll, ChangeDirectory
  PROVE  CliAll'
<1>1. /\ stage = "cwd" /\ UNCHANGED <<loopVars, readable, args, system, subs, log, faults, shown>>
      /\ \/ stage' = "session" /\ exit' = exit
         \/ stage' = "over" /\ exit' = "1" /\ cwd' = cwd
  BY DEF ChangeDirectory, Ends
<1>2. /\ pc' = pc /\ events' = events /\ log' = log /\ shown' = shown
      /\ subs' = subs /\ args' = args /\ system' = system
  BY <1>1 DEF loopVars
<1>3. /\ pc[1] = "idle" /\ events = <<>> /\ log = <<>> /\ shown = <<>> /\ subs = {}
      /\ exit = "none" /\ cwd = "."
      /\ system = IF args.promptFile = "null" THEN Default ELSE <<".", args.promptFile>>
  BY <1>1 DEF CliAll, CliInv, StageInv, PromptInv, Early
<1>4. StageInv'
  BY <1>1, <1>2, <1>3 DEF StageInv, Early
<1>5. PromptInv'
  BY <1>1, <1>2, <1>3 DEF PromptInv
<1> QED
  BY <1>1, <1>2, <1>4, <1>5, StageKeeps

\* A header is a log of no events that has lost none.
LEMMA HeaderLosses ==
  ASSUME NEW n \in Nat
  PROVE  Losses(<<>>, <<Header>>, n)
<1> DEFINE lines == <<Header>>
<1>1. /\ Header \in Line /\ Header # Torn
      /\ lines \in Seq(Line) /\ lines # <<>> /\ DOMAIN lines = {1} /\ lines[1] = Header
      /\ Last(lines) = Header /\ <<>> \in Seq(Event)
  <2>1. Header \in Line /\ Header # Torn
    BY LinesDiffer DEF Line
  <2> QED
    BY <2>1 DEF Last
<1> HIDE DEF lines
<1>2. Dangling(lines) = 0
  BY <1>1 DEF Dangling
<1>3. Missing(<<>>, lines) = {} /\ Cardinality(Missing(<<>>, lines)) = 0
  <2>1. Missing(<<>>, lines) = {}
    BY DEF Missing
  <2> QED
    BY <2>1, FS_EmptySet
<1>4. Cardinality(Reported(lines)) \in Nat
  BY <1>1, CountsAreNumbers
<1>5. InOrder(<<>>, lines)
  BY DEF InOrder
<1>6. \A i \in DOMAIN lines : IsOther(lines[i])
  BY <1>1 DEF IsOther
<1>7. Losses(<<>>, lines, n)
  BY <1>1, <1>2, <1>3, <1>4, <1>5, <1>6 DEF Losses
<1> QED
  BY <1>7 DEF lines

\* The log begins with its header, or the command is over.
LEMMA OpenSessionKeeps ==
  ASSUME CliAll, OpenSession
  PROVE  CliAll'
<1>1. /\ stage = "session" /\ UNCHANGED <<loopVars, readable, args, cwd, system, faults, shown>>
      /\ \/ /\ log' = <<Header>> /\ subs' = {"log", "render"}
            /\ stage' = "run" /\ exit' = exit
         \/ /\ log' \in {<<>>, <<Torn>>} /\ subs' = subs
            /\ stage' = "over" /\ exit' = "threw"
  BY DEF OpenSession, Ends
<1>2. /\ pc' = pc /\ events' = events /\ shown' = shown /\ faults' = faults /\ cwd' = cwd
      /\ args' = args /\ system' = system
  BY <1>1 DEF loopVars
<1>3. /\ pc[1] = "idle" /\ events = <<>> /\ log = <<>> /\ shown = <<>> /\ subs = {}
      /\ exit = "none" /\ faults \in Nat
      /\ system = IF args.promptFile = "null" THEN Default ELSE <<".", args.promptFile>>
  BY <1>1 DEF CliAll, CliInv, StageInv, PromptInv, Early
<1>4. LoopInv' /\ PastInv'
  <2>1. [Next]_loopVars
    BY <1>1
  <2> QED
    BY <2>1, LoopInvNext, NextPast DEF CliAll
<1>5. StageInv'
  BY <1>1, <1>2, <1>3 DEF StageInv, Early
<1>6. PromptInv'
  BY <1>1, <1>2, <1>3 DEF PromptInv
<1>7. Printed(events', shown')
  BY <1>2, <1>3 DEF Printed
<1>8. stage' = "run" => Losses(events', log', faults')
  BY <1>1, <1>2, <1>3, HeaderLosses
<1>9. CliInv'
  BY <1>2, <1>3, <1>5, <1>7, <1>8 DEF CliInv
<1>10. log' \in Seq(Line)
  <2>1. Header \in Line /\ Torn \in Line
    BY LinesDiffer DEF Line
  <2>2. <<>> \in Seq(Line) /\ <<Header>> \in Seq(Line) /\ <<Torn>> \in Seq(Line)
    BY <2>1
  <2> QED
    BY <1>1, <2>2
<1>11. faults' \in Nat /\ shown' \in Seq(Shown)
  BY <1>2 DEF CliAll
<1> QED
  BY <1>4, <1>6, <1>9, <1>10, <1>11 DEF CliAll

\* main() returns what has become of the run.
LEMMA ReturnKeeps ==
  ASSUME CliAll, Return
  PROVE  CliAll'
<1>1. /\ stage = "run" /\ pc[1] \in Settled
      /\ stage' = "over" /\ exit' = (IF pc[1] = "done" THEN "0" ELSE "1") /\ subs' = {}
      /\ UNCHANGED <<loopVars, readable, args, cwd, system, log, faults, shown>>
  BY DEF Return, Ends
<1>2. /\ pc' = pc /\ events' = events /\ log' = log /\ shown' = shown /\ cwd' = cwd
      /\ args' = args /\ system' = system
  BY <1>1 DEF loopVars
<1>3. /\ pc[1] = "idle" <=> events = <<>>
      /\ pc[1] \in {"done", "failed"}
  BY <1>1 DEF CliAll, CliInv, StageInv, Settled
<1>4. StageInv'
  BY <1>1, <1>2, <1>3 DEF StageInv, Early
<1>5. PromptInv'
  BY <1>1, <1>2, <1>3 DEF CliAll, PromptInv
<1> QED
  BY <1>1, <1>2, <1>4, <1>5, StageKeeps

\* A step of the run, with the handlers called as it emits.
LEMMA RunKeeps ==
  ASSUME CliAll, Run
  PROVE  CliAll'
<1>1. /\ stage = "run" /\ (StartRun(1) \/ Resume(1)) /\ LogNewEvents /\ RenderNewEvents
      /\ UNCHANGED <<stage, readable, args, cwd, system, subs, exit>>
  BY DEF Run
<1>2. 1 \in Runs
  BY CliAssumption DEF Runs
<1>3. /\ LoopInv /\ PastInv /\ LoopTypes /\ TypeOK /\ StageInv
      /\ subs = {"log", "render"} /\ exit = "none"
      /\ Losses(events, log, faults) /\ Printed(events, shown)
      /\ log \in Seq(Line) /\ faults \in Nat /\ shown \in Seq(Shown)
  BY <1>1 DEF CliAll, CliInv, StageInv, LoopInv, LoopTypes
<1>4. LoopInv' /\ PastInv'
  <2>1. [Next]_loopVars
    BY <1>1, <1>2 DEF Next
  <2> QED
    BY <1>3, <2>1, LoopInvNext, NextPast
<1>5. /\ Emits(events, events', 1) /\ Announced(1)
      /\ pc'[1] \in {"provider", "tool"} \cup Settled
      /\ pc[1] = "idle" => pc'[1] \in {"provider", "done"}
      /\ pc[1] = "tool" => Len(events) < Len(events')
  <2>1. CASE StartRun(1)
    BY <1>2, <1>3, <2>1, StartRunEmits, StartRunShape DEF Settled
  <2>2. CASE Resume(1)
    <3>1. pc[1] = "tool" => \E res \in ToolResults : ToolSettles(1, res)
      BY <2>2 DEF Resume, ProviderThrows, ProviderReturnsNoMessage, ProviderReplies
    <3>2. pc[1] = "tool" => Len(events) < Len(events')
      BY <1>2, <1>3, <3>1, ToolEmits
    <3> QED
      BY <1>2, <1>3, <2>2, <3>2, ResumeShape
  <2> QED
    BY <1>1, <2>1, <2>2
<1>6. /\ Grown(events, events') /\ Len(events) \in Nat /\ Len(events') \in Nat
      /\ events \in Seq(Event) /\ events' \in Seq(Event)
      /\ DOMAIN events = 1..Len(events) /\ DOMAIN events' = 1..Len(events')
  BY <1>3, <1>5, LenProperties DEF Emits, Grown, LoopTypes
<1>7. pc'[1] # "idle" /\ events' # <<>>
  <2>1. pc'[1] # "idle"
    BY <1>5 DEF Settled
  <2>2. CASE pc[1] # "idle"
    <3>1. events # <<>>
      BY <1>3, <2>2 DEF StageInv
    <3>2. Len(events) # 0
      BY <1>6, <3>1, EmptySeq
    <3>3. Len(events') # 0
      BY <1>5, <1>6, <3>2 DEF Emits
    <3> QED
      BY <2>1, <3>3
  <2>3. CASE pc[1] = "idle"
    <3>1. DOMAIN events' # {}
      <4>1. CASE pc'[1] = "provider"
        BY <1>2, <1>4, <4>1 DEF LoopInv, GrammarInv, Fits
      <4>2. CASE pc'[1] = "done"
        BY <1>2, <1>4, <4>2 DEF PastInv
      <4> QED
        BY <1>5, <2>3, <4>1, <4>2
    <3> QED
      BY <2>1, <3>1
  <2> QED
    BY <2>2, <2>3
<1>8. Grammatical(events') /\ NoneTwice(events')
  BY <1>4 DEF LoopInv, GrammarInv, EventGrammar, PastInv
<1>9. NewEvents = New(events, events')
  BY DEF NewEvents, New
<1>10. /\ log' \in Seq(Line) /\ faults' \in Nat /\ Losses(events', log', faults')
  <2>1. PICK w \in [DOMAIN New(events, events') -> Writes] :
          /\ faults' = faults + Cardinality(Failing(w))
          /\ log' = log \o FlattenSeq([i \in DOMAIN w |-> Appended(New(events, events')[i], w[i])])
    BY <1>1, <1>3, <1>9 DEF LogNewEvents
  <2>2. /\ Grown(events, events') /\ NoneTwice(events') /\ Losses(events, log, faults)
        /\ log \in Seq(Line) /\ faults \in Nat
        /\ w \in [DOMAIN New(events, events') -> Writes]
        /\ log' = log \o FlattenSeq([i \in DOMAIN w |-> Appended(New(events, events')[i], w[i])])
    BY <1>3, <1>6, <1>8, <2>1
  <2>3. /\ log' \in Seq(Line) /\ Cardinality(Failing(w)) \in Nat
        /\ Losses(events', log', faults + Cardinality(Failing(w)))
    BY <2>2, LossesOfStep
  <2> QED
    BY <1>3, <2>1, <2>3
<1>11. shown' \in Seq(Shown) /\ Printed(events', shown')
  <2>1. shown' = shown \o FlattenSeq([i \in DOMAIN New(events, events') |->
                                        Rendered(New(events, events')[i])])
    BY <1>1, <1>3, <1>9 DEF RenderNewEvents
  <2> QED
    BY <1>3, <1>6, <1>8, <2>1, PrintedStep
<1>12. Last(events').tag = "tool:start" => pc'[1] = "tool"
  <2> SUFFICES ASSUME Last(events').tag = "tool:start" PROVE pc'[1] = "tool"
    OBVIOUS
  <2>1. Last(events') = events'[Len(events')] /\ Len(events') # 0
    BY <1>6, <1>7, EmptySeq DEF Last
  <2>2. CASE Len(events) < Len(events')
    <3>1. Len(events') \in (Len(events) + 1)..Len(events')
      BY <1>6, <2>2
    <3> QED
      BY <1>5, <2>1, <3>1 DEF Announced
  <2>3. CASE ~(Len(events) < Len(events'))
    <3>1. Len(events) = Len(events')
      <4>1. Len(events) <= Len(events') /\ Len(events) \in Nat /\ Len(events') \in Nat
        BY <1>6 DEF Grown
      <4>2. \A a, b \in Nat : a <= b /\ ~(a < b) => a = b
        OBVIOUS
      <4> QED
        BY <2>3, <4>1, <4>2, Zenon
    <3>2. events # <<>> /\ Last(events) = Last(events')
      <4>1. Len(events) \in 1..Len(events)
        BY <1>6, <2>1, <3>1
      <4>2. events[Len(events)] = events'[Len(events)]
        BY <1>6, <4>1 DEF Grown
      <4> QED
        BY <1>6, <2>1, <3>1, <4>2 DEF Last
    <3>3. pc[1] = "tool"
      BY <3>2 DEF CliAll, CliInv
    <3> QED
      BY <1>5, <2>3, <3>3
  <2> QED
    BY <2>2, <2>3
<1>13. StageInv'
  BY <1>1, <1>3, <1>7 DEF StageInv, Early
<1>14. CliInv'
  BY <1>10, <1>11, <1>12, <1>13 DEF CliInv
<1>15. PromptInv'
  BY <1>1, <1>3 DEF CliAll, PromptInv
<1> QED
  BY <1>4, <1>10, <1>11, <1>14, <1>15 DEF CliAll

\* Every step of the command keeps the invariants.
LEMMA CliNextAll == CliAll /\ [CliNext]_allVars => CliAll'
<1> SUFFICES ASSUME CliAll, [CliNext]_allVars PROVE CliAll'
  OBVIOUS
<1>1. CASE UNCHANGED allVars
  <2>1. UNCHANGED <<loopVars, log, faults, shown>> /\ UNCHANGED cliVars
    BY <1>1 DEF allVars, cliVars
  <2>2. pc' = pc /\ events' = events
    BY <2>1 DEF loopVars
  <2>3. StageInv' /\ PromptInv'
    BY <2>1, <2>2 DEF CliAll, CliInv, StageInv, PromptInv, cliVars
  <2>4. stage' = stage
    BY <2>1 DEF cliVars
  <2> QED
    BY <2>1, <2>3, <2>4, StageKeeps
<1> QED
  BY <1>1, ReadArgumentsKeeps, LoadSystemPromptKeeps, ChangeDirectoryKeeps, OpenSessionKeeps,
     RunKeeps, ReturnKeeps DEF CliNext

\* Whatever the run has met with, the code main() returns tells how it ended, and
\* each call on the screen has its result behind it (main.ts, render.ts).
THEOREM ExitCodeIsHonestAlways == CliSpec => []ExitCodeIsHonest
<1>1. CliAll => ExitCodeIsHonest
  <2> SUFFICES ASSUME CliAll, stage = "over" PROVE ExitCodeIsHonest
    BY DEF ExitCodeIsHonest
  <2>1. /\ subs = {} /\ exit \in {"0", "1", "threw"}
        /\ exit = "0" => pc[1] = "done"
        /\ exit = "1" => pc[1] = "failed" \/ (pc[1] = "idle" /\ log = <<>>)
        /\ exit = "threw" => pc[1] = "idle" /\ log \in {<<>>, <<Torn>>}
        /\ pc[1] = "idle" <=> events = <<>>
    BY DEF CliAll, CliInv, StageInv
  <2>2. Runs = {1} /\ DOMAIN events = 1..Len(events)
        /\ \A i \in DOMAIN events : events[i].run = 1
    <3>1. Runs = {1}
      BY CliAssumption DEF Runs
    <3>2. events \in Seq(Event) /\ DOMAIN events = 1..Len(events)
      BY LenProperties DEF CliAll, LoopInv, LoopTypes
    <3> QED
      BY <3>1, <3>2, EventsHaveRuns
  <2>3. pc[1] = "done" <=> "session:end" \in Tags(events)
    <3>1. ASSUME pc[1] = "done" PROVE "session:end" \in Tags(events)
      BY <2>2, <3>1 DEF CliAll, PastInv, Tags
    <3>2. ASSUME NEW i \in DOMAIN events, events[i].tag = "session:end" PROVE pc[1] = "done"
      <4>1. IsPast(events[i], pc[1], at[1], calls[1], Len(messages))
        BY <2>2 DEF CliAll, PastInv
      <4> QED
        BY <3>2, <4>1 DEF IsPast
    <3> QED
      BY <3>1, <3>2 DEF Tags
  <2>4. exit = "threw" => Header \notin ToSet(log)
    <3>1. Header # Torn
      BY LinesDiffer
    <3> QED
      BY <2>1, <3>1 DEF ToSet
  <2>5. ASSUME NEW i \in DOMAIN shown, shown[i].tag = "call"
        PROVE  i < Len(shown) /\ shown[i + 1] = Ev("result", shown[i].run, shown[i].data)
    <3>1. ~(events # <<>> /\ Last(events).tag = "tool:start")
      BY <2>1 DEF CliAll, CliInv
    <3> QED
      BY <2>5, <3>1 DEF CliAll, CliInv, Printed
  <2> QED
    BY <2>1, <2>3, <2>4, <2>5 DEF ExitCodeIsHonest
<1> QED
  BY <1>1, CliInitAll, CliNextAll, PTL DEF CliSpec

\* However many appends fail, and how, a log with its header has lost no more events
\* than that, and has the others in their order (log.ts).
THEOREM LossesAreBoundedAlways == CliSpec => []LossesAreBounded
<1>1. CliAll => LossesAreBounded
  <2> SUFFICES ASSUME CliAll, log # <<>>, log[1] = Header PROVE LossesAreBounded
    BY DEF LossesAreBounded
  <2>1. Header # Torn
    BY LinesDiffer
  <2>2. stage = "run" \/ pc[1] # "idle"
    BY <2>1 DEF CliAll, CliInv, StageInv
  <2>3. Losses(events, log, faults)
    BY <2>2 DEF CliAll, CliInv
  <2> DEFINE m == Cardinality(Missing(events, log))
             q == Cardinality(Reported(log))
  <2>4. m \in Nat /\ q \in Nat /\ faults \in Nat
    BY CountsAreNumbers DEF CliAll, LoopInv, LoopTypes
  <2>5. /\ InOrder(events, log) /\ m + Dangling(log) <= faults
        /\ Torn \notin ToSet(log) => 2 * (m - q) <= faults
    BY <2>3 DEF Losses
  <2>6. Dangling(log) \in {0, 1}
    BY DEF Dangling
  <2> HIDE DEF m, q
  <2>7. m <= faults /\ (Torn \notin ToSet(log) => m - q <= faults \div 2)
    BY <2>4, <2>5, <2>6
  <2> QED
    BY <2>5, <2>7 DEF LossesAreBounded, m, q
<1> QED
  BY <1>1, CliInitAll, CliNextAll, PTL DEF CliSpec

\* Wherever the command works, its prompt is the file of the directory it was invoked
\* in (main.ts, stages 3 and 4).
THEOREM PromptBindsAlways == CliSpec => []PromptBindsToInvocationDir
<1>1. CliAll => PromptBindsToInvocationDir
  <2> SUFFICES ASSUME CliAll PROVE PromptBindsToInvocationDir
    OBVIOUS
  <2>1. PromptInv /\ (pc[1] = "idle" <=> events = <<>>)
    BY DEF CliAll, CliInv, StageInv
  <2>2. Default # <<".", args.promptFile>>
    BY DEF Default
  <2> QED
    BY <2>1, <2>2 DEF PromptInv, PromptBindsToInvocationDir
<1> QED
  BY <1>1, CliInitAll, CliNextAll, PTL DEF CliSpec

-----------------------------------------------------------------------------
(* Replies: induction between any two numbers, and loops                   *)

\* What holds of m and of each number behind one of which it holds, up to n.
LEMMA InductionFrom ==
  ASSUME NEW m \in Int, NEW n \in Int, NEW S, m \in S,
         \A k \in (m + 1)..n : k - 1 \in S => k \in S
  PROVE  \A k \in m..n : k \in S
<1> SUFFICES ASSUME NEW k \in m..n PROVE k \in S
  OBVIOUS
<1> DEFINE U == {j \in Nat : m + j \in S}
<1>1. 0 \in U
  BY m + 0 = m
<1>2. ASSUME NEW j \in 0..((k - m) - 1), j \in U PROVE j + 1 \in U
  <2>1. m + j \in S /\ j \in Nat
    BY <1>2
  <2>2. m + (j + 1) \in (m + 1)..n /\ (m + (j + 1)) - 1 = m + j /\ j + 1 \in Nat
    BY <1>2
  <2>3. m + (j + 1) \in S
    BY <2>1, <2>2
  <2> QED
    BY <2>2, <2>3
<1>3. k - m \in Nat /\ k - m \in 0..(k - m) /\ m + (k - m) = k
  OBVIOUS
<1> HIDE DEF U
<1>4. k - m \in U
  BY <1>1, <1>2, <1>3, InductionTo
<1> QED
  BY <1>3, <1>4 DEF U

\* A function that starts with a value and goes on by a step.
GoesBy(f, D, d, m, n, step) ==
  /\ f \in [m..n -> D]
  /\ f[m] = d
  /\ \A k \in (m + 1)..n : f[k] = step[<<f[k - 1], k>>]

\* There is one.
LEMMA RecursionUpTo ==
  ASSUME NEW D, NEW d \in D, NEW m \in Int, NEW n \in Int, m <= n,
         NEW step \in [D \X ((m + 1)..n) -> D]
  PROVE  \E f : GoesBy(f, D, d, m, n, step)
<1> DEFINE Good(f, e) == /\ f \in [m..e -> D] /\ f[m] = d
                         /\ \A k \in (m + 1)..e : f[k] = step[<<f[k - 1], k>>]
           S == {e \in m..n : \E f : Good(f, e)}
<1>1. m \in S
  <2> DEFINE g == [k \in m..m |-> d]
  <2>1. m \in m..m /\ m \in m..n /\ (m + 1)..m = {}
    OBVIOUS
  <2>2. g \in [m..m -> D] /\ g[m] = d
    BY <2>1
  <2> HIDE DEF g
  <2>3. Good(g, m)
    BY <2>1, <2>2
  <2> QED
    BY <2>1, <2>3
<1>2. ASSUME NEW e \in (m + 1)..n, e - 1 \in S PROVE e \in S
  <2>1. PICK f : Good(f, e - 1)
    BY <1>2
  <2> DEFINE g == [k \in m..e |-> IF k = e THEN step[<<f[e - 1], e>>] ELSE f[k]]
  <2>2. /\ e - 1 \in m..(e - 1) /\ m \in m..(e - 1) /\ e # m /\ m \in m..e /\ e \in m..e
        /\ \A k \in m..e : k # e => k \in m..(e - 1)
        /\ \A k \in (m + 1)..e : k - 1 \in m..e /\ k - 1 # e /\ k \in m..e
        /\ \A k \in (m + 1)..e : k # e => k \in (m + 1)..(e - 1)
    OBVIOUS
  <2>3. /\ \A k \in m..e : k # e => g[k] = f[k]
        /\ g[e] = step[<<f[e - 1], e>>]
    BY <2>2
  <2>4. step[<<f[e - 1], e>>] \in D
    BY <2>1, <2>2
  <2>5. \A k \in m..e : g[k] \in D
    BY <2>1, <2>2, <2>3, <2>4
  <2>6. g \in [m..e -> D] /\ g[m] = d
    BY <2>1, <2>2, <2>3, <2>5
  <2> HIDE DEF g
  <2>7. ASSUME NEW k \in (m + 1)..e PROVE g[k] = step[<<g[k - 1], k>>]
    <3>1. g[k - 1] = f[k - 1]
      BY <2>2, <2>3
    <3>2. CASE k = e
      BY <2>3, <3>1, <3>2
    <3>3. CASE k # e
      BY <2>1, <2>2, <2>3, <3>1, <3>3
    <3> QED
      BY <3>2, <3>3
  <2>8. Good(g, e) /\ e \in m..n
    BY <2>6, <2>7
  <2> QED
    BY <2>8
<1> HIDE DEF S
<1>3. \A k \in m..n : k \in S
  BY <1>1, <1>2, InductionFrom
<1>4. n \in S
  BY <1>3
<1> QED
  BY <1>4 DEF S, GoesBy

-----------------------------------------------------------------------------
(* Replies: the loops                                                      *)

ScanStates == [depth : Int, inString : BOOLEAN, escape : BOOLEAN, end : Nat]
LexStates  == [depth : Int, inString : BOOLEAN, escape : BOOLEAN, ok : BOOLEAN, entries : Nat]

RehydrateStates ==
  [depth : Int, start : Nat, inString : BOOLEAN, escape : BOOLEAN, found : Seq(Nat \X Nat)]

\* The scanner of spans, turn by turn.
LEMMA ScanTurns ==
  ASSUME text \in Seq(Tokens), NEW i \in 1..Len(text)
  PROVE  /\ Scan(i) \in [(i - 1)..Len(text) -> ScanStates]
         /\ Scan(i)[i - 1] = [depth |-> 0, inString |-> FALSE, escape |-> FALSE, end |-> 0]
         /\ \A k \in i..Len(text) : Scan(i)[k] = ScanNext(Scan(i)[k - 1], k)
<1> DEFINE n == Len(text)
           m == i - 1
           d == [depth |-> 0, inString |-> FALSE, escape |-> FALSE, end |-> 0]
           Recurs(f) == f = [k \in m..n |-> IF k = m THEN d ELSE ScanNext(f[k - 1], k)]
           f == CHOOSE f : Recurs(f)
           S == {k \in m..n : f[k] \in ScanStates}
           step == [p \in ScanStates \X ((m + 1)..n) |-> ScanNext(p[1], p[2])]
<1>1. n \in Int /\ m \in Nat /\ m <= n /\ m + 1 = i
  OBVIOUS
<1>2. d \in ScanStates
  BY DEF ScanStates
<1>3. ASSUME NEW acc \in ScanStates, NEW k \in (m + 1)..n PROVE ScanNext(acc, k) \in ScanStates
  <2>1. /\ acc = [depth |-> acc.depth, inString |-> acc.inString, escape |-> acc.escape,
                   end |-> acc.end]
        /\ acc.depth \in Int /\ acc.inString \in BOOLEAN /\ acc.escape \in BOOLEAN
        /\ acc.end \in Nat /\ k \in Nat
    BY <1>1, <1>3 DEF ScanStates
  <2>2. CASE acc.end > 0
    BY <1>3, <2>2 DEF ScanNext
  <2>3. CASE ~(acc.end > 0) /\ acc.inString /\ acc.escape
    BY <2>1, <2>3 DEF ScanNext, ScanStates
  <2>4. CASE ~(acc.end > 0) /\ acc.inString /\ ~acc.escape
    <3>1. ScanNext(acc, k) = [acc EXCEPT !.escape = text[k] = "backslash",
                                         !.inString = text[k] # "quote"]
      BY <2>4 DEF ScanNext
    <3>2. (text[k] = "backslash") \in BOOLEAN /\ (text[k] # "quote") \in BOOLEAN
      OBVIOUS
    <3> QED
      BY <2>1, <3>1, <3>2 DEF ScanStates
  <2>5. CASE ~(acc.end > 0) /\ ~acc.inString
    <3>1. CASE text[k] = "quote"
      BY <2>1, <2>5, <3>1 DEF ScanNext, ScanStates
    <3>2. CASE text[k] = "open"
      BY <2>1, <2>5, <3>2 DEF ScanNext, ScanStates
    <3>3. CASE text[k] = "close"
      <4>1. ScanNext(acc, k) = [acc EXCEPT !.depth = acc.depth - 1,
                                           !.end = IF acc.depth = 1 THEN k ELSE 0]
        BY <2>5, <3>3 DEF ScanNext
      <4>2. acc.depth - 1 \in Int /\ (IF acc.depth = 1 THEN k ELSE 0) \in Nat
        BY <2>1
      <4> QED
        BY <2>1, <4>1, <4>2 DEF ScanStates
    <3>4. CASE text[k] \notin {"quote", "open", "close"}
      BY <1>3, <2>5, <3>4 DEF ScanNext
    <3> QED
      BY <3>1, <3>2, <3>3, <3>4
  <2> QED
    BY <2>1, <2>2, <2>3, <2>4, <2>5
<1>4. step \in [ScanStates \X ((m + 1)..n) -> ScanStates]
  BY <1>1, <1>3
<1>5. \A acc \in ScanStates, k \in (m + 1)..n : step[<<acc, k>>] = ScanNext(acc, k)
  BY <1>1
<1> HIDE DEF d, m, n, step
<1>6. \E g : Recurs(g)
  <2>0. PICK g : GoesBy(g, ScanStates, d, m, n, step)
    <3>1. n \in Int /\ m \in Int /\ m <= n
      BY <1>1
    <3> QED
      BY <3>1, <1>2, <1>4, RecursionUpTo
  <2>1. /\ g \in [m..n -> ScanStates] /\ g[m] = d
        /\ \A k \in (m + 1)..n : g[k] = step[<<g[k - 1], k>>]
    BY <2>0 DEF GoesBy
  <2>2. \A k \in m..n : k # m => k \in (m + 1)..n /\ k - 1 \in m..n
    BY <1>1
  <2>3. \A k \in m..n : k # m => g[k] = ScanNext(g[k - 1], k)
    BY <1>1, <1>5, <2>1, <2>2
  <2>4. Recurs(g)
    BY <2>1, <2>3
  <2> QED
    BY <2>4
<1>7. Recurs(f)
  BY <1>6
<1> HIDE DEF f
<1>8. /\ m \in m..n
      /\ \A k \in (m + 1)..n : k \in m..n /\ k - 1 \in m..n /\ k # m
  BY <1>1
<1>9. f[m] = d /\ \A k \in (m + 1)..n : f[k] = ScanNext(f[k - 1], k)
  BY <1>7, <1>8
<1>10. \A k \in m..n : k \in S
  <2>1. m \in S /\ \A k \in (m + 1)..n : k - 1 \in S => k \in S
    BY <1>2, <1>3, <1>8, <1>9
  <2> HIDE DEF S
  <2> QED
    BY <1>1, <2>1, InductionFrom
<1>11. f \in [m..n -> ScanStates]
  BY <1>7, <1>10
<1>12. f = Scan(i)
  BY DEF Scan, f, n, m, d
<1> QED
  BY <1>9, <1>11, <1>1, <1>12 DEF n, m, d

\* JSON.parse, character by character.
LEMMA LexTurns ==
  ASSUME text \in Seq(Tokens), NEW i \in 1..Len(text)
  PROVE  /\ Lexed(i) \in [(i - 1)..Len(text) -> LexStates]
         /\ Lexed(i)[i - 1] = [depth |-> 0, inString |-> FALSE, escape |-> FALSE,
                                ok |-> TRUE, entries |-> 0]
         /\ \A k \in i..Len(text) : Lexed(i)[k] = LexNext(Lexed(i)[k - 1], k)
<1> DEFINE n == Len(text)
           m == i - 1
           d == [depth |-> 0, inString |-> FALSE, escape |-> FALSE,
                 ok |-> TRUE, entries |-> 0]
           Recurs(f) == f = [k \in m..n |-> IF k = m THEN d ELSE LexNext(f[k - 1], k)]
           f == CHOOSE f : Recurs(f)
           S == {k \in m..n : f[k] \in LexStates}
           step == [p \in LexStates \X ((m + 1)..n) |-> LexNext(p[1], p[2])]
<1>1. n \in Int /\ m \in Nat /\ m <= n /\ m + 1 = i
  OBVIOUS
<1>2. d \in LexStates
  BY DEF LexStates
<1>3. ASSUME NEW acc \in LexStates, NEW k \in (m + 1)..n PROVE LexNext(acc, k) \in LexStates
  <2>1. /\ acc = [depth |-> acc.depth, inString |-> acc.inString, escape |-> acc.escape,
                   ok |-> acc.ok, entries |-> acc.entries]
        /\ acc.depth \in Int /\ acc.inString \in BOOLEAN /\ acc.escape \in BOOLEAN
        /\ acc.ok \in BOOLEAN /\ acc.entries \in Nat
    BY <1>3 DEF LexStates
  <2>2. text[k] \in Tokens
    BY <1>1
  <2>3. CASE acc.inString /\ acc.escape
    <3>1. LexNext(acc, k) = [acc EXCEPT !.escape = FALSE,
                                        !.ok = acc.ok /\ text[k] \in {"quote", "backslash"}]
      BY <2>3 DEF LexNext
    <3>2. (acc.ok /\ text[k] \in {"quote", "backslash"}) \in BOOLEAN
      OBVIOUS
    <3> QED
      BY <2>1, <3>1, <3>2 DEF LexStates
  <2>4. CASE acc.inString /\ ~acc.escape
    <3>1. LexNext(acc, k) = [acc EXCEPT !.escape = text[k] = "backslash",
                                        !.inString = text[k] # "quote"]
      BY <2>4 DEF LexNext
    <3>2. (text[k] = "backslash") \in BOOLEAN /\ (text[k] # "quote") \in BOOLEAN
      OBVIOUS
    <3> QED
      BY <2>1, <3>1, <3>2 DEF LexStates
  <2>5. CASE ~acc.inString
    <3>1. CASE text[k] \in {"word", "backslash"}
      BY <2>1, <2>5, <3>1 DEF LexNext, LexStates
    <3>2. CASE text[k] = "quote"
      BY <2>1, <2>5, <3>2 DEF LexNext, LexStates
    <3>3. CASE text[k] = "open"
      BY <2>1, <2>5, <3>3 DEF LexNext, LexStates
    <3>4. CASE text[k] = "close"
      BY <2>1, <2>5, <3>4 DEF LexNext, LexStates
    <3>5. CASE text[k] = "entry"
      <4>1. LexNext(acc, k) = [acc EXCEPT !.entries = IF acc.depth = 1 THEN acc.entries + 1
                                                      ELSE acc.entries]
        BY <2>5, <3>5 DEF LexNext
      <4>2. (IF acc.depth = 1 THEN acc.entries + 1 ELSE acc.entries) \in Nat
        BY <2>1
      <4> QED
        BY <2>1, <4>1, <4>2 DEF LexStates
    <3> QED
      BY <2>2, <3>1, <3>2, <3>3, <3>4, <3>5 DEF Tokens
  <2> QED
    BY <2>1, <2>3, <2>4, <2>5
<1>4. step \in [LexStates \X ((m + 1)..n) -> LexStates]
  BY <1>1, <1>3
<1>5. \A acc \in LexStates, k \in (m + 1)..n : step[<<acc, k>>] = LexNext(acc, k)
  BY <1>1
<1> HIDE DEF d, m, n, step
<1>6. \E g : Recurs(g)
  <2>0. PICK g : GoesBy(g, LexStates, d, m, n, step)
    <3>1. n \in Int /\ m \in Int /\ m <= n
      BY <1>1
    <3> QED
      BY <3>1, <1>2, <1>4, RecursionUpTo
  <2>1. /\ g \in [m..n -> LexStates] /\ g[m] = d
        /\ \A k \in (m + 1)..n : g[k] = step[<<g[k - 1], k>>]
    BY <2>0 DEF GoesBy
  <2>2. \A k \in m..n : k # m => k \in (m + 1)..n /\ k - 1 \in m..n
    BY <1>1
  <2>3. \A k \in m..n : k # m => g[k] = LexNext(g[k - 1], k)
    BY <1>1, <1>5, <2>1, <2>2
  <2>4. Recurs(g)
    BY <2>1, <2>3
  <2> QED
    BY <2>4
<1>7. Recurs(f)
  BY <1>6
<1> HIDE DEF f
<1>8. /\ m \in m..n
      /\ \A k \in (m + 1)..n : k \in m..n /\ k - 1 \in m..n /\ k # m
  BY <1>1
<1>9. f[m] = d /\ \A k \in (m + 1)..n : f[k] = LexNext(f[k - 1], k)
  BY <1>7, <1>8
<1>10. \A k \in m..n : k \in S
  <2>1. m \in S /\ \A k \in (m + 1)..n : k - 1 \in S => k \in S
    BY <1>2, <1>3, <1>8, <1>9
  <2> HIDE DEF S
  <2> QED
    BY <1>1, <2>1, InductionFrom
<1>11. f \in [m..n -> LexStates]
  BY <1>7, <1>10
<1>12. f = Lexed(i)
  BY DEF Lexed, f, n, m, d
<1> QED
  BY <1>9, <1>11, <1>1, <1>12 DEF n, m, d

\* The loop of extractJsonObjects, turn by turn.
LEMMA RehydrationTurns ==
  ASSUME text \in Seq(Tokens)
  PROVE  /\ Rehydration \in [0..Len(text) -> RehydrateStates]
         /\ Rehydration[0] = [depth |-> 0, start |-> 0, inString |-> FALSE, escape |-> FALSE,
                              found |-> <<>>]
         /\ \A k \in 1..Len(text) : Rehydration[k] = RehydrateNext(Rehydration[k - 1], k)
<1> DEFINE n == Len(text)
           m == 0
           d == [depth |-> 0, start |-> 0, inString |-> FALSE, escape |-> FALSE,
                 found |-> <<>>]
           Recurs(f) == f = [k \in m..n |-> IF k = m THEN d ELSE RehydrateNext(f[k - 1], k)]
           f == CHOOSE f : Recurs(f)
           S == {k \in m..n : f[k] \in RehydrateStates}
           step == [p \in RehydrateStates \X ((m + 1)..n) |-> RehydrateNext(p[1], p[2])]
<1>1. n \in Int /\ m \in Nat /\ m <= n /\ m + 1 = 1
  OBVIOUS
<1>2. d \in RehydrateStates
  <2>1. <<>> \in Seq(Nat \X Nat)
    OBVIOUS
  <2> QED
    BY <2>1 DEF RehydrateStates
<1>3. ASSUME NEW acc \in RehydrateStates, NEW k \in (m + 1)..n
      PROVE  RehydrateNext(acc, k) \in RehydrateStates
  <2>1. /\ acc = [depth |-> acc.depth, start |-> acc.start, inString |-> acc.inString,
                   escape |-> acc.escape, found |-> acc.found]
        /\ acc.depth \in Int /\ acc.start \in Nat
        /\ acc.inString \in BOOLEAN /\ acc.escape \in BOOLEAN
        /\ acc.found \in Seq(Nat \X Nat) /\ k \in Nat
    BY <1>1, <1>3 DEF RehydrateStates
  <2>2. CASE acc.escape
    BY <2>1, <2>2 DEF RehydrateNext, RehydrateStates
  <2>3. CASE ~acc.escape /\ text[k] = "backslash"
    BY <2>1, <2>3 DEF RehydrateNext, RehydrateStates
  <2>4. CASE ~acc.escape /\ text[k] = "quote"
    <3>1. RehydrateNext(acc, k) = [acc EXCEPT !.inString = ~acc.inString]
      BY <2>4 DEF RehydrateNext
    <3>2. (~acc.inString) \in BOOLEAN
      OBVIOUS
    <3> QED
      BY <2>1, <3>1, <3>2 DEF RehydrateStates
  <2>5. CASE ~acc.escape /\ ~acc.inString /\ text[k] = "open"
    <3>1. RehydrateNext(acc, k) = [acc EXCEPT !.depth = acc.depth + 1,
                                     !.start = IF acc.depth = 0 THEN k ELSE acc.start]
      BY <2>5 DEF RehydrateNext
    <3>2. acc.depth + 1 \in Int /\ (IF acc.depth = 0 THEN k ELSE acc.start) \in Nat
      BY <2>1
    <3> QED
      BY <2>1, <3>1, <3>2 DEF RehydrateStates
  <2>6. CASE ~acc.escape /\ ~acc.inString /\ text[k] = "close"
    <3> DEFINE closes == acc.depth = 1 /\ acc.start > 0
               start  == IF closes THEN 0 ELSE acc.start
               found  == IF closes /\ Parses(acc.start, k)
                           THEN Append(acc.found, <<acc.start, k>>) ELSE acc.found
    <3>1. RehydrateNext(acc, k) =
            [acc EXCEPT !.depth = acc.depth - 1, !.start = start, !.found = found]
      BY <2>6 DEF RehydrateNext
    <3>2. acc.depth - 1 \in Int /\ start \in Nat /\ <<acc.start, k>> \in Nat \X Nat
      BY <2>1
    <3>3. found \in Seq(Nat \X Nat)
      <4>1. CASE closes /\ Parses(acc.start, k)
        BY <2>1, <3>2, <4>1, AppendProperties
      <4>2. CASE ~(closes /\ Parses(acc.start, k))
        BY <2>1, <4>2
      <4> QED
        BY <4>1, <4>2
    <3> HIDE DEF start, found
    <3> QED
      BY <2>1, <3>1, <3>2, <3>3 DEF RehydrateStates
  <2>7. CASE /\ ~acc.escape /\ text[k] # "backslash" /\ text[k] # "quote"
             /\ acc.inString \/ text[k] \notin {"open", "close"}
    <3>1. RehydrateNext(acc, k) = acc
      BY <2>7 DEF RehydrateNext
    <3> QED
      BY <1>3, <3>1
  <2> QED
    BY <2>1, <2>2, <2>3, <2>4, <2>5, <2>6, <2>7
<1>4. step \in [RehydrateStates \X ((m + 1)..n) -> RehydrateStates]
  BY <1>1, <1>3
<1>5. \A acc \in RehydrateStates, k \in (m + 1)..n : step[<<acc, k>>] = RehydrateNext(acc, k)
  BY <1>1
<1> HIDE DEF d, m, n, step
<1>6. \E g : Recurs(g)
  <2>0. PICK g : GoesBy(g, RehydrateStates, d, m, n, step)
    <3>1. n \in Int /\ m \in Int /\ m <= n
      BY <1>1
    <3> QED
      BY <3>1, <1>2, <1>4, RecursionUpTo
  <2>1. /\ g \in [m..n -> RehydrateStates] /\ g[m] = d
        /\ \A k \in (m + 1)..n : g[k] = step[<<g[k - 1], k>>]
    BY <2>0 DEF GoesBy
  <2>2. \A k \in m..n : k # m => k \in (m + 1)..n /\ k - 1 \in m..n
    BY <1>1
  <2>3. \A k \in m..n : k # m => g[k] = RehydrateNext(g[k - 1], k)
    BY <1>1, <1>5, <2>1, <2>2
  <2>4. Recurs(g)
    BY <2>1, <2>3
  <2> QED
    BY <2>4
<1>7. Recurs(f)
  BY <1>6
<1> HIDE DEF f
<1>8. /\ m \in m..n
      /\ \A k \in (m + 1)..n : k \in m..n /\ k - 1 \in m..n /\ k # m
  BY <1>1
<1>9. f[m] = d /\ \A k \in (m + 1)..n : f[k] = RehydrateNext(f[k - 1], k)
  BY <1>7, <1>8
<1>10. \A k \in m..n : k \in S
  <2>1. m \in S /\ \A k \in (m + 1)..n : k - 1 \in S => k \in S
    BY <1>2, <1>3, <1>8, <1>9
  <2> HIDE DEF S
  <2> QED
    BY <1>1, <2>1, InductionFrom
<1>11. f \in [m..n -> RehydrateStates]
  BY <1>7, <1>10
<1>12. f = Rehydration
  BY DEF Rehydration, f, n, m, d
<1> QED
  BY <1>9, <1>11, <1>1, <1>12 DEF n, m, d

-----------------------------------------------------------------------------
(* Replies: strings, without counting                                      *)

\* The backslashes right before a place are a run of the greatest length.
LEMMA BackslashRun ==
  ASSUME NEW from \in Nat, NEW i \in Nat, from <= i
  PROVE  /\ Backslashes(from, i) \in 0..(i - from)
         /\ \A k \in 1..Backslashes(from, i) : text[i - k] = "backslash"
         /\ \A m \in 0..(i - from) :
              (\A k \in 1..m : text[i - k] = "backslash") => m <= Backslashes(from, i)
<1> DEFINE runs == {n \in 0..(i - from) : \A k \in 1..n : text[i - k] = "backslash"}
           rests == {j \in 0..(i - from) : (i - from) - j \in runs}
<1>1. i - from \in Nat
  OBVIOUS
<1>2. 0 \in runs
  BY <1>1
<1>3. rests \in SUBSET Nat /\ rests # {}
  <2>1. i - from \in rests
    BY <1>1, <1>2
  <2> QED
    BY <2>1
<1>4. PICK j \in rests : \A l \in rests : j <= l
  <2> HIDE DEF rests
  <2> QED
    BY <1>3, LeastNumber
<1> DEFINE n == (i - from) - j
<1>5. n \in runs
  BY <1>4
<1>6. ASSUME NEW m \in runs PROVE m <= n
  <2>1. (i - from) - m \in rests
    BY <1>1
  <2>2. j <= (i - from) - m
    BY <1>4, <2>1
  <2> QED
    BY <1>1, <1>4, <2>2
<1>7. \E b \in runs : \A m \in runs : m <= b
  BY <1>5, <1>6
<1>8. Backslashes(from, i) = CHOOSE b \in runs : \A m \in runs : m <= b
  BY DEF Backslashes
<1>9. Backslashes(from, i) \in runs /\ \A m \in runs : m <= Backslashes(from, i)
  <2> HIDE DEF runs
  <2> QED
    BY <1>7, <1>8
<1> QED
  BY <1>9

\* One more backslash, or none at all.
LEMMA BackslashStep ==
  ASSUME NEW from \in Nat, NEW i \in Nat, from <= i
  PROVE  /\ Backslashes(from, from) = 0
         /\ text[i] = "backslash" => Backslashes(from, i + 1) = Backslashes(from, i) + 1
         /\ text[i] # "backslash" => Backslashes(from, i + 1) = 0
<1> DEFINE b == Backslashes(from, i)
           c == Backslashes(from, i + 1)
<1>1. /\ b \in 0..(i - from)
      /\ \A k \in 1..b : text[i - k] = "backslash"
      /\ \A m \in 0..(i - from) : (\A k \in 1..m : text[i - k] = "backslash") => m <= b
  BY BackslashRun
<1>2. /\ c \in 0..((i + 1) - from)
      /\ \A k \in 1..c : text[(i + 1) - k] = "backslash"
      /\ \A m \in 0..((i + 1) - from) :
           (\A k \in 1..m : text[(i + 1) - k] = "backslash") => m <= c
  BY BackslashRun
<1>3. Backslashes(from, from) = 0
  <2>1. Backslashes(from, from) \in 0..(from - from)
    BY BackslashRun
  <2> QED
    BY <2>1
<1> HIDE DEF b, c
<1>4. ASSUME text[i] = "backslash" PROVE c = b + 1
  <2>1. ASSUME NEW k \in 1..(b + 1) PROVE text[(i + 1) - k] = "backslash"
    <3>1. CASE k = 1
      BY <1>4, <3>1
    <3>2. CASE k # 1
      <4>1. k - 1 \in 1..b /\ (i + 1) - k = i - (k - 1)
        BY <1>1, <3>2
      <4> QED
        BY <1>1, <4>1
    <3> QED
      BY <3>1, <3>2
  <2>2. b + 1 <= c
    BY <1>1, <1>2, <2>1
  <2>3. ASSUME NEW k \in 1..(c - 1) PROVE text[i - k] = "backslash"
    <3>1. k + 1 \in 1..c /\ (i + 1) - (k + 1) = i - k
      BY <1>2
    <3> QED
      BY <1>2, <3>1
  <2>4. c - 1 \in 0..(i - from)
    BY <1>1, <1>2, <2>2
  <2>5. c - 1 <= b
    BY <1>1, <2>3, <2>4
  <2> QED
    BY <1>1, <1>2, <2>2, <2>5
<1>5. ASSUME text[i] # "backslash" PROVE c = 0
  <2>1. ASSUME c # 0 PROVE FALSE
    <3>1. 1 \in 1..c /\ (i + 1) - 1 = i
      BY <1>2, <2>1
    <3> QED
      BY <1>2, <1>5, <3>1
  <2> QED
    BY <2>1
<1> QED
  BY <1>3, <1>4, <1>5 DEF b, c

\* Behind a character that is none it does not matter where one began to read.
LEMMA BackslashesFrom ==
  ASSUME NEW from \in Nat, NEW s \in Nat, NEW i \in Nat, from <= s, s < i,
         text[s] # "backslash"
  PROVE  Backslashes(from, i) = Backslashes(s, i)
<1> DEFINE b == Backslashes(from, i)
           c == Backslashes(s, i)
<1>0. from <= i /\ s <= i
  OBVIOUS
<1>1. /\ b \in 0..(i - from)
      /\ \A k \in 1..b : text[i - k] = "backslash"
      /\ \A m \in 0..(i - from) : (\A k \in 1..m : text[i - k] = "backslash") => m <= b
  BY <1>0, BackslashRun
<1>2. /\ c \in 0..(i - s)
      /\ \A k \in 1..c : text[i - k] = "backslash"
      /\ \A m \in 0..(i - s) : (\A k \in 1..m : text[i - k] = "backslash") => m <= c
  BY <1>0, BackslashRun
<1> HIDE DEF b, c
<1>3. b < i - s
  <2>1. ASSUME i - s <= b PROVE FALSE
    <3>1. i - s \in 1..b /\ i - (i - s) = s
      BY <1>1, <2>1
    <3> QED
      BY <1>1, <3>1
  <2> QED
    BY <1>1, <2>1
<1>4. b \in 0..(i - s) /\ c \in 0..(i - from)
  BY <1>1, <1>2, <1>3
<1>5. b <= c /\ c <= b
  BY <1>1, <1>2, <1>4
<1> QED
  BY <1>4, <1>5 DEF b, c

\* A quote that counts turns text into a string and back.
LEMMA InStringStep ==
  ASSUME NEW from \in Nat, NEW i \in Nat, from <= i
  PROVE  /\ IsFiniteSet(Quotes(from, i))
         /\ ~InString(from, from)
         /\ text[i] = "quote" /\ Backslashes(from, i) % 2 = 0 =>
              (InString(from, i + 1) <=> ~InString(from, i))
         /\ ~(text[i] = "quote" /\ Backslashes(from, i) % 2 = 0) =>
              (InString(from, i + 1) <=> InString(from, i))
<1> DEFINE Q == Quotes(from, i)
           R == Quotes(from, i + 1)
<1>1. IsFiniteSet(Q)
  <2>1. IsFiniteSet(from..(i - 1)) /\ Q \in SUBSET (from..(i - 1))
    BY FS_Interval DEF Quotes
  <2> QED
    BY <2>1, FS_Subset, Zenon
<1>2. Cardinality(Q) \in Nat
  BY <1>1, FS_CardinalityType
<1>3. ~InString(from, from)
  <2>1. Quotes(from, from) = {}
    BY DEF Quotes
  <2> QED
    BY <2>1, FS_EmptySet DEF InString
<1>4. \A k : k \in from..((i + 1) - 1) <=> k \in from..(i - 1) \/ k = i
  OBVIOUS
<1>5. ASSUME text[i] = "quote" /\ Backslashes(from, i) % 2 = 0
      PROVE  InString(from, i + 1) <=> ~InString(from, i)
  <2>1. R = Q \cup {i}
    BY <1>4, <1>5 DEF Quotes
  <2>2. i \notin Q
    BY DEF Quotes
  <2>3. Cardinality(R) = Cardinality(Q) + 1
    BY <1>1, <2>1, <2>2, FS_AddElement
  <2>4. \A c \in Nat : (c + 1) % 2 = 1 <=> ~(c % 2 = 1)
    OBVIOUS
  <2> QED
    BY <1>2, <2>3, <2>4 DEF InString
<1>6. ASSUME ~(text[i] = "quote" /\ Backslashes(from, i) % 2 = 0)
      PROVE  InString(from, i + 1) <=> InString(from, i)
  <2>1. R = Q
    BY <1>4, <1>6 DEF Quotes
  <2> QED
    BY <2>1 DEF InString
<1> QED
  BY <1>1, <1>3, <1>5, <1>6

\* Where a string does not go on, strings are what they are from there.
LEMMA InStringFrom ==
  ASSUME NEW from \in Nat, NEW s \in Nat, NEW n \in Nat, from <= s,
         text[s] = "open", ~InString(from, s)
  PROVE  \A k \in s..n : InString(s, k) <=> InString(from, k)
<1> DEFINE S == {k \in s..n : InString(s, k) <=> InString(from, k)}
<1> SUFFICES ASSUME s <= n PROVE \A k \in s..n : k \in S
  OBVIOUS
<1>1. s \in S
  BY InStringStep
<1>2. ASSUME NEW k \in (s + 1)..n, k - 1 \in S PROVE k \in S
  <2>1. /\ k - 1 \in Nat /\ s <= k - 1 /\ from <= k - 1 /\ (k - 1) + 1 = k /\ k \in s..n
        /\ k - 1 = s \/ s < k - 1
    OBVIOUS
  <2>2. Backslashes(from, k - 1) = Backslashes(s, k - 1) \/ text[k - 1] = "open"
    BY <2>1, BackslashesFrom
  <2> DEFINE At(f) == text[k - 1] = "quote" /\ Backslashes(f, k - 1) % 2 = 0
  <2>3. At(from) <=> At(s)
    BY <2>2
  <2>4. /\ At(from) => (InString(from, k) <=> ~InString(from, k - 1))
        /\ ~At(from) => (InString(from, k) <=> InString(from, k - 1))
    <3>1. (k - 1) + 1 = k
      BY <2>1
    <3> QED
      BY <2>1, <3>1, InStringStep
  <2>5. /\ At(s) => (InString(s, k) <=> ~InString(s, k - 1))
        /\ ~At(s) => (InString(s, k) <=> InString(s, k - 1))
    BY <2>1, InStringStep
  <2> HIDE DEF At
  <2>6. InString(s, k - 1) <=> InString(from, k - 1)
    BY <1>2
  <2> QED
    BY <2>1, <2>3, <2>4, <2>5, <2>6
<1> HIDE DEF S
<1>3. s \in Int /\ n \in Int
  OBVIOUS
<1> QED
  BY <1>1, <1>2, <1>3, InductionFrom

\* The brackets outside strings, up to a character and with it.
LEMMA BareStep ==
  ASSUME NEW from \in Nat, NEW k \in Nat, from <= k, NEW token
  PROVE  /\ Bare(from, from - 1, token) = 0
         /\ Bare(from, k - 1, token) \in Nat
         /\ Bare(from, k, token) =
              Bare(from, k - 1, token) + IF text[k] = token /\ ~InString(from, k) THEN 1 ELSE 0
<1> DEFINE At(to) == {j \in from..to : text[j] = token /\ ~InString(from, j)}
<1>1. \A to : Bare(from, to, token) = Cardinality(At(to))
  BY DEF Bare
<1>2. At(from - 1) = {}
  OBVIOUS
<1>3. IsFiniteSet(At(k - 1))
  <2>1. IsFiniteSet(from..(k - 1)) /\ At(k - 1) \in SUBSET (from..(k - 1))
    BY FS_Interval
  <2> QED
    BY <2>1, FS_Subset, Zenon
<1>4. Cardinality(At(k - 1)) \in Nat
  BY <1>3, FS_CardinalityType
<1>5. \A j : j \in from..k <=> j \in from..(k - 1) \/ j = k
  OBVIOUS
<1>6. k \notin At(k - 1)
  OBVIOUS
<1>7. At(k) = IF text[k] = token /\ ~InString(from, k) THEN At(k - 1) \cup {k} ELSE At(k - 1)
  BY <1>5
<1> HIDE DEF At
<1>8. Cardinality(At(k)) =
        Cardinality(At(k - 1)) + IF text[k] = token /\ ~InString(from, k) THEN 1 ELSE 0
  BY <1>3, <1>4, <1>6, <1>7, FS_AddElement
<1> QED
  BY <1>1, <1>2, <1>4, <1>8, FS_EmptySet

\* How many brackets are open behind a character.
Depth(from, k) == Bare(from, k, "open") - Bare(from, k, "close")

\* One character more: a bracket outside a string opens or closes one.
LEMMA DepthStep ==
  ASSUME NEW from \in Nat, NEW k \in Nat, from <= k
  PROVE  /\ Depth(from, from - 1) = 0
         /\ Depth(from, k - 1) \in Int
         /\ Depth(from, k) \in Int
         /\ InString(from, k) => Depth(from, k) = Depth(from, k - 1)
         /\ ~InString(from, k) =>
              /\ text[k] = "open" => Depth(from, k) = Depth(from, k - 1) + 1
              /\ text[k] = "close" => Depth(from, k) = Depth(from, k - 1) - 1
              /\ text[k] \notin {"open", "close"} => Depth(from, k) = Depth(from, k - 1)
<1> DEFINE o == Bare(from, k - 1, "open")
           c == Bare(from, k - 1, "close")
           p == Bare(from, k, "open")
           d == Bare(from, k, "close")
<1>1. /\ Bare(from, from - 1, "open") = 0
      /\ o \in Nat
      /\ p = o + IF text[k] = "open" /\ ~InString(from, k) THEN 1 ELSE 0
  BY BareStep
<1>2. /\ Bare(from, from - 1, "close") = 0
      /\ c \in Nat
      /\ d = c + IF text[k] = "close" /\ ~InString(from, k) THEN 1 ELSE 0
  BY BareStep
<1>3. /\ Depth(from, from - 1) = 0
      /\ Depth(from, k - 1) = o - c
      /\ Depth(from, k) = p - d
  BY <1>1, <1>2 DEF Depth
<1> HIDE DEF o, c, p, d
<1> QED
  BY <1>1, <1>2, <1>3

\* Where a string does not go on, the depth is what it is from there.
LEMMA DepthFrom ==
  ASSUME NEW from \in Nat \ {0}, NEW s \in Nat, NEW n \in Nat, from <= s,
         text[s] = "open", ~InString(from, s)
  PROVE  \A k \in (s - 1)..n : Depth(s, k) = Depth(from, k) - Depth(from, s - 1)
<1> DEFINE base == Depth(from, s - 1)
           S == {k \in (s - 1)..n : Depth(s, k) = Depth(from, k) - base}
<1> SUFFICES ASSUME s - 1 <= n PROVE \A k \in (s - 1)..n : k \in S
  OBVIOUS
<1>1. s - 1 \in S
  <2>1. Depth(s, s - 1) = 0
    BY DepthStep
  <2>2. Depth(from, s - 1) \in Int
    BY DepthStep
  <2> QED
    BY <2>1, <2>2
<1>2. ASSUME NEW k \in ((s - 1) + 1)..n, k - 1 \in S PROVE k \in S
  <2>1. k \in Nat /\ s <= k /\ from <= k /\ k \in s..n /\ k \in (s - 1)..n
    OBVIOUS
  <2>2. InString(s, k) <=> InString(from, k)
    BY <2>1, InStringFrom
  <2>3. Depth(s, k - 1) = Depth(from, k - 1) - base
    BY <1>2
  <2>4. base \in Int
    BY DepthStep
  <2> HIDE DEF base
  <2>5. /\ Depth(from, k - 1) \in Int
        /\ InString(from, k) => Depth(from, k) = Depth(from, k - 1)
        /\ ~InString(from, k) =>
              /\ text[k] = "open" => Depth(from, k) = Depth(from, k - 1) + 1
              /\ text[k] = "close" => Depth(from, k) = Depth(from, k - 1) - 1
              /\ text[k] \notin {"open", "close"} => Depth(from, k) = Depth(from, k - 1)
    BY <2>1, DepthStep
  <2>6. /\ InString(s, k) => Depth(s, k) = Depth(s, k - 1)
        /\ ~InString(s, k) =>
              /\ text[k] = "open" => Depth(s, k) = Depth(s, k - 1) + 1
              /\ text[k] = "close" => Depth(s, k) = Depth(s, k - 1) - 1
              /\ text[k] \notin {"open", "close"} => Depth(s, k) = Depth(s, k - 1)
    BY <2>1, DepthStep
  <2>7. Depth(s, k) = Depth(from, k) - base
    BY <2>2, <2>3, <2>4, <2>5, <2>6
  <2> QED
    BY <2>1, <2>7
<1> HIDE DEF S
<1>3. s - 1 \in Int /\ n \in Int
  OBVIOUS
<1> QED
  BY <1>1, <1>2, <1>3, InductionFrom

\* Pairs in terms of the depth.
LEMMA PairByDepth ==
  ASSUME NEW i \in Nat, NEW e \in Nat
  PROVE  IsPair(i, e) <=> /\ text[i] = "open" /\ i < e /\ Depth(i, e) = 0
                          /\ \A k \in i..(e - 1) : Depth(i, k) > 0
<1>1. ASSUME NEW k \in Nat, i <= k
      PROVE  /\ Depth(i, k) = Bare(i, k, "open") - Bare(i, k, "close")
             /\ Bare(i, k, "open") \in Nat /\ Bare(i, k, "close") \in Nat
  <2>1. /\ Bare(i, k - 1, "open") \in Nat
        /\ Bare(i, k, "open") =
             Bare(i, k - 1, "open") + IF text[k] = "open" /\ ~InString(i, k) THEN 1 ELSE 0
    BY <1>1, BareStep
  <2>2. /\ Bare(i, k - 1, "close") \in Nat
        /\ Bare(i, k, "close") =
             Bare(i, k - 1, "close") + IF text[k] = "close" /\ ~InString(i, k) THEN 1 ELSE 0
    BY <1>1, BareStep
  <2> QED
    BY <2>1, <2>2 DEF Depth
<1>2. \A k \in i..(e - 1) : k \in Nat /\ i <= k
  OBVIOUS
<1>3. \A k \in i..(e - 1) :
        Depth(i, k) > 0 <=> Bare(i, k, "open") > Bare(i, k, "close")
  BY <1>1, <1>2
<1>4. i < e => (Depth(i, e) = 0 <=> Bare(i, e, "open") = Bare(i, e, "close"))
  BY <1>1
<1> QED
  BY <1>3, <1>4 DEF IsPair

-----------------------------------------------------------------------------
(* Replies: spans                                                          *)

\* On a span that parses there is no backslash outside a string, so what JSON.parse
\* has in its locals before a character is what the text says without counting.
ReadsAt(i, k) ==
  LET acc == Lexed(i)[k - 1]
  IN acc.ok =>
       /\ acc.inString <=> InString(i, k)
       /\ acc.escape <=> Backslashes(i, k) % 2 = 1
       /\ acc.escape => acc.inString
       /\ acc.depth = Depth(i, k - 1)

\* One character more.
LEMMA ReadsOn ==
  ASSUME text \in Seq(Tokens), NEW i \in 1..Len(text), NEW k \in i..Len(text), ReadsAt(i, k)
  PROVE  ReadsAt(i, k + 1)
<1> DEFINE acc == Lexed(i)[k - 1]
           nxt == Lexed(i)[k]
           b   == Backslashes(i, k)
           c   == Backslashes(i, k + 1)
<1>1. /\ k \in Nat /\ i \in Nat /\ i <= k /\ k - 1 \in (i - 1)..Len(text) /\ (k + 1) - 1 = k
      /\ text[k] \in Tokens
  OBVIOUS
<1>2. acc \in LexStates /\ nxt = LexNext(acc, k)
  BY <1>1, LexTurns
<1>3. acc = [depth |-> acc.depth, inString |-> acc.inString, escape |-> acc.escape,
             ok |-> acc.ok, entries |-> acc.entries]
  BY <1>2 DEF LexStates
<1>4. /\ b \in Nat
      /\ text[k] = "backslash" => c = b + 1
      /\ text[k] # "backslash" => c = 0
  <2>1. b \in 0..(k - i)
    BY <1>1, BackslashRun
  <2> QED
    BY <1>1, <2>1, BackslashStep
<1>5. /\ text[k] = "quote" /\ b % 2 = 0 => (InString(i, k + 1) <=> ~InString(i, k))
      /\ ~(text[k] = "quote" /\ b % 2 = 0) => (InString(i, k + 1) <=> InString(i, k))
  BY <1>1, InStringStep
<1>6. /\ Depth(i, k - 1) \in Int
      /\ InString(i, k) => Depth(i, k) = Depth(i, k - 1)
      /\ ~InString(i, k) =>
           /\ text[k] = "open" => Depth(i, k) = Depth(i, k - 1) + 1
           /\ text[k] = "close" => Depth(i, k) = Depth(i, k - 1) - 1
           /\ text[k] \notin {"open", "close"} => Depth(i, k) = Depth(i, k - 1)
  BY <1>1, DepthStep
<1>7. acc.ok => /\ acc.inString <=> InString(i, k)
                /\ acc.escape <=> b % 2 = 1
                /\ acc.escape => acc.inString
                /\ acc.depth = Depth(i, k - 1)
  BY DEF ReadsAt
<1>8. /\ 0 % 2 = 0
      /\ b % 2 = 0 \/ b % 2 = 1
      /\ (b + 1) % 2 = 1 <=> b % 2 = 0
  BY <1>4
<1> HIDE DEF acc, nxt, b, c
<1>9. ASSUME nxt.ok
      PROVE  /\ nxt.inString <=> InString(i, k + 1)
             /\ nxt.escape <=> c % 2 = 1
             /\ nxt.escape => nxt.inString
             /\ nxt.depth = Depth(i, k)
  <2>1. CASE acc.inString /\ acc.escape
    <3>1. /\ nxt.inString = acc.inString /\ nxt.escape = FALSE /\ nxt.depth = acc.depth
          /\ nxt.ok <=> acc.ok /\ text[k] \in {"quote", "backslash"}
      BY <1>2, <1>3, <2>1 DEF LexNext
    <3>2. /\ InString(i, k) /\ b % 2 = 1 /\ acc.depth = Depth(i, k - 1)
          /\ text[k] \in {"quote", "backslash"}
      BY <1>7, <1>9, <2>1, <3>1
    <3>3. nxt.depth = Depth(i, k)
      BY <1>6, <3>1, <3>2
    <3>4. c % 2 # 1
      BY <1>4, <1>8, <3>2
    <3>5. InString(i, k + 1)
      BY <1>5, <3>2
    <3> QED
      BY <2>1, <3>1, <3>3, <3>4, <3>5
  <2>2. CASE acc.inString /\ ~acc.escape
    <3>1. /\ nxt.inString <=> text[k] # "quote"
          /\ nxt.escape <=> text[k] = "backslash"
          /\ nxt.depth = acc.depth
          /\ nxt.ok = acc.ok
      BY <1>2, <1>3, <2>2 DEF LexNext
    <3>2. InString(i, k) /\ b % 2 = 0 /\ acc.depth = Depth(i, k - 1)
      BY <1>7, <1>8, <1>9, <2>2, <3>1
    <3>3. nxt.depth = Depth(i, k)
      BY <1>6, <3>1, <3>2
    <3>4. CASE text[k] = "quote"
      BY <1>4, <1>5, <1>8, <3>1, <3>2, <3>3, <3>4
    <3>5. CASE text[k] = "backslash"
      BY <1>4, <1>5, <1>8, <3>1, <3>2, <3>3, <3>5
    <3>6. CASE text[k] \notin {"quote", "backslash"}
      BY <1>4, <1>5, <1>8, <3>1, <3>2, <3>3, <3>6
    <3> QED
      BY <3>4, <3>5, <3>6
  <2>3. CASE ~acc.inString /\ text[k] \in {"word", "backslash"}
    <3>1. nxt.ok = FALSE
      BY <1>2, <1>3, <2>3 DEF LexNext
    <3> QED
      BY <1>9, <3>1
  <2>4. CASE ~acc.inString /\ text[k] = "quote"
    <3>1. /\ nxt.inString = TRUE /\ nxt.escape = acc.escape
          /\ nxt.depth = acc.depth /\ nxt.ok = acc.ok
      BY <1>2, <1>3, <2>4 DEF LexNext
    <3> QED
      BY <1>4, <1>5, <1>6, <1>7, <1>8, <1>9, <2>4, <3>1
  <2>5. CASE ~acc.inString /\ text[k] = "open"
    <3>1. /\ nxt.inString = acc.inString /\ nxt.escape = acc.escape
          /\ nxt.depth = acc.depth + 1 /\ nxt.ok = acc.ok
      BY <1>2, <1>3, <2>5 DEF LexNext
    <3> QED
      BY <1>4, <1>5, <1>6, <1>7, <1>8, <1>9, <2>5, <3>1
  <2>6. CASE ~acc.inString /\ text[k] = "close"
    <3>1. /\ nxt.inString = acc.inString /\ nxt.escape = acc.escape
          /\ nxt.depth = acc.depth - 1 /\ nxt.ok = acc.ok
      BY <1>2, <1>3, <2>6 DEF LexNext
    <3> QED
      BY <1>4, <1>5, <1>6, <1>7, <1>8, <1>9, <2>6, <3>1
  <2>7. CASE ~acc.inString /\ text[k] = "entry"
    <3>1. /\ nxt.inString = acc.inString /\ nxt.escape = acc.escape
          /\ nxt.depth = acc.depth /\ nxt.ok = acc.ok
      BY <1>2, <1>3, <2>7 DEF LexNext
    <3> QED
      BY <1>4, <1>5, <1>6, <1>7, <1>8, <1>9, <2>7, <3>1
  <2> QED
    BY <1>1, <2>1, <2>2, <2>3, <2>4, <2>5, <2>6, <2>7 DEF Tokens
<1> QED
  BY <1>1, <1>9 DEF ReadsAt, acc, nxt, b, c

\* On all of a span that parses: JSON.parse is in a string where the text is in one.
LEMMA Reads ==
  ASSUME text \in Seq(Tokens), NEW i \in 1..Len(text)
  PROVE  \A k \in i..(Len(text) + 1) : ReadsAt(i, k)
<1> DEFINE S == {k \in i..(Len(text) + 1) : ReadsAt(i, k)}
<1>1. i \in Int /\ i \in Nat /\ Len(text) + 1 \in Int /\ i \in i..(Len(text) + 1)
  OBVIOUS
<1>2. i \in S
  <2>1. Lexed(i)[i - 1] = [depth |-> 0, inString |-> FALSE, escape |-> FALSE,
                           ok |-> TRUE, entries |-> 0]
    BY LexTurns
  <2>2. Backslashes(i, i) = 0 /\ ~InString(i, i) /\ Depth(i, i - 1) = 0 /\ 0 % 2 = 0
    BY <1>1, BackslashStep, InStringStep, DepthStep
  <2>3. ReadsAt(i, i)
    BY <2>1, <2>2 DEF ReadsAt
  <2> QED
    BY <1>1, <2>3
<1>3. ASSUME NEW k \in (i + 1)..(Len(text) + 1), k - 1 \in S PROVE k \in S
  <2>1. k - 1 \in i..Len(text) /\ (k - 1) + 1 = k /\ k \in i..(Len(text) + 1)
    OBVIOUS
  <2>2. ReadsAt(i, (k - 1) + 1)
    BY <1>3, <2>1, ReadsOn
  <2> QED
    BY <2>1, <2>2
<1> HIDE DEF S
<1>4. \A k \in i..(Len(text) + 1) : k \in S
  BY <1>1, <1>2, <1>3, InductionFrom
<1> QED
  BY <1>4 DEF S

\* What parses does so from its beginning.
LEMMA ParsesUpTo ==
  ASSUME text \in Seq(Tokens), NEW i \in 1..Len(text), NEW e \in i..Len(text), Parses(i, e)
  PROVE  \A k \in (i - 1)..e : Lexed(i)[k].ok
<1> DEFINE S == {j \in 0..(e - (i - 1)) : Lexed(i)[e - j].ok}
<1>1. e - (i - 1) \in Nat /\ e \in Nat /\ i \in Nat
  OBVIOUS
<1>2. 0 \in S
  BY <1>1 DEF Parses
<1>3. ASSUME NEW j \in 0..((e - (i - 1)) - 1), j \in S PROVE j + 1 \in S
  <2> DEFINE k == e - j
  <2>1. /\ k \in i..Len(text) /\ k - 1 \in (i - 1)..Len(text) /\ k - 1 = e - (j + 1)
        /\ j + 1 \in 0..(e - (i - 1))
    OBVIOUS
  <2>2. Lexed(i)[k].ok
    BY <1>3
  <2> HIDE DEF k
  <2>3. Lexed(i)[k - 1] \in LexStates /\ Lexed(i)[k] = LexNext(Lexed(i)[k - 1], k)
    BY <2>1, LexTurns
  <2>4. text[k] \in Tokens
    BY <2>1
  <2>5. ASSUME NEW acc \in LexStates, LexNext(acc, k).ok PROVE acc.ok
    <3>1. acc = [depth |-> acc.depth, inString |-> acc.inString, escape |-> acc.escape,
                 ok |-> acc.ok, entries |-> acc.entries]
      BY <2>5 DEF LexStates
    <3>2. CASE acc.inString /\ acc.escape
      <4>1. LexNext(acc, k).ok = (acc.ok /\ text[k] \in {"quote", "backslash"})
        BY <3>1, <3>2 DEF LexNext
      <4> QED
        BY <2>5, <4>1
    <3>3. CASE acc.inString /\ ~acc.escape
      BY <2>5, <3>1, <3>3 DEF LexNext
    <3>4. CASE ~acc.inString /\ text[k] \in {"word", "backslash"}
      <4>1. LexNext(acc, k).ok = FALSE
        BY <3>1, <3>4 DEF LexNext
      <4> QED
        BY <2>5, <4>1
    <3>5. CASE ~acc.inString /\ text[k] = "quote"
      BY <2>5, <3>1, <3>5 DEF LexNext
    <3>6. CASE ~acc.inString /\ text[k] = "open"
      BY <2>5, <3>1, <3>6 DEF LexNext
    <3>7. CASE ~acc.inString /\ text[k] = "close"
      BY <2>5, <3>1, <3>7 DEF LexNext
    <3>8. CASE ~acc.inString /\ text[k] = "entry"
      BY <2>5, <3>1, <3>8 DEF LexNext
    <3> QED
      BY <2>4, <3>2, <3>3, <3>4, <3>5, <3>6, <3>7, <3>8 DEF Tokens
  <2>6. Lexed(i)[k - 1].ok
    BY <2>2, <2>3, <2>5
  <2> QED
    BY <2>1, <2>6
<1> HIDE DEF S
<1>4. \A j \in 0..(e - (i - 1)) : j \in S
  BY <1>1, <1>2, <1>3, InductionTo
<1>5. ASSUME NEW k \in (i - 1)..e PROVE Lexed(i)[k].ok
  <2>1. e - k \in 0..(e - (i - 1)) /\ e - (e - k) = k
    OBVIOUS
  <2> QED
    BY <1>4, <2>1 DEF S
<1> QED
  BY <1>5

\* The scanner and JSON.parse see the same strings and brackets.
Agree(i, k) ==
  /\ Scan(i)[k].depth = Lexed(i)[k].depth
  /\ Scan(i)[k].inString <=> Lexed(i)[k].inString
  /\ Scan(i)[k].escape <=> Lexed(i)[k].escape

\* One turn of the scanner before it returns.
LEMMA ScanStep ==
  ASSUME text \in Seq(Tokens), NEW i \in 1..Len(text), NEW k \in i..Len(text),
         Agree(i, k - 1), Scan(i)[k - 1].end = 0
  PROVE  /\ Agree(i, k)
         /\ ~Lexed(i)[k - 1].inString /\ text[k] = "close" /\ Lexed(i)[k - 1].depth = 1 =>
              Scan(i)[k].end = k
         /\ ~(~Lexed(i)[k - 1].inString /\ text[k] = "close" /\ Lexed(i)[k - 1].depth = 1) =>
              Scan(i)[k].end = 0
         /\ Scan(i)[k].depth \in Int
         /\ Scan(i)[k].depth >= Scan(i)[k - 1].depth
              \/ (text[k] = "close" /\ ~Lexed(i)[k - 1].inString
                 /\ Scan(i)[k].depth = Scan(i)[k - 1].depth - 1)
         /\ text[k] = "open" /\ ~Lexed(i)[k - 1].inString =>
              Scan(i)[k].depth = Scan(i)[k - 1].depth + 1
<1> DEFINE a == Scan(i)[k - 1]
           b == Scan(i)[k]
           l == Lexed(i)[k - 1]
           m == Lexed(i)[k]
<1>1. k - 1 \in (i - 1)..Len(text) /\ text[k] \in Tokens /\ k # 0 /\ k \in Nat
  OBVIOUS
<1>2. a \in ScanStates /\ b = ScanNext(a, k)
  BY <1>1, ScanTurns
<1>3. l \in LexStates /\ m = LexNext(l, k)
  BY <1>1, LexTurns
<1>4. /\ a = [depth |-> a.depth, inString |-> a.inString, escape |-> a.escape, end |-> a.end]
      /\ a.depth \in Int /\ a.inString \in BOOLEAN /\ a.escape \in BOOLEAN
  BY <1>2 DEF ScanStates
<1>5. /\ l = [depth |-> l.depth, inString |-> l.inString, escape |-> l.escape,
              ok |-> l.ok, entries |-> l.entries]
      /\ l.depth \in Int /\ l.inString \in BOOLEAN /\ l.escape \in BOOLEAN
  BY <1>3 DEF LexStates
<1>6. a.end = 0 /\ a.depth = l.depth /\ (a.inString <=> l.inString) /\ (a.escape <=> l.escape)
  BY DEF Agree
<1> DEFINE Goal ==
      /\ b.depth = m.depth /\ (b.inString <=> m.inString) /\ (b.escape <=> m.escape)
      /\ ~l.inString /\ text[k] = "close" /\ l.depth = 1 => b.end = k
      /\ ~(~l.inString /\ text[k] = "close" /\ l.depth = 1) => b.end = 0
      /\ b.depth \in Int
      /\ b.depth >= a.depth \/ (text[k] = "close" /\ ~l.inString /\ b.depth = a.depth - 1)
      /\ text[k] = "open" /\ ~l.inString => b.depth = a.depth + 1
<1> SUFFICES Goal
  BY DEF Agree
<1> HIDE DEF a, b, l, m
<1>7. CASE l.inString /\ l.escape
  <2>1. b.depth = a.depth /\ (b.inString <=> TRUE) /\ (b.escape <=> FALSE) /\ b.end = 0
    BY <1>2, <1>4, <1>6, <1>7 DEF ScanNext
  <2>2. m.depth = l.depth /\ (m.inString <=> TRUE) /\ (m.escape <=> FALSE)
    BY <1>3, <1>5, <1>7 DEF LexNext
  <2> QED
    BY <1>4, <1>6, <1>7, <2>1, <2>2
<1>8. CASE l.inString /\ ~l.escape
  <2>1. /\ b.depth = a.depth /\ (b.inString <=> text[k] # "quote")
        /\ (b.escape <=> text[k] = "backslash") /\ b.end = 0
    BY <1>2, <1>4, <1>6, <1>8 DEF ScanNext
  <2>2. /\ m.depth = l.depth /\ (m.inString <=> text[k] # "quote")
        /\ (m.escape <=> text[k] = "backslash")
    BY <1>3, <1>5, <1>8 DEF LexNext
  <2> QED
    BY <1>4, <1>6, <1>8, <2>1, <2>2
<1>9. CASE ~l.inString /\ text[k] \in {"word", "backslash", "entry"}
  <2>1. b = a
    BY <1>2, <1>6, <1>9 DEF ScanNext
  <2>2. m.depth = l.depth /\ m.inString = l.inString /\ m.escape = l.escape
    <3>1. CASE text[k] = "entry"
      BY <1>3, <1>5, <1>9, <3>1 DEF LexNext
    <3>2. CASE text[k] # "entry"
      BY <1>3, <1>5, <1>9, <3>2 DEF LexNext
    <3> QED
      BY <3>1, <3>2
  <2> QED
    BY <1>4, <1>6, <1>9, <2>1, <2>2
<1>10. CASE ~l.inString /\ text[k] = "quote"
  <2>1. b.depth = a.depth /\ (b.inString <=> TRUE) /\ b.escape = a.escape /\ b.end = 0
    <3>1. b = [a EXCEPT !.inString = TRUE]
      BY <1>2, <1>6, <1>10 DEF ScanNext
    <3> QED
      BY <1>4, <1>6, <3>1
  <2>2. m.depth = l.depth /\ (m.inString <=> TRUE) /\ m.escape = l.escape
    BY <1>3, <1>5, <1>10 DEF LexNext
  <2> QED
    BY <1>4, <1>6, <1>10, <2>1, <2>2
<1>11. CASE ~l.inString /\ text[k] = "open"
  <2>1. b.depth = a.depth + 1 /\ b.inString = a.inString /\ b.escape = a.escape /\ b.end = 0
    <3>1. b = [a EXCEPT !.depth = a.depth + 1]
      BY <1>2, <1>6, <1>11 DEF ScanNext
    <3> QED
      BY <1>4, <1>6, <3>1
  <2>2. m.depth = l.depth + 1 /\ m.inString = l.inString /\ m.escape = l.escape
    BY <1>3, <1>5, <1>11 DEF LexNext
  <2> QED
    BY <1>4, <1>6, <1>11, <2>1, <2>2
<1>12. CASE ~l.inString /\ text[k] = "close"
  <2>1. b = [a EXCEPT !.depth = a.depth - 1, !.end = IF a.depth = 1 THEN k ELSE 0]
    BY <1>2, <1>6, <1>12 DEF ScanNext
  <2>2. /\ b.depth = a.depth - 1 /\ b.inString = a.inString /\ b.escape = a.escape
        /\ b.end = IF a.depth = 1 THEN k ELSE 0
    BY <1>4, <2>1
  <2>3. m.depth = l.depth - 1 /\ m.inString = l.inString /\ m.escape = l.escape
    BY <1>3, <1>5, <1>12 DEF LexNext
  <2> QED
    BY <1>4, <1>6, <1>12, <2>2, <2>3
<1> QED
  BY <1>1, <1>7, <1>8, <1>9, <1>10, <1>11, <1>12 DEF Tokens

\* Where the scanner is behind a character: it still reads, in a bracket if it
\* began with one, or it has returned at the first place where none was open.
ScanAt(i, k) ==
  LET end == Scan(i)[k].end
  IN \/ /\ end = 0
        /\ \A j \in (i - 1)..k : Scan(i)[j].end = 0
        /\ Agree(i, k)
        /\ text[i] = "open" /\ i <= k => Scan(i)[k].depth >= 1
     \/ /\ end \in i..k
        /\ \A j \in (i - 1)..(end - 1) : Scan(i)[j].end = 0
        /\ text[end] = "close" /\ ~Lexed(i)[end - 1].inString /\ Lexed(i)[end - 1].depth = 1

\* One turn more.
LEMMA ScanOn ==
  ASSUME text \in Seq(Tokens), NEW i \in 1..Len(text), NEW k \in i..Len(text), ScanAt(i, k - 1)
  PROVE  ScanAt(i, k)
<1> DEFINE end == Scan(i)[k - 1].end
<1>1. /\ k \in Nat /\ i \in Nat /\ i <= k /\ k # 0 /\ k - 1 \in (i - 1)..Len(text) /\ k \in i..k
      /\ \A j \in (i - 1)..k : j \in (i - 1)..(k - 1) \/ j = k
      /\ \A j \in i..(k - 1) : j \in i..k
  OBVIOUS
<1>2. /\ Scan(i)[k - 1] \in ScanStates
      /\ Scan(i)[k] = ScanNext(Scan(i)[k - 1], k)
      /\ Scan(i)[i - 1].depth = 0
      /\ Lexed(i)[i - 1].inString = FALSE
  <2>1. /\ Scan(i) \in [(i - 1)..Len(text) -> ScanStates]
        /\ Scan(i)[i - 1] = [depth |-> 0, inString |-> FALSE, escape |-> FALSE, end |-> 0]
        /\ \A j \in i..Len(text) : Scan(i)[j] = ScanNext(Scan(i)[j - 1], j)
    BY ScanTurns
  <2>2. Lexed(i)[i - 1] = [depth |-> 0, inString |-> FALSE, escape |-> FALSE,
                           ok |-> TRUE, entries |-> 0]
    BY LexTurns
  <2>3. Scan(i)[k - 1] \in ScanStates
    BY <1>1, <2>1
  <2>4. Scan(i)[k] = ScanNext(Scan(i)[k - 1], k)
    BY <2>1
  <2> QED
    BY <2>1, <2>2, <2>3, <2>4
<1>3. CASE end # 0
  <2>1. end \in Nat
    BY <1>2 DEF ScanStates
  <2>2. end > 0
    BY <1>3, <2>1
  <2>3. Scan(i)[k] = Scan(i)[k - 1]
    BY <1>2, <2>2 DEF ScanNext
  <2>4. /\ end \in i..(k - 1)
        /\ \A j \in (i - 1)..(end - 1) : Scan(i)[j].end = 0
        /\ text[end] = "close" /\ ~Lexed(i)[end - 1].inString /\ Lexed(i)[end - 1].depth = 1
    BY <1>3 DEF ScanAt
  <2> QED
    BY <1>1, <2>3, <2>4 DEF ScanAt
<1>4. CASE end = 0
  <2>1. /\ \A j \in (i - 1)..(k - 1) : Scan(i)[j].end = 0
        /\ Agree(i, k - 1)
        /\ text[i] = "open" /\ i <= k - 1 => Scan(i)[k - 1].depth >= 1
    <3>1. end \notin i..(k - 1)
      BY <1>1, <1>4
    <3> QED
      BY <3>1 DEF ScanAt
  <2>2. /\ Agree(i, k)
        /\ ~Lexed(i)[k - 1].inString /\ text[k] = "close" /\ Lexed(i)[k - 1].depth = 1 =>
             Scan(i)[k].end = k
        /\ ~(~Lexed(i)[k - 1].inString /\ text[k] = "close" /\ Lexed(i)[k - 1].depth = 1) =>
             Scan(i)[k].end = 0
        /\ Scan(i)[k].depth \in Int
        /\ Scan(i)[k].depth >= Scan(i)[k - 1].depth
             \/ (text[k] = "close" /\ ~Lexed(i)[k - 1].inString
                /\ Scan(i)[k].depth = Scan(i)[k - 1].depth - 1)
        /\ text[k] = "open" /\ ~Lexed(i)[k - 1].inString =>
             Scan(i)[k].depth = Scan(i)[k - 1].depth + 1
    BY <1>4, <2>1, ScanStep
  <2>3. CASE Scan(i)[k].end = 0
    <3>1. \A j \in (i - 1)..k : Scan(i)[j].end = 0
      BY <1>1, <2>1, <2>3
    <3>2. ASSUME text[i] = "open" PROVE Scan(i)[k].depth >= 1
      <4>1. CASE k = i
        BY <1>2, <2>2, <3>2, <4>1
      <4>2. CASE k # i
        <5>1. Scan(i)[k - 1].depth >= 1 /\ Scan(i)[k - 1].depth \in Int
          BY <1>1, <1>2, <2>1, <3>2, <4>2 DEF ScanStates
        <5>2. Lexed(i)[k - 1].depth = Scan(i)[k - 1].depth
          BY <2>1 DEF Agree
        <5>3. k # 0 /\ Scan(i)[k].end # k
          BY <1>1, <2>3
        <5>4. ~(~Lexed(i)[k - 1].inString /\ text[k] = "close" /\ Lexed(i)[k - 1].depth = 1)
          BY <2>2, <5>3
        <5> QED
          BY <2>2, <5>1, <5>2, <5>4
      <4> QED
        BY <4>1, <4>2
    <3> QED
      BY <2>2, <2>3, <3>1, <3>2 DEF ScanAt
  <2>4. CASE Scan(i)[k].end # 0
    <3>1. /\ ~Lexed(i)[k - 1].inString /\ text[k] = "close" /\ Lexed(i)[k - 1].depth = 1
          /\ Scan(i)[k].end = k
      BY <2>2, <2>4
    <3> QED
      BY <1>1, <2>1, <3>1 DEF ScanAt
  <2> QED
    BY <2>3, <2>4
<1> QED
  BY <1>3, <1>4

\* Behind every character.
LEMMA Scans ==
  ASSUME text \in Seq(Tokens), NEW i \in 1..Len(text)
  PROVE  \A k \in (i - 1)..Len(text) : ScanAt(i, k)
<1> DEFINE S == {k \in (i - 1)..Len(text) : ScanAt(i, k)}
<1>1. i - 1 \in Int /\ Len(text) \in Int /\ i - 1 \in (i - 1)..Len(text) /\ (i - 1) + 1 = i
  OBVIOUS
<1>2. i - 1 \in S
  <2>1. /\ Scan(i)[i - 1] = [depth |-> 0, inString |-> FALSE, escape |-> FALSE, end |-> 0]
        /\ Lexed(i)[i - 1] = [depth |-> 0, inString |-> FALSE, escape |-> FALSE,
                              ok |-> TRUE, entries |-> 0]
    BY ScanTurns, LexTurns
  <2>2. Agree(i, i - 1)
    BY <2>1 DEF Agree
  <2>3. \A j \in (i - 1)..(i - 1) : j = i - 1
    OBVIOUS
  <2>4. Scan(i)[i - 1].end = 0 /\ ~(i <= i - 1)
    BY <2>1
  <2>5. ScanAt(i, i - 1)
    BY <2>2, <2>3, <2>4, Zenon DEF ScanAt
  <2> QED
    BY <1>1, <2>5
<1>3. ASSUME NEW k \in ((i - 1) + 1)..Len(text), k - 1 \in S PROVE k \in S
  <2>1. k \in i..Len(text) /\ k \in (i - 1)..Len(text)
    OBVIOUS
  <2>2. ScanAt(i, k)
    BY <1>3, <2>1, ScanOn
  <2> QED
    BY <2>1, <2>2
<1> HIDE DEF S
<1>4. \A k \in (i - 1)..Len(text) : k \in S
  BY <1>1, <1>2, <1>3, InductionFrom
<1> QED
  BY <1>4 DEF S

\* What JSON.parse has in its locals on a span that parses.
LEMMA OnParsedSpan ==
  ASSUME text \in Seq(Tokens), NEW i \in 1..Len(text), NEW e \in i..Len(text), Parses(i, e)
  PROVE  \A k \in i..(e + 1) : /\ Lexed(i)[k - 1].inString <=> InString(i, k)
                               /\ Lexed(i)[k - 1].depth = Depth(i, k - 1)
<1> SUFFICES ASSUME NEW k \in i..(e + 1)
             PROVE  /\ Lexed(i)[k - 1].inString <=> InString(i, k)
                    /\ Lexed(i)[k - 1].depth = Depth(i, k - 1)
  OBVIOUS
<1>1. k \in i..(Len(text) + 1) /\ k - 1 \in (i - 1)..e
  OBVIOUS
<1>2. ReadsAt(i, k) /\ Lexed(i)[k - 1].ok
  BY <1>1, Reads, ParsesUpTo
<1> QED
  BY <1>2 DEF ReadsAt

\* A pair that parses is the span the scanner takes.
LEMMA SpanOfPair ==
  ASSUME text \in Seq(Tokens), NEW i \in 1..Len(text), NEW e \in 1..Len(text),
         IsPair(i, e), Parses(i, e)
  PROVE  SpanEnd(i) = e
<1> DEFINE n == Len(text)
           f == SpanEnd(i)
<1>1. n \in Nat /\ i \in Nat /\ e \in Nat
  OBVIOUS
<1>2. i < e /\ Depth(i, e) = 0 /\ \A k \in i..(e - 1) : Depth(i, k) > 0
  BY <1>1, PairByDepth
<1>3. e \in i..n /\ e - 1 \in i..(e - 1) /\ e \in i..(e + 1) /\ e # 0 /\ n \in (i - 1)..n
      /\ e \in (i - 1)..n /\ i <= e
  BY <1>1, <1>2
<1>4. \A k \in i..(e + 1) : /\ Lexed(i)[k - 1].inString <=> InString(i, k)
                            /\ Lexed(i)[k - 1].depth = Depth(i, k - 1)
  BY <1>3, OnParsedSpan
<1>5. /\ Depth(i, e - 1) \in Int
      /\ ~InString(i, e) /\ text[e] = "close" /\ Depth(i, e - 1) = 1
  <2>1. /\ Depth(i, e - 1) \in Int
        /\ InString(i, e) => Depth(i, e) = Depth(i, e - 1)
        /\ ~InString(i, e) =>
              /\ text[e] = "open" => Depth(i, e) = Depth(i, e - 1) + 1
              /\ text[e] = "close" => Depth(i, e) = Depth(i, e - 1) - 1
              /\ text[e] \notin {"open", "close"} => Depth(i, e) = Depth(i, e - 1)
    BY <1>1, <1>3, DepthStep
  <2>2. Depth(i, e - 1) > 0
    BY <1>2, <1>3
  <2> QED
    BY <1>2, <2>1, <2>2
<1>6. ASSUME \A j \in (i - 1)..e : Scan(i)[j].end = 0 PROVE FALSE
  <2>1. e - 1 \in (i - 1)..n /\ e - 1 \in (i - 1)..e /\ e \in (i - 1)..e
    BY <1>1, <1>3
  <2>2. Scan(i)[e - 1].end = 0 /\ Scan(i)[e].end = 0
    BY <1>6, <2>1
  <2>3. ScanAt(i, e - 1)
    BY <2>1, Scans
  <2>4. Agree(i, e - 1)
    <3>1. 0 \notin i..(e - 1)
      BY <1>1
    <3> QED
      BY <2>2, <2>3, <3>1 DEF ScanAt
  <2>5. ~Lexed(i)[e - 1].inString /\ Lexed(i)[e - 1].depth = 1
    BY <1>3, <1>4, <1>5
  <2>6. Scan(i)[e].end = e
    BY <1>3, <1>5, <2>2, <2>4, <2>5, ScanStep
  <2> QED
    BY <1>3, <2>2, <2>6
<1>7. ScanAt(i, n)
  BY <1>3, Scans
<1>8. f = Scan(i)[n].end
  BY DEF SpanEnd
<1> HIDE DEF f
<1>9. CASE f = 0
  <2>1. \A j \in (i - 1)..n : Scan(i)[j].end = 0
    <3>1. 0 \notin i..n
      BY <1>1
    <3> QED
      BY <1>7, <1>8, <1>9, <3>1 DEF ScanAt
  <2>2. \A j \in (i - 1)..e : j \in (i - 1)..n
    BY <1>1
  <2>3. \A j \in (i - 1)..e : Scan(i)[j].end = 0
    BY <2>1, <2>2, Zenon
  <2> QED
    BY <1>6, <2>3, Zenon
<1>10. CASE f # 0
  <2>1. /\ f \in i..n
        /\ \A j \in (i - 1)..(f - 1) : Scan(i)[j].end = 0
        /\ text[f] = "close" /\ ~Lexed(i)[f - 1].inString /\ Lexed(i)[f - 1].depth = 1
    BY <1>7, <1>8, <1>10 DEF ScanAt
  <2>2. CASE f < e
    <3>1. f \in i..(e + 1) /\ f \in i..(e - 1) /\ f \in Nat /\ i <= f
      BY <1>1, <2>1, <2>2
    <3>2. ~InString(i, f) /\ Depth(i, f - 1) = 1
      BY <1>4, <2>1, <3>1
    <3>3. Depth(i, f) = 0
      <4>1. Depth(i, f) = Depth(i, f - 1) - 1
        BY <1>1, <2>1, <3>1, <3>2, DepthStep
      <4> QED
        BY <3>2, <4>1
    <3> QED
      BY <1>2, <3>1, <3>3
  <2>3. CASE f > e
    <3>1. \A j \in (i - 1)..e : j \in (i - 1)..(f - 1)
      BY <1>1, <2>1, <2>3
    <3> QED
      BY <1>6, <2>1, <3>1
  <2> QED
    BY <1>1, <2>1, <2>2, <2>3 DEF f
<1> QED
  BY <1>9, <1>10 DEF f

\* A span the scanner takes and that parses is a pair.
LEMMA PairOfSpan ==
  ASSUME text \in Seq(Tokens), NEW i \in 1..Len(text), text[i] = "open",
         SpanEnd(i) # 0, Parses(i, SpanEnd(i))
  PROVE  SpanEnd(i) \in 1..Len(text) /\ IsPair(i, SpanEnd(i))
<1> DEFINE n == Len(text)
           f == SpanEnd(i)
<1>1. n \in Nat /\ i \in Nat /\ n \in (i - 1)..n
  OBVIOUS
<1>2. f = Scan(i)[n].end /\ ScanAt(i, n)
  BY <1>1, Scans DEF SpanEnd
<1> HIDE DEF f
<1>3. /\ f \in i..n
      /\ \A j \in (i - 1)..(f - 1) : Scan(i)[j].end = 0
      /\ text[f] = "close" /\ ~Lexed(i)[f - 1].inString /\ Lexed(i)[f - 1].depth = 1
  BY <1>2 DEF ScanAt, f
<1>4. f \in Nat /\ i <= f /\ f \in i..(f + 1) /\ i # f /\ i < f /\ f \in 1..n
  BY <1>1, <1>3
<1>5. \A k \in i..(f + 1) : /\ Lexed(i)[k - 1].inString <=> InString(i, k)
                            /\ Lexed(i)[k - 1].depth = Depth(i, k - 1)
  BY <1>3, OnParsedSpan DEF f
<1>6. Depth(i, f) = 0
  <2>1. ~InString(i, f) /\ Depth(i, f - 1) = 1
    BY <1>3, <1>4, <1>5
  <2>2. Depth(i, f) = Depth(i, f - 1) - 1
    BY <1>1, <1>3, <1>4, <2>1, DepthStep
  <2> QED
    BY <2>1, <2>2
<1>7. ASSUME NEW k \in i..(f - 1) PROVE Depth(i, k) > 0
  <2>1. /\ k \in (i - 1)..n /\ k \in (i - 1)..(f - 1) /\ 0 \notin i..k /\ i <= k
        /\ k + 1 \in i..(f + 1) /\ (k + 1) - 1 = k
    BY <1>1, <1>3
  <2>2. Scan(i)[k].end = 0 /\ ScanAt(i, k) /\ Scan(i)[k] \in ScanStates
    BY <1>3, <2>1, Scans, ScanTurns
  <2>3. Agree(i, k) /\ Scan(i)[k].depth >= 1 /\ Scan(i)[k].depth \in Int
    BY <2>1, <2>2 DEF ScanAt, ScanStates
  <2>4. Lexed(i)[k].depth = Depth(i, k)
    BY <1>5, <2>1
  <2>5. Scan(i)[k].depth = Depth(i, k)
    BY <2>3, <2>4 DEF Agree
  <2> QED
    BY <2>3, <2>5
<1>8. IsPair(i, f)
  BY <1>1, <1>4, <1>6, <1>7, PairByDepth
<1> QED
  BY <1>4, <1>8 DEF f

-----------------------------------------------------------------------------
(* Replies: the search for an array                                        *)

\* The next opening bracket.
LEMMA NextOpenIs ==
  ASSUME text \in Seq(Tokens), NEW c \in 1..(Len(text) + 1)
  PROVE  /\ NextOpen(c) \in c..(Len(text) + 1)
         /\ NextOpen(c) <= Len(text) => text[NextOpen(c)] = "open"
         /\ \A k \in c..Len(text) : text[k] = "open" => NextOpen(c) <= k
<1> DEFINE is == {k \in c..Len(text) : text[k] = "open"}
<1>1. NextOpen(c) = IF is = {} THEN Len(text) + 1 ELSE CHOOSE k \in is : \A l \in is : k <= l
  BY DEF NextOpen
<1>2. is \in SUBSET Nat /\ Len(text) \in Nat /\ c \in Nat
  OBVIOUS
<1>3. CASE is = {}
  <2>1. NextOpen(c) = Len(text) + 1
    BY <1>1, <1>3
  <2>2. \A k \in c..Len(text) : text[k] # "open"
    BY <1>3
  <2> QED
    BY <1>2, <2>1, <2>2
<1>4. CASE is # {}
  <2> HIDE DEF is
  <2>1. \E k \in is : \A l \in is : k <= l
    BY <1>2, <1>4, LeastNumber
  <2>2. NextOpen(c) \in is /\ \A l \in is : NextOpen(c) <= l
    BY <1>1, <1>4, <2>1
  <2> QED
    BY <1>2, <2>2 DEF is
<1> QED
  BY <1>3, <1>4

\* The arrays of a reply are the spans of brackets that hold an entry.
LEMMA ArraysAreSpans ==
  ASSUME text \in Seq(Tokens)
  PROVE  /\ \A p \in Arrays : /\ p[1] \in 1..Len(text) /\ text[p[1]] = "open"
                              /\ p = <<p[1], SpanEnd(p[1])>> /\ SpanEnd(p[1]) # 0
                              /\ EntriesKept(p[1], SpanEnd(p[1])) > 0
         /\ \A i \in 1..Len(text) :
              text[i] = "open" /\ SpanEnd(i) # 0 /\ EntriesKept(i, SpanEnd(i)) > 0 =>
                <<i, SpanEnd(i)>> \in Arrays
<1>1. \A i, e : EntriesKept(i, e) > 0 => Parses(i, e)
  BY DEF EntriesKept
<1>2. ASSUME NEW p \in Arrays
      PROVE  /\ p[1] \in 1..Len(text) /\ text[p[1]] = "open"
             /\ p = <<p[1], SpanEnd(p[1])>> /\ SpanEnd(p[1]) # 0
             /\ EntriesKept(p[1], SpanEnd(p[1])) > 0
  <2>1. /\ p[1] \in 1..Len(text) /\ p[2] \in 1..Len(text) /\ p = <<p[1], p[2]>>
        /\ IsPair(p[1], p[2]) /\ EntriesKept(p[1], p[2]) > 0
    BY DEF Arrays, Pairs
  <2>2. Parses(p[1], p[2])
    BY <1>1, <2>1
  <2>3. SpanEnd(p[1]) = p[2]
    BY <2>1, <2>2, SpanOfPair
  <2>4. text[p[1]] = "open"
    BY <2>1 DEF IsPair
  <2> QED
    BY <2>1, <2>3, <2>4
<1>3. ASSUME NEW i \in 1..Len(text), text[i] = "open", SpanEnd(i) # 0,
             EntriesKept(i, SpanEnd(i)) > 0
      PROVE  <<i, SpanEnd(i)>> \in Arrays
  <2>1. Parses(i, SpanEnd(i))
    BY <1>1, <1>3
  <2>2. SpanEnd(i) \in 1..Len(text) /\ IsPair(i, SpanEnd(i))
    BY <1>3, <2>1, PairOfSpan
  <2> QED
    BY <1>3, <2>2 DEF Arrays, Pairs
<1> QED
  BY <1>2, <1>3

\* What the search does at a cursor, when it goes on with what `from` has.
Searched(from, c) ==
  LET start == NextOpen(c)
  IN IF start > Len(text) \/ SpanEnd(start) = 0 THEN NoSpan
     ELSE IF EntriesKept(start, SpanEnd(start)) > 0 THEN <<start, SpanEnd(start)>>
     ELSE from[start + 1]

\* The recursion of ParsedArray is a function like that.
LEMMA SearchTurns ==
  ASSUME text \in Seq(Tokens)
  PROVE  \E from : /\ ParsedArray = from[1]
                   /\ \A c \in 1..(Len(text) + 1) : from[c] = Searched(from, c)
<1> DEFINE n == Len(text)
           Recurs(f, a) == f = [c \in a..(n + 1) |-> Searched(f, c)]
           S == {j \in 0..n : \E f : Recurs(f, (n + 1) - j)}
<1>1. n \in Nat
  OBVIOUS
<1>2. ASSUME NEW c \in 1..(n + 1)
      PROVE  /\ NextOpen(c) \in c..(n + 1)
             /\ NextOpen(c) <= n => NextOpen(c) + 1 \in (c + 1)..(n + 1)
  <2>1. NextOpen(c) \in c..(n + 1)
    BY NextOpenIs
  <2> QED
    BY <1>1, <2>1
<1> HIDE DEF n
<1>3. 0 \in S
  <2>1. NextOpen(n + 1) > n /\ (n + 1) - 0 = n + 1 /\ 0 \in 0..n
    BY <1>1, <1>2
  <2> DEFINE f == [c \in (n + 1)..(n + 1) |-> NoSpan]
  <2>2. \A g : Searched(g, n + 1) = NoSpan
    BY <2>1 DEF Searched, n
  <2>3. \A c \in (n + 1)..(n + 1) : c = n + 1
    BY <1>1
  <2>4. f = [c \in (n + 1)..(n + 1) |-> Searched(f, c)]
    BY <2>2, <2>3
  <2> QED
    BY <2>1, <2>4
<1>4. ASSUME NEW j \in 0..(n - 1), j \in S PROVE j + 1 \in S
  <2> DEFINE a == (n + 1) - j
             b == (n + 1) - (j + 1)
  <2>1. /\ j + 1 \in 0..n /\ a = b + 1 /\ b \in 1..(n + 1) /\ b \in b..(n + 1)
        /\ \A c \in b..(n + 1) : c \in 1..(n + 1) /\ (c # b => c \in a..(n + 1))
        /\ \A c \in a..(n + 1) : c \in b..(n + 1) /\ c # b
        /\ \A c \in b..(n + 1) : \A d \in (c + 1)..(n + 1) : d \in a..(n + 1)
    BY <1>1
  <2>2. PICK f : Recurs(f, a)
    BY <1>4
  <2> HIDE DEF a, b
  <2>3. \A c \in a..(n + 1) : f[c] = Searched(f, c)
    BY <2>2
  <2> DEFINE g == [c \in b..(n + 1) |-> IF c = b THEN Searched(f, b) ELSE f[c]]
  <2>4. /\ \A c \in a..(n + 1) : g[c] = f[c]
        /\ g[b] = Searched(f, b)
    BY <2>1
  <2>5. g = [c \in b..(n + 1) |-> g[c]]
    OBVIOUS
  <2> HIDE DEF g
  <2>6. ASSUME NEW c \in b..(n + 1) PROVE Searched(g, c) = Searched(f, c)
    <3>1. NextOpen(c) <= n => NextOpen(c) + 1 \in a..(n + 1)
      BY <1>2, <2>1
    <3>2. NextOpen(c) \in Nat
      BY <1>1, <1>2, <2>1
    <3>3. NextOpen(c) <= n => g[NextOpen(c) + 1] = f[NextOpen(c) + 1]
      BY <2>4, <3>1
    <3>4. ~(NextOpen(c) > n) => NextOpen(c) <= n
      BY <1>1, <3>2
    <3> QED
      BY <3>3, <3>4 DEF Searched, n
  <2>7. ASSUME NEW c \in b..(n + 1) PROVE g[c] = Searched(g, c)
    <3>1. g[c] = Searched(f, c)
      BY <2>1, <2>3, <2>4
    <3> QED
      BY <2>6, <3>1
  <2>8. Recurs(g, b)
    BY <2>5, <2>7
  <2> QED
    BY <2>1, <2>8 DEF b
<1> HIDE DEF S
<1>5. n \in S
  <2>1. \A j \in 0..n : j \in S
    BY <1>1, <1>3, <1>4, InductionTo
  <2> QED
    BY <1>1, <2>1
<1>6. \E f : Recurs(f, 1)
  <2>1. (n + 1) - n = 1
    BY <1>1
  <2> QED
    BY <1>5, <2>1 DEF S
<1> DEFINE from == CHOOSE f : Recurs(f, 1)
<1>7. Recurs(from, 1)
  BY <1>6
<1>8. ParsedArray = from[1]
  BY DEF ParsedArray, Searched, CursorAfter, n
<1> HIDE DEF from
<1>9. \A c \in 1..(n + 1) : from[c] = Searched(from, c)
  BY <1>7
<1> QED
  BY <1>8, <1>9 DEF n

\* What the search returns from a cursor on.
FoundFrom(from, c) ==
  LET ahead == {p \in Arrays : c <= p[1]}
  IN /\ ahead = {} => from[c] = NoSpan
     /\ \A p \in ahead :
          /\ \A q \in ahead : p[1] <= q[1]
          /\ \A k \in c..p[1] : text[k] = "open" => SpanEnd(k) # 0
          => from[c] = p

\* At a cursor, from what it returns from the later ones on.
LEMMA FoundHere ==
  ASSUME text \in Seq(Tokens), NEW from, NEW c \in 1..(Len(text) + 1),
         from[c] = Searched(from, c),
         \A d \in (c + 1)..(Len(text) + 1) : FoundFrom(from, d)
  PROVE  FoundFrom(from, c)
<1> DEFINE n == Len(text)
           start == NextOpen(c)
           ahead == {p \in Arrays : c <= p[1]}
<1>1. /\ n \in Nat /\ c \in Nat /\ start \in c..(n + 1) /\ start \in Nat
      /\ start <= n => text[start] = "open"
      /\ \A k \in c..n : text[k] = "open" => start <= k
  BY NextOpenIs
<1>2. from[c] = IF start > n \/ SpanEnd(start) = 0 THEN NoSpan
                ELSE IF EntriesKept(start, SpanEnd(start)) > 0 THEN <<start, SpanEnd(start)>>
                ELSE from[start + 1]
  BY DEF Searched
<1>3. \A p \in Arrays : /\ p[1] \in 1..n /\ text[p[1]] = "open"
                        /\ p = <<p[1], SpanEnd(p[1])>> /\ SpanEnd(p[1]) # 0
                        /\ EntriesKept(p[1], SpanEnd(p[1])) > 0
  BY ArraysAreSpans
<1>4. /\ start <= n => start \in 1..n
      /\ \A k \in 1..n : c <= k => k \in c..n
  BY <1>1
<1>5. \A p \in ahead : p \in Arrays /\ start <= p[1] /\ p[1] \in Nat /\ p[1] <= n
  BY <1>1, <1>3, <1>4
<1>6. ASSUME ahead = {} => from[c] = NoSpan,
             \A p \in ahead :
               /\ \A q \in ahead : p[1] <= q[1]
               /\ \A k \in c..p[1] : text[k] = "open" => SpanEnd(k) # 0
               => from[c] = p
      PROVE  FoundFrom(from, c)
  BY <1>6 DEF FoundFrom
<1> HIDE DEF n, start, ahead
<1>7. CASE start > n
  <2>1. ahead = {}
    BY <1>1, <1>5, <1>7
  <2> QED
    BY <1>2, <1>6, <1>7, <2>1
<1>8. CASE ~(start > n) /\ SpanEnd(start) = 0
  <2>1. from[c] = NoSpan
    BY <1>2, <1>8
  <2>2. ASSUME NEW p \in ahead, \A k \in c..p[1] : text[k] = "open" => SpanEnd(k) # 0
        PROVE  FALSE
    <3>1. start \in c..p[1] /\ text[start] = "open"
      BY <1>1, <1>5, <1>8
    <3> QED
      BY <1>8, <2>2, <3>1
  <2> QED
    BY <1>6, <2>1, <2>2
<1>9. CASE /\ ~(start > n) /\ SpanEnd(start) # 0
           /\ EntriesKept(start, SpanEnd(start)) > 0
  <2>1. from[c] = <<start, SpanEnd(start)>>
    BY <1>2, <1>9
  <2>2. start \in 1..Len(text) /\ text[start] = "open"
    BY <1>1, <1>4, <1>9 DEF n
  <2>3. <<start, SpanEnd(start)>> \in Arrays
    BY <1>9, <2>2, ArraysAreSpans
  <2>4. <<start, SpanEnd(start)>> \in ahead
    BY <1>1, <2>3 DEF ahead
  <2>5. ASSUME NEW p \in ahead, \A q \in ahead : p[1] <= q[1]
        PROVE  from[c] = p
    <3>1. p[1] <= <<start, SpanEnd(start)>>[1]
      BY <2>4, <2>5
    <3>2. p[1] = start
      BY <1>1, <1>5, <3>1
    <3>3. p = <<p[1], SpanEnd(p[1])>>
      BY <1>3, <1>5
    <3> QED
      BY <2>1, <3>2, <3>3
  <2>6. ahead # {}
    BY <2>4
  <2> QED
    BY <1>6, <2>5, <2>6
<1>10. CASE /\ ~(start > n) /\ SpanEnd(start) # 0
            /\ ~(EntriesKept(start, SpanEnd(start)) > 0)
  <2> DEFINE later == {p \in Arrays : start + 1 <= p[1]}
  <2>1. from[c] = from[start + 1]
    BY <1>2, <1>10
  <2>2. FoundFrom(from, start + 1)
    <3>1. start + 1 \in (c + 1)..(Len(text) + 1)
      BY <1>1, <1>10 DEF n
    <3> QED
      BY <3>1
  <2>3. ahead = later
    <3>1. ASSUME NEW p \in ahead PROVE p \in later
      <4>1. p[1] # start
        BY <1>3, <1>5, <1>10
      <4>2. start + 1 <= p[1]
        BY <1>1, <1>5, <4>1
      <4> QED
        BY <1>5, <4>2
    <3>2. ASSUME NEW p \in later PROVE p \in ahead
      <4>1. p \in Arrays /\ p[1] \in 1..n /\ start + 1 <= p[1]
        BY <1>3
      <4>2. c <= p[1]
        BY <1>1, <4>1
      <4> QED
        BY <4>1, <4>2 DEF ahead
    <3> QED
      BY <3>1, <3>2
  <2>4. /\ later = {} => from[start + 1] = NoSpan
        /\ \A p \in later :
             /\ \A q \in later : p[1] <= q[1]
             /\ \A k \in (start + 1)..p[1] : text[k] = "open" => SpanEnd(k) # 0
             => from[start + 1] = p
    BY <2>2 DEF FoundFrom
  <2>5. ASSUME NEW p \in ahead,
               \A q \in ahead : p[1] <= q[1],
               \A k \in c..p[1] : text[k] = "open" => SpanEnd(k) # 0
        PROVE  from[c] = p
    <3>1. \A k \in (start + 1)..p[1] : k \in c..p[1]
      BY <1>1, <1>5
    <3>2. \A k \in (start + 1)..p[1] : text[k] = "open" => SpanEnd(k) # 0
      BY <2>5, <3>1
    <3>3. p \in later /\ \A q \in later : p[1] <= q[1]
      BY <2>3, <2>5
    <3> HIDE DEF later
    <3> QED
      BY <2>1, <2>4, <3>2, <3>3
  <2> HIDE DEF later
  <2> QED
    BY <1>6, <2>1, <2>3, <2>4, <2>5
<1> QED
  BY <1>7, <1>8, <1>9, <1>10

\* From every cursor, the last one first.
LEMMA ArrayIsFound ==
  ASSUME text \in Seq(Tokens)
  PROVE  \E from : ParsedArray = from[1] /\ FoundFrom(from, 1)
<1> DEFINE n == Len(text)
<1>1. n \in Nat
  OBVIOUS
<1>2. PICK from : /\ ParsedArray = from[1]
                  /\ \A c \in 1..(n + 1) : from[c] = Searched(from, c)
  BY SearchTurns
<1> DEFINE S == {j \in 0..n : \A c \in ((n + 1) - j)..(n + 1) : FoundFrom(from, c)}
<1>3. 0 \in S
  <2>1. \A c \in ((n + 1) - 0)..(n + 1) : c = n + 1
    BY <1>1
  <2>2. n + 1 \in 1..(n + 1) /\ ((n + 1) + 1)..(n + 1) = {} /\ 0 \in 0..n
    BY <1>1
  <2>3. FoundFrom(from, n + 1)
    BY <1>2, <2>2, FoundHere
  <2> QED
    BY <2>1, <2>2, <2>3
<1>4. ASSUME NEW j \in 0..(n - 1), j \in S PROVE j + 1 \in S
  <2> DEFINE b == (n + 1) - (j + 1)
  <2>1. /\ b \in 1..(n + 1) /\ j + 1 \in 0..n /\ b + 1 = (n + 1) - j
        /\ \A c \in b..(n + 1) : c = b \/ c \in (b + 1)..(n + 1)
    BY <1>1
  <2>2. \A c \in ((n + 1) - j)..(n + 1) : FoundFrom(from, c)
    BY <1>4
  <2> HIDE DEF b
  <2>3. \A c \in (b + 1)..(n + 1) : FoundFrom(from, c)
    BY <2>1, <2>2
  <2>4. FoundFrom(from, b)
    BY <1>2, <2>1, <2>3, FoundHere
  <2>5. \A c \in b..(n + 1) : FoundFrom(from, c)
    BY <2>1, <2>3, <2>4
  <2> QED
    BY <2>1, <2>5 DEF b
<1> HIDE DEF S
<1>5. n \in S
  <2>1. \A j \in 0..n : j \in S
    BY <1>1, <1>3, <1>4, InductionTo
  <2> QED
    BY <1>1, <2>1
<1>6. FoundFrom(from, 1)
  <2>1. 1 \in ((n + 1) - n)..(n + 1)
    BY <1>1
  <2> QED
    BY <1>5, <2>1 DEF S
<1> QED
  BY <1>2, <1>6

\* On every text.
LEMMA FirstArrayOfText ==
  ASSUME text \in Seq(Tokens)
  PROVE  FirstArrayWins
<1> DEFINE first == CHOOSE p \in Arrays : \A q \in Arrays : p[1] <= q[1]
           ahead == {p \in Arrays : 1 <= p[1]}
           own   == {p \in Pairs : p[1] = NextOpen(1) /\ Parses(p[1], p[2])}
<1>1. PICK from : ParsedArray = from[1] /\ FoundFrom(from, 1)
  BY ArrayIsFound
<1>2. \A p \in Arrays : p[1] \in 1..Len(text)
  BY ArraysAreSpans
<1>3. ahead = Arrays
  BY <1>2
<1>4. /\ ahead = {} => from[1] = NoSpan
      /\ \A p \in ahead :
           /\ \A q \in ahead : p[1] <= q[1]
           /\ \A k \in 1..p[1] : text[k] = "open" => SpanEnd(k) # 0
           => from[1] = p
  BY <1>1 DEF FoundFrom
<1> HIDE DEF ahead
<1>5. Arrays = {} => ParsedArray = NoSpan
  BY <1>1, <1>3, <1>4
<1>6. ASSUME Arrays # {}, \A k \in 1..first[1] : text[k] = "open" => SpanEnd(k) # 0
      PROVE  ParsedArray = first
  <2> DEFINE starts == {p[1] : p \in Arrays}
  <2>1. starts \in SUBSET Nat /\ starts # {}
    BY <1>2, <1>6
  <2>2. PICK s \in starts : \A t \in starts : s <= t
    <3> HIDE DEF starts
    <3> QED
      BY <2>1, LeastNumber
  <2>3. \E p \in Arrays : \A q \in Arrays : p[1] <= q[1]
    BY <2>2
  <2>4. first \in Arrays /\ \A q \in Arrays : first[1] <= q[1]
    BY <2>3
  <2> HIDE DEF first
  <2> QED
    BY <1>1, <1>3, <1>4, <1>6, <2>4
<1>7. IF own = {} THEN ParsedObject = NoSpan ELSE ParsedObject \in own
  <2> DEFINE start == NextOpen(1)
  <2>1. /\ 1 \in 1..(Len(text) + 1) /\ Len(text) \in Nat
        /\ start \in 1..(Len(text) + 1)
        /\ start <= Len(text) => text[start] = "open"
    <3>1. 1 \in 1..(Len(text) + 1) /\ Len(text) \in Nat
      OBVIOUS
    <3> QED
      BY <3>1, NextOpenIs
  <2>2. ParsedObject = IF start > Len(text) \/ SpanEnd(start) = 0 THEN NoSpan
                       ELSE IF Parses(start, SpanEnd(start)) THEN <<start, SpanEnd(start)>>
                       ELSE NoSpan
    BY DEF ParsedObject
  <2>3. start \in 1..Len(text) => text[start] = "open" /\ ~(start > Len(text))
    BY <2>1
  <2>4. ~(start > Len(text)) => start \in 1..Len(text)
    BY <2>1
  <2> HIDE DEF start
  <2>5. ASSUME NEW p \in own
        PROVE  /\ start \in 1..Len(text) /\ SpanEnd(start) # 0
               /\ Parses(start, SpanEnd(start)) /\ p = <<start, SpanEnd(start)>>
    <3>1. /\ p[1] \in 1..Len(text) /\ p[2] \in 1..Len(text) /\ p = <<p[1], p[2]>>
          /\ IsPair(p[1], p[2]) /\ p[1] = start /\ Parses(p[1], p[2])
      BY DEF Pairs, start
    <3>2. SpanEnd(p[1]) = p[2]
      BY <3>1, SpanOfPair
    <3> QED
      BY <3>1, <3>2
  <2>6. ASSUME start \in 1..Len(text), SpanEnd(start) # 0, Parses(start, SpanEnd(start))
        PROVE  <<start, SpanEnd(start)>> \in own
    <3>1. SpanEnd(start) \in 1..Len(text) /\ IsPair(start, SpanEnd(start))
      BY <2>3, <2>6, PairOfSpan
    <3> QED
      BY <2>6, <3>1 DEF Pairs, start
  <2> HIDE DEF own
  <2>7. CASE own = {}
    <3>1. ~(start \in 1..Len(text) /\ SpanEnd(start) # 0 /\ Parses(start, SpanEnd(start)))
      BY <2>6, <2>7
    <3> QED
      BY <2>2, <2>4, <2>7, <3>1
  <2>8. CASE own # {}
    <3>1. /\ start \in 1..Len(text) /\ SpanEnd(start) # 0
          /\ Parses(start, SpanEnd(start)) /\ <<start, SpanEnd(start)>> \in own
      BY <2>5, <2>8
    <3>2. ParsedObject = <<start, SpanEnd(start)>>
      BY <2>2, <2>3, <3>1
    <3> QED
      BY <2>8, <3>1, <3>2
  <2> QED
    BY <2>7, <2>8
<1> QED
  BY <1>5, <1>6, <1>7 DEF FirstArrayWins

\* A text is a sequence of tokens.
LEMMA TextsAlways == StreamSpec => [](text \in Seq(Tokens))
<1>1. StreamInit => text \in Seq(Tokens)
  BY DEF StreamInit
<1>2. text \in Seq(Tokens) /\ [StreamNext]_text => (text \in Seq(Tokens))'
  BY DEF StreamNext, Stream
<1> QED
  BY <1>1, <1>2, PTL DEF StreamSpec

\* "We retry from each subsequent `[` until one yields a parseable array"
\* (architecture-analyzer.ts:518-520): of a reply of any length, the parsers of lists
\* return the first array that holds an entry, provided that every bracket before it
\* is closed somewhere, and the parsers of one object return the first bracket's or
\* fail.
THEOREM FirstArrayWinsAlways == StreamSpec => []FirstArrayWins
<1>1. text \in Seq(Tokens) => FirstArrayWins
  BY FirstArrayOfText
<1> QED
  BY <1>1, TextsAlways, PTL

-----------------------------------------------------------------------------
(* Replies: the objects of a text                                          *)

\* A bracket that opens where none is open, and one under which all stays open.
TopOpen(s)      == text[s] = "open" /\ ~InString(1, s) /\ Depth(1, s - 1) = 0
OpenFrom(s, k)  == \A j \in s..k : Depth(1, j) > 0

\* The objects that parse.
Objects == {p \in TopLevel : Parses(p[1], p[2])}

\* The objects of the text itself in terms of the depth.
LEMMA TopLevelByDepth ==
  ASSUME text \in Seq(Tokens), NEW s \in 1..Len(text), NEW e \in 1..Len(text)
  PROVE  <<s, e>> \in TopLevel <=>
           TopOpen(s) /\ s < e /\ Depth(1, e) = 0 /\ OpenFrom(s, e - 1)
<1>1. /\ s \in Nat /\ e \in Nat /\ 1 \in Nat \ {0} /\ 1 \in Nat /\ 1 <= s
      /\ \A k \in s..(e - 1) : k \in (s - 1)..e
      /\ s < e => e \in (s - 1)..e
  OBVIOUS
<1>2. Depth(1, s - 1) = 0 <=> Bare(1, s - 1, "open") = Bare(1, s - 1, "close")
  <2>1. Bare(1, s - 1, "open") \in Nat /\ Bare(1, s - 1, "close") \in Nat
    BY <1>1, BareStep
  <2> QED
    BY <2>1 DEF Depth
<1>3. IsPair(s, e) <=> /\ text[s] = "open" /\ s < e /\ Depth(s, e) = 0
                       /\ \A k \in s..(e - 1) : Depth(s, k) > 0
  BY <1>1, PairByDepth
<1>4. ASSUME TopOpen(s)
      PROVE  /\ s < e => Depth(s, e) = Depth(1, e)
             /\ \A k \in s..(e - 1) : Depth(s, k) = Depth(1, k)
  <2>1. text[s] = "open" /\ ~InString(1, s) /\ Depth(1, s - 1) = 0
    BY <1>4 DEF TopOpen
  <2>2. \A k \in (s - 1)..e : Depth(s, k) = Depth(1, k) - Depth(1, s - 1)
    BY <1>1, <2>1, DepthFrom
  <2>3. ASSUME NEW k \in (s - 1)..e PROVE Depth(s, k) = Depth(1, k)
    <3>1. Depth(1, k) \in Int
      <4>1. CASE k = s - 1
        BY <2>1, <4>1
      <4>2. CASE k # s - 1
        <5>1. k \in Nat /\ 1 <= k
          BY <1>1, <4>2
        <5> QED
          BY <1>1, <5>1, DepthStep
      <4> QED
        BY <4>1, <4>2
    <3> QED
      BY <2>1, <2>2, <3>1
  <2> QED
    BY <1>1, <2>3
<1>5. <<s, e>> \in TopLevel <=>
        IsPair(s, e) /\ ~InString(1, s) /\ Bare(1, s - 1, "open") = Bare(1, s - 1, "close")
  BY DEF TopLevel, Pairs
<1>6. CASE TopOpen(s)
  <2>1. IsPair(s, e) <=> s < e /\ Depth(1, e) = 0 /\ OpenFrom(s, e - 1)
    BY <1>3, <1>4, <1>6 DEF TopOpen, OpenFrom
  <2> QED
    BY <1>2, <1>5, <1>6, <2>1 DEF TopOpen
<1>7. CASE ~TopOpen(s)
  BY <1>2, <1>3, <1>5, <1>7 DEF TopOpen
<1> QED
  BY <1>6, <1>7

\* Where the loop is behind a character: what it counts is what the text says, an
\* object it is in begins where it has noted, and it has found those behind it.
CountsAt(k) ==
  LET acc == Rehydration[k]
  IN /\ acc.inString <=> InString(1, k + 1)
     /\ acc.escape <=> Backslashes(1, k + 1) % 2 = 1
     /\ acc.escape => acc.inString
     /\ acc.depth = Depth(1, k)

StartAt(k) ==
  LET acc == Rehydration[k]
  IN /\ acc.depth >= 0
     /\ acc.depth = 0 => acc.start = 0
     /\ acc.depth > 0 => acc.start \in 1..k /\ TopOpen(acc.start) /\ OpenFrom(acc.start, k)

FoundAt(k) ==
  LET acc == Rehydration[k]
  IN /\ \A a \in DOMAIN acc.found : acc.found[a] \in Objects /\ acc.found[a][2] <= k
     /\ \A p \in Objects : p[2] <= k => \E a \in DOMAIN acc.found : acc.found[a] = p
     /\ \A a, b \in DOMAIN acc.found : a < b => acc.found[a][2] < acc.found[b][1]
     /\ acc.depth > 0 => \A a \in DOMAIN acc.found : acc.found[a][2] < acc.start

\* Up to an orderly character no bracket is closed that was not open.
LEMMA OrderlyDepth ==
  ASSUME NEW k \in 1..Len(text), Orderly(k), Len(text) \in Nat
  PROVE  Depth(1, k) >= 0
<1>1. 1 \in Nat /\ k + 1 \in Nat /\ 1 <= k + 1 /\ (k + 1) - 1 = k
  OBVIOUS
<1>2. Bare(1, (k + 1) - 1, "open") \in Nat /\ Bare(1, (k + 1) - 1, "close") \in Nat
  BY <1>1, BareStep
<1> QED
  BY <1>1, <1>2 DEF Depth, Orderly

\* What the next character is for the loop.
LEMMA CountsOn ==
  ASSUME text \in Seq(Tokens), NEW k \in 1..Len(text), Orderly(k), CountsAt(k - 1)
  PROVE  CountsAt(k)
<1> DEFINE a == Rehydration[k - 1]
           b == Rehydration[k]
           n == Backslashes(1, k)
           m == Backslashes(1, k + 1)
<1>1. k \in Nat /\ 1 \in Nat /\ 1 <= k /\ k - 1 \in 0..Len(text) /\ (k - 1) + 1 = k
  OBVIOUS
<1>2. a \in RehydrateStates /\ b = RehydrateNext(a, k)
  BY <1>1, RehydrationTurns
<1>3. /\ a = [depth |-> a.depth, start |-> a.start, inString |-> a.inString,
              escape |-> a.escape, found |-> a.found]
      /\ a.depth \in Int /\ a.inString \in BOOLEAN /\ a.escape \in BOOLEAN
  BY <1>2 DEF RehydrateStates
<1>4. /\ n \in Nat
      /\ text[k] = "backslash" => m = n + 1
      /\ text[k] # "backslash" => m = 0
  <2>1. n \in 0..(k - 1)
    BY <1>1, BackslashRun
  <2> QED
    BY <1>1, <2>1, BackslashStep
<1>5. /\ text[k] = "quote" /\ n % 2 = 0 => (InString(1, k + 1) <=> ~InString(1, k))
      /\ ~(text[k] = "quote" /\ n % 2 = 0) => (InString(1, k + 1) <=> InString(1, k))
  BY <1>1, InStringStep
<1>6. /\ Depth(1, k - 1) \in Int
      /\ InString(1, k) => Depth(1, k) = Depth(1, k - 1)
      /\ ~InString(1, k) =>
           /\ text[k] = "open" => Depth(1, k) = Depth(1, k - 1) + 1
           /\ text[k] = "close" => Depth(1, k) = Depth(1, k - 1) - 1
           /\ text[k] \notin {"open", "close"} => Depth(1, k) = Depth(1, k - 1)
  BY <1>1, DepthStep
<1>7. /\ a.inString <=> InString(1, k)
      /\ a.escape <=> n % 2 = 1
      /\ a.escape => a.inString
      /\ a.depth = Depth(1, k - 1)
  BY <1>1 DEF CountsAt
<1>8. /\ 0 % 2 = 0
      /\ n % 2 = 0 \/ n % 2 = 1
      /\ (n + 1) % 2 = 1 <=> n % 2 = 0
  BY <1>4
<1>9. text[k] = "backslash" => InString(1, k)
  BY DEF Orderly
<1> DEFINE Goal == /\ b.inString <=> InString(1, k + 1)
                   /\ b.escape <=> m % 2 = 1
                   /\ b.escape => b.inString
                   /\ b.depth = Depth(1, k)
<1> SUFFICES Goal
  BY DEF CountsAt
<1> HIDE DEF a, b, n, m
<1>10. CASE a.escape
  <2>1. b.inString = a.inString /\ (b.escape <=> FALSE) /\ b.depth = a.depth
    BY <1>2, <1>3, <1>10 DEF RehydrateNext
  <2>2. InString(1, k) /\ n % 2 = 1
    BY <1>7, <1>10
  <2>3. m % 2 # 1 /\ InString(1, k + 1)
    BY <1>4, <1>5, <1>8, <2>2
  <2> QED
    BY <1>6, <1>7, <2>1, <2>2, <2>3
<1>11. CASE ~a.escape /\ text[k] = "backslash"
  <2>1. b.inString = a.inString /\ (b.escape <=> TRUE) /\ b.depth = a.depth
    BY <1>2, <1>3, <1>11 DEF RehydrateNext
  <2>2. InString(1, k) /\ n % 2 = 0
    BY <1>7, <1>8, <1>9, <1>11
  <2>3. m % 2 = 1 /\ InString(1, k + 1)
    BY <1>4, <1>5, <1>8, <1>11, <2>2
  <2> QED
    BY <1>6, <1>7, <2>1, <2>2, <2>3
<1>12. CASE ~a.escape /\ text[k] = "quote"
  <2>1. b = [a EXCEPT !.inString = ~a.inString]
    BY <1>2, <1>12 DEF RehydrateNext
  <2>2. (b.inString <=> ~a.inString) /\ b.escape = a.escape /\ b.depth = a.depth
    BY <1>3, <2>1
  <2>3. n % 2 = 0 /\ m % 2 # 1
    BY <1>4, <1>7, <1>8, <1>12
  <2>4. InString(1, k + 1) <=> ~InString(1, k)
    BY <1>5, <1>12, <2>3
  <2>5. Depth(1, k) = Depth(1, k - 1)
    BY <1>6, <1>12
  <2> QED
    BY <1>7, <1>12, <2>2, <2>3, <2>4, <2>5
<1>13. CASE ~a.escape /\ text[k] \notin {"backslash", "quote"}
  <2>1. m % 2 # 1 /\ (InString(1, k + 1) <=> InString(1, k))
    BY <1>4, <1>5, <1>8, <1>13
  <2>2. b.inString = a.inString /\ b.escape = a.escape
    BY <1>2, <1>3, <1>13 DEF RehydrateNext
  <2>3. b.depth = Depth(1, k)
    <3>1. CASE a.inString \/ text[k] \notin {"open", "close"}
      <4>1. b = a
        BY <1>2, <1>13, <3>1 DEF RehydrateNext
      <4> QED
        BY <1>6, <1>7, <3>1, <4>1
    <3>2. CASE ~a.inString /\ text[k] = "open"
      <4>1. b.depth = a.depth + 1
        BY <1>2, <1>3, <1>13, <3>2 DEF RehydrateNext
      <4> QED
        BY <1>6, <1>7, <3>2, <4>1
    <3>3. CASE ~a.inString /\ text[k] = "close"
      <4>1. b.depth = a.depth - 1
        BY <1>2, <1>3, <1>13, <3>3 DEF RehydrateNext
      <4> QED
        BY <1>6, <1>7, <3>3, <4>1
    <3> QED
      BY <3>1, <3>2, <3>3
  <2> QED
    BY <1>7, <1>13, <2>1, <2>2, <2>3
<1> QED
  BY <1>10, <1>11, <1>12, <1>13

\* What a character does to the bracket that is noted and to the objects found.
LEMMA RehydrationMoves ==
  ASSUME text \in Seq(Tokens), NEW k \in 1..Len(text), Orderly(k), CountsAt(k - 1)
  PROVE  LET a == Rehydration[k - 1]
             b == Rehydration[k]
         IN /\ InString(1, k) \/ text[k] \notin {"open", "close"} =>
                 b.depth = a.depth /\ b.start = a.start /\ b.found = a.found
            /\ ~InString(1, k) /\ text[k] = "open" =>
                 /\ b.depth = a.depth + 1
                 /\ b.start = IF a.depth = 0 THEN k ELSE a.start
                 /\ b.found = a.found
            /\ ~InString(1, k) /\ text[k] = "close" =>
                 /\ b.depth = a.depth - 1
                 /\ a.depth = 1 /\ a.start > 0 => b.start = 0
                 /\ ~(a.depth = 1 /\ a.start > 0) => b.start = a.start
                 /\ b.found = IF a.depth = 1 /\ a.start > 0 /\ Parses(a.start, k)
                                THEN Append(a.found, <<a.start, k>>) ELSE a.found
<1> DEFINE a == Rehydration[k - 1]
           b == Rehydration[k]
<1>1. k - 1 \in 0..Len(text) /\ (k - 1) + 1 = k
  OBVIOUS
<1>2. a \in RehydrateStates /\ b = RehydrateNext(a, k)
  BY <1>1, RehydrationTurns
<1>3. /\ a = [depth |-> a.depth, start |-> a.start, inString |-> a.inString,
              escape |-> a.escape, found |-> a.found]
      /\ a.depth \in Int /\ a.start \in Nat /\ a.inString \in BOOLEAN /\ a.escape \in BOOLEAN
  BY <1>2 DEF RehydrateStates
<1>4. (a.inString <=> InString(1, k)) /\ (a.escape => a.inString)
  BY <1>1 DEF CountsAt
<1> HIDE DEF a, b
<1>5. ASSUME InString(1, k) \/ text[k] \notin {"open", "close"}
      PROVE  b.depth = a.depth /\ b.start = a.start /\ b.found = a.found
  <2>1. CASE a.escape
    BY <1>2, <1>3, <2>1 DEF RehydrateNext
  <2>2. CASE ~a.escape /\ text[k] = "backslash"
    BY <1>2, <1>3, <2>2 DEF RehydrateNext
  <2>3. CASE ~a.escape /\ text[k] = "quote"
    <3>1. b = [a EXCEPT !.inString = ~a.inString]
      BY <1>2, <2>3 DEF RehydrateNext
    <3> QED
      BY <1>3, <3>1
  <2>4. CASE ~a.escape /\ text[k] \notin {"backslash", "quote"}
    <3>1. b = a
      BY <1>2, <1>4, <1>5, <2>4 DEF RehydrateNext
    <3> QED
      BY <3>1
  <2> QED
    BY <2>1, <2>2, <2>3, <2>4
<1>6. ASSUME ~InString(1, k), text[k] = "open"
      PROVE  /\ b.depth = a.depth + 1
             /\ b.start = IF a.depth = 0 THEN k ELSE a.start
             /\ b.found = a.found
  <2>1. b = [a EXCEPT !.depth = a.depth + 1, !.start = IF a.depth = 0 THEN k ELSE a.start]
    BY <1>2, <1>4, <1>6 DEF RehydrateNext
  <2> QED
    BY <1>3, <2>1
<1>7. ASSUME ~InString(1, k), text[k] = "close"
      PROVE  /\ b.depth = a.depth - 1
             /\ a.depth = 1 /\ a.start > 0 => b.start = 0
             /\ ~(a.depth = 1 /\ a.start > 0) => b.start = a.start
             /\ b.found = IF a.depth = 1 /\ a.start > 0 /\ Parses(a.start, k)
                            THEN Append(a.found, <<a.start, k>>) ELSE a.found
  <2> DEFINE closes == a.depth = 1 /\ a.start > 0
             start  == IF closes THEN 0 ELSE a.start
             found  == IF closes /\ Parses(a.start, k)
                         THEN Append(a.found, <<a.start, k>>) ELSE a.found
  <2>1. b = [a EXCEPT !.depth = a.depth - 1, !.start = start, !.found = found]
    BY <1>2, <1>4, <1>7 DEF RehydrateNext
  <2> HIDE DEF start, found
  <2>2. b.depth = a.depth - 1 /\ b.start = start /\ b.found = found
    BY <1>3, <2>1
  <2> QED
    BY <2>2 DEF start, found
<1> QED
  BY <1>5, <1>6, <1>7 DEF a, b

\* The bracket that is noted is the one that opened where none was open.
LEMMA StartOn ==
  ASSUME text \in Seq(Tokens), NEW k \in 1..Len(text), Orderly(k),
         CountsAt(k - 1), CountsAt(k), StartAt(k - 1)
  PROVE  StartAt(k)
<1> DEFINE a == Rehydration[k - 1]
           b == Rehydration[k]
<1>1. /\ k \in Nat /\ k - 1 \in Nat /\ k \in 1..k /\ (\A j \in 1..(k - 1) : j \in 1..k)
      /\ \A s \in Nat, j \in Nat : j \in s..k => j \in s..(k - 1) \/ j = k
      /\ k - 1 \in 0..Len(text)
      /\ \A j \in k..k : j = k
  OBVIOUS
<1>2. /\ InString(1, k) \/ text[k] \notin {"open", "close"} =>
           b.depth = a.depth /\ b.start = a.start /\ b.found = a.found
      /\ ~InString(1, k) /\ text[k] = "open" =>
           /\ b.depth = a.depth + 1
           /\ b.start = IF a.depth = 0 THEN k ELSE a.start
           /\ b.found = a.found
      /\ ~InString(1, k) /\ text[k] = "close" =>
           /\ b.depth = a.depth - 1
           /\ a.depth = 1 /\ a.start > 0 => b.start = 0
           /\ ~(a.depth = 1 /\ a.start > 0) => b.start = a.start
  BY RehydrationMoves
<1>3. a.depth = Depth(1, k - 1) /\ b.depth = Depth(1, k)
  BY DEF CountsAt
<1>4. /\ a.depth >= 0
      /\ a.depth = 0 => a.start = 0
      /\ a.depth > 0 => a.start \in 1..(k - 1) /\ TopOpen(a.start) /\ OpenFrom(a.start, k - 1)
  BY DEF StartAt
<1>5. b.depth >= 0
  BY <1>3, OrderlyDepth
<1>6. a.depth \in Int
  <2>1. a \in RehydrateStates
    BY <1>1, RehydrationTurns
  <2> QED
    BY <2>1 DEF RehydrateStates
<1> HIDE DEF a, b
<1>7. ASSUME b.depth > 0, a.depth > 0, b.start = a.start
      PROVE  b.start \in 1..k /\ TopOpen(b.start) /\ OpenFrom(b.start, k)
  <2>1. a.start \in 1..(k - 1) /\ TopOpen(a.start) /\ OpenFrom(a.start, k - 1)
    BY <1>4, <1>7
  <2>2. Depth(1, k) > 0
    BY <1>3, <1>7
  <2>3. \A j \in a.start..k : j = k \/ j \in a.start..(k - 1)
    BY <1>1, <2>1
  <2>4. OpenFrom(a.start, k)
    BY <2>1, <2>2, <2>3 DEF OpenFrom
  <2> QED
    BY <1>1, <1>7, <2>1, <2>4
<1> DEFINE Goal == /\ b.depth = 0 => b.start = 0
                   /\ b.depth > 0 =>
                        b.start \in 1..k /\ TopOpen(b.start) /\ OpenFrom(b.start, k)
<1> SUFFICES Goal
  BY <1>5 DEF StartAt, b
<1>8. CASE InString(1, k) \/ text[k] \notin {"open", "close"}
  BY <1>2, <1>4, <1>7, <1>8
<1>9. CASE ~InString(1, k) /\ text[k] = "open"
  <2>1. CASE a.depth = 0
    <3>1. b.depth = 1 /\ b.start = k
      BY <1>2, <1>9, <2>1
    <3>2. TopOpen(k)
      BY <1>3, <1>9, <2>1 DEF TopOpen
    <3>3. OpenFrom(k, k)
      BY <1>1, <1>3, <3>1 DEF OpenFrom
    <3> QED
      BY <1>1, <3>1, <3>2, <3>3
  <2>2. CASE a.depth # 0
    <3>1. b.depth > 0 /\ a.depth > 0 /\ b.start = a.start
      BY <1>2, <1>4, <1>6, <1>9, <2>2
    <3> QED
      BY <1>7, <3>1
  <2> QED
    BY <2>1, <2>2
<1>10. CASE ~InString(1, k) /\ text[k] = "close"
  <2>1. b.depth = a.depth - 1 /\ a.depth > 0
    BY <1>2, <1>4, <1>5, <1>6, <1>10
  <2>2. CASE a.depth = 1
    <3>1. a.start > 0
      BY <1>1, <1>4, <2>1
    <3>2. b.start = 0 /\ b.depth = 0
      BY <1>2, <1>10, <2>1, <2>2, <3>1
    <3> QED
      BY <3>2
  <2>3. CASE a.depth # 1
    <3>1. b.depth > 0 /\ b.start = a.start
      BY <1>2, <1>6, <1>10, <2>1, <2>3
    <3> QED
      BY <1>7, <2>1, <3>1
  <2> QED
    BY <2>2, <2>3
<1> QED
  BY <1>8, <1>9, <1>10

\* A character at which no object ends.
LEMMA NoObjectEnds ==
  ASSUME text \in Seq(Tokens), NEW k \in 1..Len(text),
         InString(1, k) \/ text[k] # "close" \/ Depth(1, k) # 0
  PROVE  \A p \in Objects : p[2] # k
<1> SUFFICES ASSUME NEW p \in Objects, p[2] = k PROVE FALSE
  OBVIOUS
<1>1. /\ p \in TopLevel /\ p[1] \in 1..Len(text) /\ p[2] \in 1..Len(text) /\ p = <<p[1], p[2]>>
  BY DEF Objects, TopLevel, Pairs
<1>2. p[1] < k /\ Depth(1, k) = 0 /\ OpenFrom(p[1], k - 1)
  BY <1>1, TopLevelByDepth
<1>3. k - 1 \in p[1]..(k - 1) /\ k \in Nat /\ 1 \in Nat /\ 1 <= k
  BY <1>1, <1>2
<1>4. Depth(1, k - 1) > 0
  BY <1>2, <1>3 DEF OpenFrom
<1>5. /\ Depth(1, k - 1) \in Int
      /\ InString(1, k) => Depth(1, k) = Depth(1, k - 1)
      /\ ~InString(1, k) =>
           /\ text[k] = "open" => Depth(1, k) = Depth(1, k - 1) + 1
           /\ text[k] = "close" => Depth(1, k) = Depth(1, k - 1) - 1
           /\ text[k] \notin {"open", "close"} => Depth(1, k) = Depth(1, k - 1)
  BY <1>3, DepthStep
<1> QED
  BY <1>2, <1>4, <1>5

\* At a character that closes the last bracket, the object that ends is the noted one.
LEMMA ObjectThatEnds ==
  ASSUME text \in Seq(Tokens), NEW k \in 1..Len(text), NEW s \in 1..(k - 1),
         TopOpen(s), OpenFrom(s, k - 1), Depth(1, k) = 0
  PROVE  /\ <<s, k>> \in TopLevel
         /\ \A p \in TopLevel : p[2] = k => p = <<s, k>>
<1>1. s \in 1..Len(text) /\ s < k /\ s \in Nat /\ k \in Nat
  OBVIOUS
<1>2. <<s, k>> \in TopLevel
  BY <1>1, TopLevelByDepth
<1>3. ASSUME NEW p \in TopLevel, p[2] = k PROVE p = <<s, k>>
  <2>1. p[1] \in 1..Len(text) /\ p = <<p[1], k>>
    BY <1>3 DEF TopLevel, Pairs
  <2>2. TopOpen(p[1]) /\ p[1] < k /\ OpenFrom(p[1], k - 1)
    BY <1>3, <2>1, TopLevelByDepth
  <2>3. CASE s < p[1]
    <3>1. p[1] - 1 \in s..(k - 1)
      BY <1>1, <2>1, <2>2, <2>3
    <3>2. Depth(1, p[1] - 1) > 0 /\ Depth(1, p[1] - 1) = 0
      BY <2>2, <3>1 DEF OpenFrom, TopOpen
    <3> QED
      BY <3>2
  <2>4. CASE p[1] < s
    <3>1. s - 1 \in p[1]..(k - 1)
      BY <1>1, <2>1, <2>4
    <3>2. Depth(1, s - 1) > 0 /\ Depth(1, s - 1) = 0
      BY <2>2, <3>1 DEF OpenFrom, TopOpen
    <3> QED
      BY <3>2
  <2> QED
    BY <1>1, <2>1, <2>3, <2>4
<1> QED
  BY <1>2, <1>3

\* The objects found are those that have ended, in the order in which they ended.
LEMMA FoundOn ==
  ASSUME text \in Seq(Tokens), NEW k \in 1..Len(text), Orderly(k),
         CountsAt(k - 1), CountsAt(k), StartAt(k - 1), FoundAt(k - 1)
  PROVE  FoundAt(k)
<1> DEFINE a == Rehydration[k - 1]
           b == Rehydration[k]
<1>1. /\ k \in Nat /\ k - 1 \in Nat /\ k - 1 \in 0..Len(text) /\ k \in 1..k
      /\ \A j \in Nat : (j <= k - 1 => j <= k /\ j < k) /\ (j <= k /\ j # k => j <= k - 1)
  OBVIOUS
<1>2. /\ InString(1, k) \/ text[k] \notin {"open", "close"} =>
           b.depth = a.depth /\ b.start = a.start /\ b.found = a.found
      /\ ~InString(1, k) /\ text[k] = "open" =>
           /\ b.depth = a.depth + 1
           /\ b.start = IF a.depth = 0 THEN k ELSE a.start
           /\ b.found = a.found
      /\ ~InString(1, k) /\ text[k] = "close" =>
           /\ b.depth = a.depth - 1
           /\ a.depth = 1 /\ a.start > 0 => b.start = 0
           /\ ~(a.depth = 1 /\ a.start > 0) => b.start = a.start
           /\ b.found = IF a.depth = 1 /\ a.start > 0 /\ Parses(a.start, k)
                          THEN Append(a.found, <<a.start, k>>) ELSE a.found
  BY RehydrationMoves
<1>3. a.depth = Depth(1, k - 1) /\ b.depth = Depth(1, k)
  BY DEF CountsAt
<1>4. /\ a.depth >= 0
      /\ a.depth > 0 => a.start \in 1..(k - 1) /\ TopOpen(a.start) /\ OpenFrom(a.start, k - 1)
  BY DEF StartAt
<1>5. a.depth \in Int /\ a.start \in Nat /\ a.found \in Seq(Nat \X Nat)
  <2>1. a \in RehydrateStates
    BY <1>1, RehydrationTurns
  <2> QED
    BY <2>1 DEF RehydrateStates
<1>6. \A p \in Objects : p \in TopLevel /\ Parses(p[1], p[2]) /\ p[1] \in Nat /\ p[2] \in Nat
  BY DEF Objects, TopLevel, Pairs
<1>7. /\ \A x \in DOMAIN a.found : a.found[x] \in Objects /\ a.found[x][2] <= k - 1
      /\ \A p \in Objects : p[2] <= k - 1 => \E x \in DOMAIN a.found : a.found[x] = p
      /\ \A x, y \in DOMAIN a.found : x < y => a.found[x][2] < a.found[y][1]
      /\ a.depth > 0 => \A x \in DOMAIN a.found : a.found[x][2] < a.start
  BY DEF FoundAt
<1> HIDE DEF a, b
<1>8. \A x \in DOMAIN a.found : a.found[x][2] <= k /\ a.found[x][2] < k
  BY <1>1, <1>6, <1>7
<1> DEFINE Goal == /\ \A x \in DOMAIN b.found : b.found[x] \in Objects /\ b.found[x][2] <= k
                   /\ \A p \in Objects : p[2] <= k => \E x \in DOMAIN b.found : b.found[x] = p
                   /\ \A x, y \in DOMAIN b.found : x < y => b.found[x][2] < b.found[y][1]
                   /\ b.depth > 0 => \A x \in DOMAIN b.found : b.found[x][2] < b.start
<1> SUFFICES Goal
  BY DEF FoundAt, b
<1>9. ASSUME b.found = a.found, \A p \in Objects : p[2] # k,
             b.depth > 0 => \A x \in DOMAIN a.found : a.found[x][2] < b.start
      PROVE  Goal
  <2>1. \A p \in Objects : p[2] <= k => p[2] <= k - 1
    BY <1>1, <1>6, <1>9
  <2> QED
    BY <1>7, <1>8, <1>9, <2>1
<1>10. CASE InString(1, k) \/ text[k] \notin {"open", "close"}
  <2>1. \A p \in Objects : p[2] # k
    BY <1>10, NoObjectEnds
  <2> HIDE DEF Goal
  <2> QED
    BY <1>2, <1>7, <1>9, <1>10, <2>1
<1>11. CASE ~InString(1, k) /\ text[k] = "open"
  <2>1. \A p \in Objects : p[2] # k
    BY <1>11, NoObjectEnds
  <2>2. b.found = a.found /\ b.start = IF a.depth = 0 THEN k ELSE a.start
    BY <1>2, <1>11
  <2>3. a.depth # 0 => a.depth > 0
    BY <1>4, <1>5
  <2>4. \A x \in DOMAIN a.found : a.found[x][2] < b.start
    BY <1>7, <1>8, <2>2, <2>3
  <2> HIDE DEF Goal
  <2> QED
    BY <1>9, <2>1, <2>2, <2>4
<1>12. CASE ~InString(1, k) /\ text[k] = "close" /\ a.depth # 1
  <2>1. b.depth = a.depth - 1 /\ b.start = a.start /\ b.found = a.found
    BY <1>2, <1>12
  <2>2. b.depth # 0 /\ (b.depth > 0 => a.depth > 0)
    BY <1>4, <1>5, <1>12, <2>1
  <2>3. \A p \in Objects : p[2] # k
    BY <1>3, <2>2, NoObjectEnds
  <2> HIDE DEF Goal
  <2> QED
    BY <1>7, <1>9, <2>1, <2>2, <2>3
<1>13. CASE ~InString(1, k) /\ text[k] = "close" /\ a.depth = 1
  <2> DEFINE s == a.start
  <2>1. s \in 1..(k - 1) /\ TopOpen(s) /\ OpenFrom(s, k - 1) /\ s > 0
    BY <1>4, <1>13
  <2>2. b.depth = 0 /\ Depth(1, k) = 0
    BY <1>2, <1>3, <1>13
  <2>3. <<s, k>> \in TopLevel /\ \A p \in TopLevel : p[2] = k => p = <<s, k>>
    BY <2>1, <2>2, ObjectThatEnds
  <2>4. b.found = IF Parses(s, k) THEN Append(a.found, <<s, k>>) ELSE a.found
    BY <1>2, <1>13, <2>1
  <2>5. \A x \in DOMAIN a.found : a.found[x][2] < s
    BY <1>7, <1>13
  <2>6. CASE ~Parses(s, k)
    <3>1. \A p \in Objects : p[2] # k
      <4>1. ASSUME NEW p \in Objects, p[2] = k PROVE FALSE
        <5>1. p = <<s, k>> /\ Parses(p[1], p[2])
          BY <1>6, <2>3, <4>1
        <5>2. p[1] = s /\ p[2] = k
          BY <5>1
        <5> QED
          BY <2>6, <5>1, <5>2
      <4> QED
        BY <4>1
    <3> HIDE DEF Goal, s
    <3> QED
      BY <1>9, <2>2, <2>4, <2>6, <3>1
  <2>7. CASE Parses(s, k)
    <3> DEFINE m == Len(a.found)
    <3>1. <<s, k>> \in Objects
      BY <2>3, <2>7 DEF Objects
    <3>2. /\ m \in Nat /\ DOMAIN a.found = 1..m /\ DOMAIN b.found = 1..(m + 1)
          /\ \A x \in 1..m : b.found[x] = a.found[x]
          /\ b.found[m + 1] = <<s, k>>
      <4>1. b.found = Append(a.found, <<s, k>>)
        BY <2>4, <2>7
      <4>2. <<s, k>> \in Nat \X Nat
        BY <1>1, <1>5
      <4> QED
        BY <1>5, <4>1, <4>2
    <3> HIDE DEF m, s
    <3>3. \A x \in 1..(m + 1) : x \in 1..m \/ x = m + 1
      BY <3>2
    <3>4. \A x, y \in 1..(m + 1) : x < y => x \in 1..m
      BY <3>2
    <3>5. <<s, k>>[1] = s /\ <<s, k>>[2] = k /\ k <= k
      BY <1>1
    <3>6. \A x \in DOMAIN b.found : b.found[x] \in Objects /\ b.found[x][2] <= k
      BY <1>7, <1>8, <3>1, <3>2, <3>3, <3>5
    <3>7. ASSUME NEW p \in Objects, p[2] <= k PROVE \E x \in DOMAIN b.found : b.found[x] = p
      <4>1. CASE p[2] = k
        <5>1. p = <<s, k>>
          BY <1>6, <2>3, <4>1
        <5>2. m + 1 \in 1..(m + 1)
          BY <3>2
        <5> QED
          BY <3>2, <5>1, <5>2
      <4>2. CASE p[2] # k
        <5>1. p[2] <= k - 1
          BY <1>1, <1>6, <3>7, <4>2
        <5>2. PICK x \in DOMAIN a.found : a.found[x] = p
          BY <1>7, <5>1
        <5>3. x \in 1..m /\ x \in 1..(m + 1)
          BY <3>2, <5>2
        <5> QED
          BY <3>2, <5>2, <5>3
      <4> QED
        BY <4>1, <4>2
    <3>8. ASSUME NEW x \in DOMAIN b.found, NEW y \in DOMAIN b.found, x < y
          PROVE  b.found[x][2] < b.found[y][1]
      <4>1. x \in 1..m /\ b.found[x] = a.found[x] /\ x \in DOMAIN a.found
        BY <3>2, <3>4, <3>8
      <4>2. CASE y \in 1..m
        BY <1>7, <3>2, <3>8, <4>1, <4>2
      <4>3. CASE y = m + 1
        BY <2>5, <3>2, <3>5, <4>1, <4>3
      <4> QED
        BY <3>2, <3>3, <4>2, <4>3
    <3> QED
      BY <2>2, <3>6, <3>7, <3>8
  <2> QED
    BY <2>6, <2>7
<1> QED
  BY <1>10, <1>11, <1>12, <1>13

\* As far as the text is orderly.
LEMMA ObjectsAreFound ==
  ASSUME text \in Seq(Tokens), NEW n \in 0..Len(text), \A k \in 1..n : Orderly(k)
  PROVE  FoundAt(n)
<1> DEFINE S == {k \in 0..n : CountsAt(k) /\ StartAt(k) /\ FoundAt(k)}
<1>1. n \in Nat /\ n \in Int /\ 0 \in Int /\ 0 \in 0..n /\ 0 + 1 = 1 /\ n \in 0..n
  OBVIOUS
<1>2. 0 \in S
  <2> DEFINE acc == Rehydration[0]
  <2>1. acc = [depth |-> 0, start |-> 0, inString |-> FALSE, escape |-> FALSE, found |-> <<>>]
    BY RehydrationTurns
  <2>2. /\ acc.depth = 0 /\ acc.start = 0 /\ acc.found = <<>>
        /\ (acc.inString <=> FALSE) /\ (acc.escape <=> FALSE)
    BY <2>1
  <2>3. Backslashes(1, 1) = 0
    <3>1. Backslashes(1, 1) \in 0..(1 - 1)
      BY BackslashRun
    <3> QED
      BY <3>1
  <2>4. ~InString(1, 1)
    BY InStringStep
  <2>5. Depth(1, 0) = 0
    <3>1. Depth(1, 1 - 1) = 0
      BY DepthStep
    <3> QED
      BY <3>1
  <2> HIDE DEF acc
  <2>6. 0 % 2 # 1 /\ ~(0 > 0) /\ 0 >= 0
    OBVIOUS
  <2>7. CountsAt(0)
    BY <1>1, <2>2, <2>3, <2>4, <2>5, <2>6 DEF CountsAt, acc
  <2>8. StartAt(0)
    BY <2>2, <2>6 DEF StartAt, acc
  <2>9. \A p \in Objects : ~(p[2] <= 0)
    BY DEF Objects, TopLevel, Pairs
  <2>10. DOMAIN acc.found = {}
    BY <2>2
  <2>11. FoundAt(0)
    BY <2>2, <2>6, <2>9, <2>10 DEF FoundAt, acc
  <2> QED
    BY <1>1, <2>7, <2>8, <2>11
<1>3. ASSUME NEW k \in (0 + 1)..n, k - 1 \in S PROVE k \in S
  <2>1. k \in 1..Len(text) /\ k \in 0..n /\ k \in 1..n /\ Orderly(k)
    OBVIOUS
  <2>2. CountsAt(k - 1) /\ StartAt(k - 1) /\ FoundAt(k - 1)
    BY <1>3
  <2>3. CountsAt(k)
    BY <2>1, <2>2, CountsOn
  <2>4. StartAt(k)
    BY <2>1, <2>2, <2>3, StartOn
  <2>5. FoundAt(k)
    BY <2>1, <2>2, <2>3, FoundOn
  <2> QED
    BY <2>1, <2>3, <2>4, <2>5
<1> HIDE DEF S
<1>4. \A k \in 0..n : k \in S
  BY <1>1, <1>2, <1>3, InductionFrom
<1> QED
  BY <1>1, <1>4 DEF S

\* Of a list of spans, those at the places in K.
SpansAt(found, K) ==
  FlattenSeq([i \in DOMAIN found |-> IF i \in K THEN <<found[i]>> ELSE <<>>])

\* They stand in the order of the list.
LEMMA SpansKept ==
  ASSUME NEW found \in Seq(Nat \X Nat), NEW K, NEW kept, kept = SpansAt(found, K),
         \A a, b \in DOMAIN found : a < b => found[a][2] < found[b][1]
  PROVE  /\ \A x \in DOMAIN kept : \E i \in DOMAIN found : i \in K /\ kept[x] = found[i]
         /\ \A i \in DOMAIN found : i \in K => \E x \in DOMAIN kept : kept[x] = found[i]
         /\ \A x, y \in DOMAIN kept : x < y => kept[x][2] < kept[y][1]
<1> DEFINE m == Len(found)
           X == Nat \X Nat
           seqs == [i \in DOMAIN found |-> IF i \in K THEN <<found[i]>> ELSE <<>>]
<1>1. m \in Nat /\ DOMAIN found = 1..m /\ \A i \in 1..m : found[i] \in X
  OBVIOUS
<1>2. \A i \in 1..m : seqs[i] = IF i \in K THEN <<found[i]>> ELSE <<>>
  BY <1>1
<1>3. seqs \in [1..m -> Seq(X)]
  <2>1. \A i \in 1..m : (IF i \in K THEN <<found[i]>> ELSE <<>>) \in Seq(X)
    <3> HIDE DEF X
    <3> QED
      BY <1>1
  <2> HIDE DEF X, m
  <2> QED
    BY <1>1, <2>1
<1> HIDE DEF X, seqs
<1>4. PICK F \in [0..m -> Seq(X)] : /\ F[0] = <<>>
                                    /\ \A k \in 0..(m - 1) : F[k + 1] = F[k] \o seqs[k + 1]
                                    /\ F[m] = FlattenSeq(seqs)
    <2> HIDE DEF m
  <2> QED
    BY <1>1, <1>3, FlattenByPrefix
<1>5. F[m] = kept
  BY <1>4 DEF seqs, SpansAt
<1> DEFINE From(j)  == \A x \in DOMAIN F[j] : \E i \in 1..j : i \in K /\ F[j][x] = found[i]
           All(j)   == \A i \in 1..j : i \in K => \E x \in DOMAIN F[j] : F[j][x] = found[i]
           Order(j) == \A x, y \in DOMAIN F[j] : x < y => F[j][x][2] < F[j][y][1]
           S == {j \in 0..m : From(j) /\ All(j) /\ Order(j)}
<1>6. 0 \in S
  <2>1. 0 \in 0..m /\ 1..0 = {} /\ DOMAIN F[0] = {}
    BY <1>1, <1>4
  <2> QED
    BY <2>1
<1>7. ASSUME NEW j \in 0..(m - 1), j \in S PROVE j + 1 \in S
  <2> DEFINE g == F[j]
             h == F[j + 1]
             l == Len(g)
  <2>1. /\ j + 1 \in 1..m /\ j + 1 \in 0..m /\ j \in 0..m /\ j \in Nat
        /\ \A i \in 1..(j + 1) : i \in 1..j \/ i = j + 1
        /\ \A i \in 1..j : i \in 1..(j + 1) /\ i \in 1..m /\ i < j + 1
        /\ j + 1 \in 1..(j + 1)
    BY <1>1
  <2>2. g \in Seq(X) /\ seqs[j + 1] \in Seq(X) /\ h = g \o seqs[j + 1]
    BY <1>3, <1>4, <2>1
  <2>3. l \in Nat /\ DOMAIN g = 1..l
    BY <2>2
  <2>4. From(j) /\ All(j) /\ Order(j)
    BY <1>7
  <2>5. ASSUME j + 1 \notin K PROVE From(j + 1) /\ All(j + 1) /\ Order(j + 1)
    <3>1. h = g
      <4>1. seqs[j + 1] = <<>>
        BY <1>2, <2>1, <2>5
      <4> QED
        BY <2>2, <4>1, ConcatEmptySeq
    <3>2. From(j + 1)
      BY <2>1, <2>4, <3>1
    <3>3. All(j + 1)
      BY <2>1, <2>4, <2>5, <3>1
    <3> QED
      BY <2>4, <3>1, <3>2, <3>3
  <2>6. ASSUME j + 1 \in K PROVE From(j + 1) /\ All(j + 1) /\ Order(j + 1)
    <3>1. seqs[j + 1] = <<found[j + 1]>> /\ found[j + 1] \in X
      BY <1>1, <1>2, <2>1, <2>6
    <3>2. /\ DOMAIN h = 1..(l + 1) /\ h[l + 1] = found[j + 1]
          /\ \A x \in 1..l : h[x] = g[x]
      BY <2>2, <3>1
    <3> HIDE DEF g, h, l
    <3>3. /\ \A x \in 1..(l + 1) : x \in 1..l \/ x = l + 1
          /\ \A x, y \in 1..(l + 1) : x < y => x \in 1..l
          /\ \A x \in 1..l : x \in 1..(l + 1)
          /\ l + 1 \in 1..(l + 1)
      BY <2>3
    <3>4. \A x \in 1..l : \E i \in 1..j : i \in K /\ g[x] = found[i]
      BY <2>3, <2>4 DEF g
    <3>5. From(j + 1)
      <4>1. ASSUME NEW x \in DOMAIN h PROVE \E i \in 1..(j + 1) : i \in K /\ h[x] = found[i]
        <5>1. CASE x \in 1..l
          BY <2>1, <3>2, <3>4, <5>1
        <5>2. CASE x = l + 1
          BY <2>1, <2>6, <3>2, <5>2
        <5> QED
          BY <3>2, <3>3, <5>1, <5>2
      <4> QED
        BY <4>1 DEF h
    <3>6. All(j + 1)
      <4>1. \A i \in 1..j : i \in K => \E x \in 1..l : g[x] = found[i]
        BY <2>3, <2>4 DEF g
      <4>2. ASSUME NEW i \in 1..(j + 1), i \in K PROVE \E x \in DOMAIN h : h[x] = found[i]
        <5>1. CASE i \in 1..j
          BY <3>2, <3>3, <4>1, <4>2, <5>1
        <5>2. CASE i = j + 1
          BY <3>2, <3>3, <5>2
        <5> QED
          BY <2>1, <5>1, <5>2
      <4> QED
        BY <4>2 DEF h
    <3>7. Order(j + 1)
      <4>1. ASSUME NEW x \in 1..(l + 1), NEW y \in 1..(l + 1), x < y
            PROVE  h[x][2] < h[y][1]
        <5>1. x \in 1..l /\ h[x] = g[x]
          BY <3>2, <3>3, <4>1
        <5>2. CASE y \in 1..l
          <6>1. x \in DOMAIN F[j] /\ y \in DOMAIN F[j] /\ h[y] = g[y]
            BY <2>3, <3>2, <5>1, <5>2 DEF g
          <6>2. F[j][x][2] < F[j][y][1]
            BY <2>4, <4>1, <6>1
          <6> QED
            BY <5>1, <6>1, <6>2 DEF g
        <5>3. CASE y = l + 1
          <6>1. PICK i \in 1..j : i \in K /\ g[x] = found[i]
            BY <3>4, <5>1
          <6>2. i \in DOMAIN found /\ j + 1 \in DOMAIN found /\ i < j + 1
            BY <1>1, <2>1
          <6>3. found[i][2] < found[j + 1][1]
            BY <6>2
          <6> QED
            BY <3>2, <5>1, <5>3, <6>1, <6>3
        <5> QED
          BY <3>3, <5>2, <5>3
      <4> QED
        BY <3>2, <4>1 DEF h
    <3> QED
      BY <3>5, <3>6, <3>7
  <2> HIDE DEF From, All, Order
  <2> QED
    BY <2>1, <2>5, <2>6
<1>8. m \in S
  <2>1. \A j \in 0..m : j \in S
    <3> HIDE DEF S, m
    <3> QED
      BY <1>1, <1>6, <1>7, InductionTo
  <2>2. m \in 0..m
    BY <1>1
  <2> HIDE DEF S, m
  <2> QED
    BY <2>1, <2>2
<1> QED
  BY <1>1, <1>5, <1>8

-----------------------------------------------------------------------------
(* Replies: what is found in any text                                      *)

\* One turn of the loop, whatever the text.
LEMMA RehydrationStep ==
  ASSUME text \in Seq(Tokens), NEW k \in 1..Len(text)
  PROVE  LET a == Rehydration[k - 1]
             b == Rehydration[k]
             closes == a.depth = 1 /\ a.start > 0
         IN /\ a \in RehydrateStates /\ b \in RehydrateStates
            /\ a.escape => b = [a EXCEPT !.escape = FALSE]
            /\ ~a.escape =>
                 /\ text[k] = "backslash" => b = [a EXCEPT !.escape = TRUE]
                 /\ text[k] = "quote" => b = [a EXCEPT !.inString = ~a.inString]
                 /\ a.inString /\ text[k] \notin {"backslash", "quote"} => b = a
                 /\ text[k] \in {"entry", "word"} => b = a
                 /\ ~a.inString /\ text[k] = "open" =>
                      b = [a EXCEPT !.depth = a.depth + 1,
                                    !.start = IF a.depth = 0 THEN k ELSE a.start]
                 /\ ~a.inString /\ text[k] = "close" =>
                      b = [a EXCEPT !.depth = a.depth - 1,
                                    !.start = IF closes THEN 0 ELSE a.start,
                                    !.found = IF closes /\ Parses(a.start, k)
                                                THEN Append(a.found, <<a.start, k>>)
                                                ELSE a.found]
<1> DEFINE a == Rehydration[k - 1]
           b == Rehydration[k]
<1>1. k - 1 \in 0..Len(text) /\ k \in 0..Len(text)
  OBVIOUS
<1>2. a \in RehydrateStates /\ b \in RehydrateStates /\ b = RehydrateNext(a, k)
  BY <1>1, RehydrationTurns
<1> HIDE DEF a, b
<1>3. a.escape => b = [a EXCEPT !.escape = FALSE]
  BY <1>2 DEF RehydrateNext
<1>4. ~a.escape =>
        /\ text[k] = "backslash" => b = [a EXCEPT !.escape = TRUE]
        /\ text[k] = "quote" => b = [a EXCEPT !.inString = ~a.inString]
        /\ a.inString /\ text[k] \notin {"backslash", "quote"} => b = a
        /\ text[k] \in {"entry", "word"} => b = a
  BY <1>2 DEF RehydrateNext
<1>5. ASSUME ~a.escape, ~a.inString, text[k] = "open"
      PROVE  b = [a EXCEPT !.depth = a.depth + 1,
                           !.start = IF a.depth = 0 THEN k ELSE a.start]
  BY <1>2, <1>5 DEF RehydrateNext
<1>6. ASSUME ~a.escape, ~a.inString, text[k] = "close"
      PROVE  LET closes == a.depth = 1 /\ a.start > 0
             IN b = [a EXCEPT !.depth = a.depth - 1,
                              !.start = IF closes THEN 0 ELSE a.start,
                              !.found = IF closes /\ Parses(a.start, k)
                                          THEN Append(a.found, <<a.start, k>>) ELSE a.found]
  BY <1>2, <1>6 DEF RehydrateNext
<1> QED
  BY <1>2, <1>3, <1>4, <1>5, <1>6 DEF a, b

\* From the bracket the loop has noted, it reads as JSON.parse does if the latter reads
\* on at all, and that bracket is still open.
InStep(s, k) ==
  LET acc == Rehydration[k]
      lex == Lexed(s)[k]
  IN /\ acc.inString <=> lex.inString
     /\ acc.escape <=> lex.escape
     /\ acc.escape => acc.inString
     /\ acc.depth = lex.depth
     /\ \A j \in s..k : Lexed(s)[j].depth > 0

SpanAt(k) ==
  LET acc == Rehydration[k]
  IN acc.start > 0 =>
       /\ acc.start \in 1..k /\ text[acc.start] = "open" /\ acc.depth > 0
       /\ Lexed(acc.start)[k].ok => InStep(acc.start, k)

\* A bracket that is noted.
LEMMA SpanBegins ==
  ASSUME text \in Seq(Tokens), NEW k \in 1..Len(text), text[k] = "open",
         Rehydration[k].start = k, Rehydration[k].depth = 1,
         ~Rehydration[k].inString, ~Rehydration[k].escape
  PROVE  SpanAt(k)
<1> DEFINE lex == Lexed(k)[k]
<1>1. k \in k..Len(text) /\ k > 0 /\ k \in 1..k /\ \A j \in k..k : j = k
  OBVIOUS
<1>2. lex = LexNext([depth |-> 0, inString |-> FALSE, escape |-> FALSE, ok |-> TRUE,
                     entries |-> 0], k)
  BY <1>1, LexTurns
<1>3. lex.depth = 1 /\ lex.inString = FALSE /\ lex.escape = FALSE
  BY <1>2 DEF LexNext
<1> HIDE DEF lex
<1>4. InStep(k, k)
  BY <1>1, <1>3 DEF InStep, lex
<1> QED
  BY <1>1, <1>4 DEF SpanAt

\* One character more of a span.
LEMMA SpanGoesOn ==
  ASSUME text \in Seq(Tokens), NEW k \in 1..Len(text), NEW s \in 1..(k - 1),
         Rehydration[k - 1].start = s, Rehydration[k].start = s,
         Rehydration[k - 1].depth > 0, Rehydration[k].depth > 0,
         Lexed(s)[k - 1].ok => InStep(s, k - 1), Lexed(s)[k].ok
  PROVE  InStep(s, k)
<1> DEFINE a == Rehydration[k - 1]
           b == Rehydration[k]
           x == Lexed(s)[k - 1]
           y == Lexed(s)[k]
           closes == a.depth = 1 /\ a.start > 0
<1>1. /\ s \in 1..Len(text) /\ k \in s..Len(text) /\ k - 1 \in (s - 1)..k
      /\ k - 1 \in (s - 1)..Len(text) /\ k \in (s - 1)..Len(text)
      /\ text[k] \in Tokens
      /\ \A j \in s..k : j \in s..(k - 1) \/ j = k
  OBVIOUS
<1>2. x \in LexStates /\ y \in LexStates /\ y = LexNext(x, k)
  BY <1>1, LexTurns
<1>3. /\ x = [depth |-> x.depth, inString |-> x.inString, escape |-> x.escape,
              ok |-> x.ok, entries |-> x.entries]
      /\ x.inString \in BOOLEAN /\ x.escape \in BOOLEAN /\ x.ok \in BOOLEAN
      /\ y.inString \in BOOLEAN /\ y.escape \in BOOLEAN
  BY <1>2 DEF LexStates
<1>4. y.ok
  OBVIOUS
<1>5. x.ok
  <2>1. Parses(s, k)
    BY DEF Parses
  <2> QED
    BY <1>1, <2>1, ParsesUpTo
<1>6. /\ a.inString <=> x.inString
      /\ a.escape <=> x.escape
      /\ a.escape => a.inString
      /\ a.depth = x.depth
      /\ \A j \in s..(k - 1) : Lexed(s)[j].depth > 0
  BY <1>5 DEF InStep
<1>7. /\ a \in RehydrateStates /\ b \in RehydrateStates
      /\ a.escape => b = [a EXCEPT !.escape = FALSE]
      /\ ~a.escape =>
           /\ text[k] = "backslash" => b = [a EXCEPT !.escape = TRUE]
           /\ text[k] = "quote" => b = [a EXCEPT !.inString = ~a.inString]
           /\ a.inString /\ text[k] \notin {"backslash", "quote"} => b = a
           /\ text[k] \in {"entry", "word"} => b = a
           /\ ~a.inString /\ text[k] = "open" =>
                b = [a EXCEPT !.depth = a.depth + 1,
                              !.start = IF a.depth = 0 THEN k ELSE a.start]
           /\ ~a.inString /\ text[k] = "close" =>
                b = [a EXCEPT !.depth = a.depth - 1,
                              !.start = IF closes THEN 0 ELSE a.start,
                              !.found = IF closes /\ Parses(a.start, k)
                                          THEN Append(a.found, <<a.start, k>>) ELSE a.found]
  BY RehydrationStep
<1>8. /\ a = [depth |-> a.depth, start |-> a.start, inString |-> a.inString,
              escape |-> a.escape, found |-> a.found]
      /\ a.depth \in Int /\ a.inString \in BOOLEAN /\ a.escape \in BOOLEAN
      /\ b.depth \in Int /\ b.inString \in BOOLEAN /\ b.escape \in BOOLEAN
  BY <1>7 DEF RehydrateStates
<1>9. b.depth > 0 /\ Rehydration[k] = b /\ Lexed(s)[k] = y
  OBVIOUS
<1> SUFFICES /\ b.inString <=> y.inString
             /\ b.escape <=> y.escape
             /\ b.escape => b.inString
             /\ b.depth = y.depth
  BY <1>1, <1>6, <1>9 DEF InStep
<1> HIDE DEF a, b, x, y
<1>10. CASE a.inString /\ a.escape
  <2>1. b.inString = a.inString /\ b.escape = FALSE /\ b.depth = a.depth
    BY <1>7, <1>8, <1>10
  <2>2. y.inString = x.inString /\ y.escape = FALSE /\ y.depth = x.depth
    BY <1>2, <1>3, <1>6, <1>10 DEF LexNext
  <2> QED
    BY <1>6, <2>1, <2>2
<1>11. CASE a.inString /\ ~a.escape
  <2>1. /\ y.inString <=> text[k] # "quote"
        /\ y.escape <=> text[k] = "backslash"
        /\ y.depth = x.depth
    BY <1>2, <1>3, <1>6, <1>11 DEF LexNext
  <2>2. CASE text[k] = "quote"
    <3>1. (b.inString <=> ~a.inString) /\ b.escape = a.escape /\ b.depth = a.depth
      BY <1>7, <1>8, <1>11, <2>2
    <3> QED
      BY <1>6, <1>11, <2>1, <2>2, <3>1
  <2>3. CASE text[k] = "backslash"
    <3>1. b.inString = a.inString /\ b.escape = TRUE /\ b.depth = a.depth
      BY <1>7, <1>8, <1>11, <2>3
    <3> QED
      BY <1>6, <1>11, <2>1, <2>3, <3>1
  <2>4. CASE text[k] \notin {"quote", "backslash"}
    <3>1. b = a
      BY <1>7, <1>11, <2>4
    <3> QED
      BY <1>6, <1>11, <2>1, <2>4, <3>1
  <2> QED
    BY <2>2, <2>3, <2>4
<1>12. CASE ~a.inString
  <2>1. ~a.escape /\ ~x.inString /\ ~x.escape
    BY <1>6, <1>12
  <2>2. text[k] \notin {"word", "backslash"}
    <3>1. ASSUME text[k] \in {"word", "backslash"} PROVE FALSE
      <4>1. y.ok = FALSE
        BY <1>2, <1>3, <2>1, <3>1 DEF LexNext
      <4> QED
        BY <1>4, <4>1
    <3> QED
      BY <3>1
  <2>3. CASE text[k] = "quote"
    <3>1. (b.inString <=> ~a.inString) /\ b.escape = a.escape /\ b.depth = a.depth
      BY <1>7, <1>8, <2>1, <2>3
    <3>2. y.inString = TRUE /\ y.escape = x.escape /\ y.depth = x.depth
      BY <1>2, <1>3, <2>1, <2>3 DEF LexNext
    <3> QED
      BY <1>6, <1>12, <2>1, <3>1, <3>2
  <2>4. CASE text[k] = "open"
    <3>1. b.inString = a.inString /\ b.escape = a.escape /\ b.depth = a.depth + 1
      BY <1>7, <1>8, <1>12, <2>1, <2>4
    <3>2. y.inString = x.inString /\ y.escape = x.escape /\ y.depth = x.depth + 1
      BY <1>2, <1>3, <2>1, <2>4 DEF LexNext
    <3> QED
      BY <1>6, <2>1, <3>1, <3>2
  <2>5. CASE text[k] = "close"
    <3>1. b.inString = a.inString /\ b.escape = a.escape /\ b.depth = a.depth - 1
      BY <1>7, <1>8, <1>12, <2>1, <2>5
    <3>2. y.inString = x.inString /\ y.escape = x.escape /\ y.depth = x.depth - 1
      BY <1>2, <1>3, <2>1, <2>5 DEF LexNext
    <3> QED
      BY <1>6, <2>1, <3>1, <3>2
  <2>6. CASE text[k] = "entry"
    <3>1. b = a
      BY <1>7, <2>1, <2>6
    <3>2. y.inString = x.inString /\ y.escape = x.escape /\ y.depth = x.depth
      BY <1>2, <1>3, <2>1, <2>6 DEF LexNext
    <3> QED
      BY <1>6, <2>1, <3>1, <3>2
  <2> QED
    BY <1>1, <2>2, <2>3, <2>4, <2>5, <2>6 DEF Tokens
<1> QED
  BY <1>10, <1>11, <1>12

\* What a turn does to the depth, the noted bracket and what has been found.
LEMMA RehydrationActs ==
  ASSUME text \in Seq(Tokens), NEW k \in 1..Len(text)
  PROVE  LET a == Rehydration[k - 1]
             b == Rehydration[k]
             closes == a.depth = 1 /\ a.start > 0
         IN /\ a.depth \in Int /\ a.start \in Nat /\ a.found \in Seq(Nat \X Nat)
            /\ b.depth \in Int /\ b.start \in Nat
            /\ \/ b.depth = a.depth /\ b.start = a.start /\ b.found = a.found
               \/ /\ text[k] = "open" /\ ~b.inString /\ ~b.escape
                  /\ b.depth = a.depth + 1
                  /\ b.start = IF a.depth = 0 THEN k ELSE a.start
                  /\ b.found = a.found
               \/ /\ text[k] = "close" /\ ~a.inString /\ ~a.escape
                  /\ b.depth = a.depth - 1
                  /\ b.start = IF closes THEN 0 ELSE a.start
                  /\ b.found = IF closes /\ Parses(a.start, k)
                                 THEN Append(a.found, <<a.start, k>>) ELSE a.found
<1> DEFINE a == Rehydration[k - 1]
           b == Rehydration[k]
           closes == a.depth = 1 /\ a.start > 0
           Kept == b.depth = a.depth /\ b.start = a.start /\ b.found = a.found
           Opens == /\ text[k] = "open" /\ ~b.inString /\ ~b.escape
                    /\ b.depth = a.depth + 1
                    /\ b.start = IF a.depth = 0 THEN k ELSE a.start
                    /\ b.found = a.found
           Closes == /\ text[k] = "close" /\ ~a.inString /\ ~a.escape
                     /\ b.depth = a.depth - 1
                     /\ b.start = IF closes THEN 0 ELSE a.start
                     /\ b.found = IF closes /\ Parses(a.start, k)
                                    THEN Append(a.found, <<a.start, k>>) ELSE a.found
<1>1. /\ a \in RehydrateStates /\ b \in RehydrateStates
      /\ a.escape => b = [a EXCEPT !.escape = FALSE]
      /\ ~a.escape =>
           /\ text[k] = "backslash" => b = [a EXCEPT !.escape = TRUE]
           /\ text[k] = "quote" => b = [a EXCEPT !.inString = ~a.inString]
           /\ a.inString /\ text[k] \notin {"backslash", "quote"} => b = a
           /\ text[k] \in {"entry", "word"} => b = a
           /\ ~a.inString /\ text[k] = "open" =>
                b = [a EXCEPT !.depth = a.depth + 1,
                              !.start = IF a.depth = 0 THEN k ELSE a.start]
           /\ ~a.inString /\ text[k] = "close" =>
                b = [a EXCEPT !.depth = a.depth - 1,
                              !.start = IF closes THEN 0 ELSE a.start,
                              !.found = IF closes /\ Parses(a.start, k)
                                          THEN Append(a.found, <<a.start, k>>) ELSE a.found]
  BY RehydrationStep
<1>2. /\ a = [depth |-> a.depth, start |-> a.start, inString |-> a.inString,
              escape |-> a.escape, found |-> a.found]
      /\ a.depth \in Int /\ a.start \in Nat /\ a.found \in Seq(Nat \X Nat)
      /\ b.depth \in Int /\ b.start \in Nat
  BY <1>1 DEF RehydrateStates
<1>3. text[k] \in Tokens
  OBVIOUS
<1> SUFFICES Kept \/ Opens \/ Closes
  BY <1>2
<1> HIDE DEF a, b
<1>4. CASE a.escape
  <2>1. Kept
    BY <1>1, <1>2, <1>4
  <2> QED
    BY <2>1
<1>5. CASE ~a.escape /\ text[k] = "backslash"
  <2>1. Kept
    BY <1>1, <1>2, <1>5
  <2> QED
    BY <2>1
<1>6. CASE ~a.escape /\ text[k] = "quote"
  <2>1. Kept
    BY <1>1, <1>2, <1>6
  <2> QED
    BY <2>1
<1>7. CASE ~a.escape /\ text[k] \notin {"backslash", "quote"} /\ a.inString
  <2>1. Kept
    BY <1>1, <1>7
  <2> QED
    BY <2>1
<1>8. CASE ~a.escape /\ text[k] \in {"entry", "word"}
  <2>1. Kept
    BY <1>1, <1>8
  <2> QED
    BY <2>1
<1>9. CASE ~a.escape /\ ~a.inString /\ text[k] = "open"
  <2>1. b = [a EXCEPT !.depth = a.depth + 1,
                      !.start = IF a.depth = 0 THEN k ELSE a.start]
    BY <1>1, <1>9
  <2>2. /\ b.depth = a.depth + 1
        /\ b.start = IF a.depth = 0 THEN k ELSE a.start
        /\ b.found = a.found
        /\ b.inString = a.inString /\ b.escape = a.escape
    BY <1>2, <2>1
  <2>3. Opens
    BY <1>9, <2>2
  <2> QED
    BY <2>3
<1>10. CASE ~a.escape /\ ~a.inString /\ text[k] = "close"
  <2>1. b = [a EXCEPT !.depth = a.depth - 1,
                      !.start = IF closes THEN 0 ELSE a.start,
                      !.found = IF closes /\ Parses(a.start, k)
                                  THEN Append(a.found, <<a.start, k>>) ELSE a.found]
    BY <1>1, <1>10
  <2> HIDE DEF closes
  <2>2. /\ b.depth = a.depth - 1
        /\ b.start = IF closes THEN 0 ELSE a.start
        /\ b.found = IF closes /\ Parses(a.start, k)
                       THEN Append(a.found, <<a.start, k>>) ELSE a.found
    BY <1>2, <2>1
  <2>3. Closes
    BY <1>10, <2>2
  <2> QED
    BY <2>3
<1> HIDE DEF Kept, Opens, Closes
<1> QED
  BY <1>3, <1>4, <1>5, <1>6, <1>7, <1>8, <1>9, <1>10 DEF Tokens

\* Whatever comes, the bracket that is noted is open, and the loop is in step with
\* JSON.parse behind it.
LEMMA SpanOn ==
  ASSUME text \in Seq(Tokens), NEW k \in 1..Len(text), SpanAt(k - 1)
  PROVE  SpanAt(k)
<1> DEFINE a == Rehydration[k - 1]
           b == Rehydration[k]
           closes == a.depth = 1 /\ a.start > 0
<1>1. /\ a.depth \in Int /\ a.start \in Nat /\ b.depth \in Int /\ b.start \in Nat
      /\ \/ b.depth = a.depth /\ b.start = a.start
         \/ /\ text[k] = "open" /\ ~b.inString /\ ~b.escape
            /\ b.depth = a.depth + 1
            /\ b.start = IF a.depth = 0 THEN k ELSE a.start
         \/ /\ b.depth = a.depth - 1
            /\ b.start = IF closes THEN 0 ELSE a.start
  BY RehydrationActs
<1>2. a.start > 0 => /\ a.start \in 1..(k - 1) /\ text[a.start] = "open" /\ a.depth > 0
                     /\ Lexed(a.start)[k - 1].ok => InStep(a.start, k - 1)
  BY DEF SpanAt
<1>3. k \in Nat /\ \A s \in 1..(k - 1) : s \in 1..k
  OBVIOUS
<1>4. CASE b.start = k /\ text[k] = "open" /\ ~b.inString /\ ~b.escape /\ b.depth = 1
  BY <1>4, SpanBegins
<1>5. CASE a.start > 0 /\ b.start = a.start /\ b.depth > 0
  <2> DEFINE s == a.start
  <2>1. s \in 1..(k - 1) /\ s \in 1..k /\ text[s] = "open" /\ a.depth > 0
    BY <1>2, <1>3, <1>5
  <2>2. ASSUME Lexed(s)[k].ok PROVE InStep(s, k)
    <3>1. Lexed(s)[k - 1].ok => InStep(s, k - 1)
      BY <1>2, <1>5
    <3>2. Rehydration[k - 1].start = s /\ Rehydration[k].start = s
      BY <1>5
    <3>3. Rehydration[k - 1].depth > 0 /\ Rehydration[k].depth > 0
      BY <1>5, <2>1
    <3> HIDE DEF s
    <3> QED
      BY <2>1, <2>2, <3>1, <3>2, <3>3, SpanGoesOn
  <2>3. b.start = s
    BY <1>5
  <2> QED
    BY <1>5, <2>1, <2>2, <2>3 DEF SpanAt
<1>6. CASE b.start = 0
  BY <1>6 DEF SpanAt
<1>7. \/ b.start = k /\ text[k] = "open" /\ ~b.inString /\ ~b.escape /\ b.depth = 1
      \/ a.start > 0 /\ b.start = a.start /\ b.depth > 0
      \/ b.start = 0
  <2>1. a.start > 0 => a.depth > 0
    BY <1>2
  <2> HIDE DEF a, b
  <2> QED
    BY <1>1, <2>1
<1> QED
  BY <1>4, <1>5, <1>6, <1>7

\* What has been found: balanced spans that parse, one behind the other, and behind them
\* the bracket that is noted.
TakenAt(k) ==
  LET acc == Rehydration[k]
  IN /\ \A x \in DOMAIN acc.found : /\ acc.found[x] \in Pairs
                                    /\ Parses(acc.found[x][1], acc.found[x][2])
                                    /\ acc.found[x][2] <= k
     /\ \A x, y \in DOMAIN acc.found : x < y => acc.found[x][2] < acc.found[y][1]
     /\ acc.start > 0 => \A x \in DOMAIN acc.found : acc.found[x][2] < acc.start

\* What parses where a span is closed is balanced.
LEMMA SpanIsPair ==
  ASSUME text \in Seq(Tokens), NEW k \in 1..Len(text), SpanAt(k - 1), text[k] = "close",
         Rehydration[k - 1].start > 0, Rehydration[k - 1].depth = 1,
         ~Rehydration[k - 1].inString, Parses(Rehydration[k - 1].start, k)
  PROVE  <<Rehydration[k - 1].start, k>> \in Pairs
<1> DEFINE a == Rehydration[k - 1]
           s == a.start
<1>1. s \in 1..(k - 1) /\ text[s] = "open" /\ (Lexed(s)[k - 1].ok => InStep(s, k - 1))
  BY DEF SpanAt
<1> HIDE DEF s
<1>2. /\ s \in 1..Len(text) /\ k \in s..Len(text) /\ s \in Nat /\ k \in Nat /\ s <= k /\ s < k
      /\ k - 1 \in (s - 1)..k /\ k \in s..(k + 1)
      /\ \A j \in s..(k - 1) : j + 1 \in s..(k + 1) /\ (j + 1) - 1 = j
  BY <1>1
<1>3. Parses(s, k)
  BY DEF s
<1>4. InStep(s, k - 1)
  BY <1>1, <1>2, <1>3, ParsesUpTo
<1>5. /\ ~Lexed(s)[k - 1].inString /\ Lexed(s)[k - 1].depth = 1
      /\ \A j \in s..(k - 1) : Lexed(s)[j].depth > 0
  BY <1>4 DEF InStep
<1>6. \A j \in s..(k + 1) : /\ Lexed(s)[j - 1].inString <=> InString(s, j)
                            /\ Lexed(s)[j - 1].depth = Depth(s, j - 1)
  BY <1>2, <1>3, OnParsedSpan
<1>7. \A j \in s..(k - 1) : Depth(s, j) > 0
  <2>1. ASSUME NEW j \in s..(k - 1) PROVE Depth(s, j) > 0
    <3>1. Lexed(s)[(j + 1) - 1].depth = Depth(s, (j + 1) - 1)
      BY <1>2, <1>6
    <3> QED
      BY <1>2, <1>5, <3>1
  <2> QED
    BY <2>1
<1>8. ~InString(s, k) /\ Depth(s, k - 1) = 1
  BY <1>2, <1>5, <1>6
<1>9. Depth(s, k) = 0
  <2>1. Depth(s, k) = Depth(s, k - 1) - 1
    BY <1>2, <1>8, DepthStep
  <2> QED
    BY <1>8, <2>1
<1>10. IsPair(s, k)
  BY <1>1, <1>2, <1>7, <1>9, PairByDepth
<1>11. <<s, k>> \in Pairs
  BY <1>2, <1>10 DEF Pairs
<1> QED
  BY <1>11 DEF s

\* One turn of the loop.
LEMMA TakenOn ==
  ASSUME text \in Seq(Tokens), NEW k \in 1..Len(text), SpanAt(k - 1), TakenAt(k - 1)
  PROVE  TakenAt(k)
<1> DEFINE a == Rehydration[k - 1]
           b == Rehydration[k]
           s == a.start
           closes == a.depth = 1 /\ s > 0
<1>1. /\ a.depth \in Int /\ s \in Nat /\ a.found \in Seq(Nat \X Nat)
      /\ \/ b.depth = a.depth /\ b.start = s /\ b.found = a.found
         \/ b.start = (IF a.depth = 0 THEN k ELSE s) /\ b.found = a.found
         \/ /\ text[k] = "close" /\ ~a.inString
            /\ b.start = IF closes THEN 0 ELSE s
            /\ b.found = IF closes /\ Parses(s, k)
                           THEN Append(a.found, <<s, k>>) ELSE a.found
  BY RehydrationActs
<1>2. /\ \A x \in DOMAIN a.found : /\ a.found[x] \in Pairs
                                   /\ Parses(a.found[x][1], a.found[x][2])
                                   /\ a.found[x][2] <= k - 1
      /\ \A x, y \in DOMAIN a.found : x < y => a.found[x][2] < a.found[y][1]
      /\ s > 0 => \A x \in DOMAIN a.found : a.found[x][2] < s
  BY DEF TakenAt
<1>3. \A x \in DOMAIN a.found : a.found[x][2] <= k /\ a.found[x][2] < k
  <2>1. \A p \in Pairs : p[2] \in Nat
    BY DEF Pairs
  <2> HIDE DEF a
  <2>2. \A x \in DOMAIN a.found : a.found[x][2] \in Nat /\ a.found[x][2] <= k - 1
    BY <1>2, <2>1
  <2>3. \A m \in Nat : m <= k - 1 => m <= k /\ m < k
    OBVIOUS
  <2> QED
    BY <2>2, <2>3
<1> DEFINE Goal == /\ \A x \in DOMAIN b.found : /\ b.found[x] \in Pairs
                                                /\ Parses(b.found[x][1], b.found[x][2])
                                                /\ b.found[x][2] <= k
                   /\ \A x, y \in DOMAIN b.found : x < y => b.found[x][2] < b.found[y][1]
                   /\ b.start > 0 => \A x \in DOMAIN b.found : b.found[x][2] < b.start
<1> SUFFICES Goal
  BY DEF TakenAt
<1>4. ASSUME b.found = a.found, b.start = s \/ b.start = k \/ b.start = 0
      PROVE  Goal
  <2> HIDE DEF a, b, s
  <2>1. b.start > 0 => \A x \in DOMAIN b.found : b.found[x][2] < b.start
    BY <1>2, <1>3, <1>4
  <2> QED
    BY <1>2, <1>3, <1>4, <2>1
<1>5. CASE text[k] = "close" /\ ~a.inString /\ closes /\ Parses(s, k)
           /\ b.start = 0 /\ b.found = Append(a.found, <<s, k>>)
  <2> DEFINE m == Len(a.found)
  <2>1. <<s, k>> \in Pairs
    BY <1>5, SpanIsPair
  <2>2. \A x \in DOMAIN a.found : a.found[x][2] < s
    BY <1>2, <1>5
  <2>3. /\ m \in Nat /\ DOMAIN a.found = 1..m /\ DOMAIN b.found = 1..(m + 1)
        /\ \A x \in 1..m : b.found[x] = a.found[x]
        /\ b.found[m + 1] = <<s, k>>
    <3>1. <<s, k>> \in Nat \X Nat
      BY <1>1
    <3> HIDE DEF a, b, s
    <3> QED
      BY <1>1, <1>5, <3>1
  <2> HIDE DEF m, s, a, b
  <2>4. /\ \A x \in 1..(m + 1) : x \in 1..m \/ x = m + 1
        /\ \A x, y \in 1..(m + 1) : x < y => x \in 1..m
    BY <2>3
  <2>5. <<s, k>>[1] = s /\ <<s, k>>[2] = k /\ k <= k
    OBVIOUS
  <2>6. \A x \in DOMAIN b.found : /\ b.found[x] \in Pairs
                                  /\ Parses(b.found[x][1], b.found[x][2])
                                  /\ b.found[x][2] <= k
    <3>1. ASSUME NEW x \in 1..m
          PROVE  /\ b.found[x] \in Pairs
                 /\ Parses(b.found[x][1], b.found[x][2])
                 /\ b.found[x][2] <= k
      BY <1>2, <1>3, <2>3
    <3>2. /\ b.found[m + 1] \in Pairs
          /\ Parses(b.found[m + 1][1], b.found[m + 1][2])
          /\ b.found[m + 1][2] <= k
      BY <1>5, <2>1, <2>3, <2>5
    <3> QED
      BY <2>3, <2>4, <3>1, <3>2
  <2>7. ASSUME NEW x \in DOMAIN b.found, NEW y \in DOMAIN b.found, x < y
        PROVE  b.found[x][2] < b.found[y][1]
    <3>1. x \in 1..m /\ b.found[x] = a.found[x] /\ x \in DOMAIN a.found
      BY <2>3, <2>4, <2>7
    <3>2. CASE y \in 1..m
      BY <1>2, <2>3, <2>7, <3>1, <3>2
    <3>3. CASE y = m + 1
      BY <2>2, <2>3, <2>5, <3>1, <3>3
    <3> QED
      BY <2>3, <2>4, <3>2, <3>3
  <2>8. ~(b.start > 0)
    BY <1>5
  <2> QED
    BY <2>6, <2>7, <2>8
<1> HIDE DEF Goal
<1>6. \/ b.found = a.found /\ (b.start = s \/ b.start = k \/ b.start = 0)
      \/ text[k] = "close" /\ ~a.inString /\ closes /\ Parses(s, k)
           /\ b.start = 0 /\ b.found = Append(a.found, <<s, k>>)
  <2> HIDE DEF a, b, s
  <2> QED
    BY <1>1
<1> QED
  BY <1>4, <1>5, <1>6

\* Behind every character.
LEMMA SpansAreTaken ==
  ASSUME text \in Seq(Tokens)
  PROVE  \A k \in 0..Len(text) : SpanAt(k) /\ TakenAt(k)
<1> DEFINE n == Len(text)
           S == {k \in 0..n : SpanAt(k) /\ TakenAt(k)}
<1>1. n \in Int /\ 0 \in Int /\ 0 \in 0..n
  OBVIOUS
<1>2. 0 \in S
  <2>1. Rehydration[0].start = 0 /\ Rehydration[0].found = <<>> /\ ~(0 > 0)
    BY RehydrationTurns
  <2>2. DOMAIN Rehydration[0].found = {}
    BY <2>1
  <2> QED
    BY <1>1, <2>1, <2>2 DEF SpanAt, TakenAt
<1>3. ASSUME NEW k \in (0 + 1)..n, k - 1 \in S PROVE k \in S
  <2>1. k \in 1..Len(text) /\ k \in 0..n
    OBVIOUS
  <2>2. SpanAt(k - 1) /\ TakenAt(k - 1)
    BY <1>3
  <2> QED
    BY <2>1, <2>2, SpanOn, TakenOn
<1> HIDE DEF S
<1>4. \A k \in 0..n : k \in S
  BY <1>1, <1>2, <1>3, InductionFrom
<1> QED
  BY <1>4 DEF S

\* What has been found is not lost.
LEMMA FoundStays ==
  ASSUME text \in Seq(Tokens), NEW m \in 0..Len(text)
  PROVE  \A i \in DOMAIN Rehydration[m].found :
           \E j \in DOMAIN Rehydration[Len(text)].found :
             Rehydration[Len(text)].found[j] = Rehydration[m].found[i]
<1> DEFINE n == Len(text)
           Keeps(k) == \A i \in DOMAIN Rehydration[m].found :
                         \E j \in DOMAIN Rehydration[k].found :
                           Rehydration[k].found[j] = Rehydration[m].found[i]
           S == {k \in m..n : Keeps(k)}
<1>1. n \in Int /\ m \in Int /\ m \in m..n /\ n \in m..n
  OBVIOUS
<1>2. m \in S
  BY <1>1
<1>3. ASSUME NEW k \in (m + 1)..n, k - 1 \in S PROVE k \in S
  <2> DEFINE a == Rehydration[k - 1]
             b == Rehydration[k]
  <2>1. k \in 1..Len(text) /\ k \in m..n
    OBVIOUS
  <2>2. /\ a.found \in Seq(Nat \X Nat) /\ a.start \in Nat
        /\ b.found \in {a.found, Append(a.found, <<a.start, k>>)}
    BY <2>1, RehydrationActs
  <2>3. \A j \in DOMAIN a.found : j \in DOMAIN b.found /\ b.found[j] = a.found[j]
    <3> DEFINE last == <<a.start, k>>
    <3>1. last \in Nat \X Nat /\ a.found \in Seq(Nat \X Nat)
      BY <2>1, <2>2
    <3>2. b.found = a.found \/ b.found = Append(a.found, last)
      BY <2>2
    <3> HIDE DEF a, b, last
    <3>3. CASE b.found = a.found
      BY <3>3
    <3>4. CASE b.found = Append(a.found, last)
      BY <3>1, <3>4
    <3> QED
      BY <3>2, <3>3, <3>4
  <2>4. Keeps(k - 1)
    BY <1>3
  <2>5. Keeps(k)
    <3> SUFFICES ASSUME NEW i \in DOMAIN Rehydration[m].found
                 PROVE  \E j \in DOMAIN b.found : b.found[j] = Rehydration[m].found[i]
      OBVIOUS
    <3>1. PICK j \in DOMAIN a.found : a.found[j] = Rehydration[m].found[i]
      BY <2>4
    <3> HIDE DEF a, b
    <3> QED
      BY <2>3, <3>1
  <2> HIDE DEF Keeps
  <2> QED
    BY <2>1, <2>5
<1> HIDE DEF S
<1>4. \A k \in m..n : k \in S
  BY <1>1, <1>2, <1>3, InductionFrom
<1> QED
  BY <1>1, <1>4 DEF S

\* On every text.
LEMMA CallsOfText ==
  ASSUME text \in Seq(Tokens)
  PROVE  CallsAreRecovered
<1> DEFINE n == Len(text)
           found == Rehydration[n].found
           K == {i \in DOMAIN found : EntriesKept(found[i][1], found[i][2]) = 1}
           called == {p \in TopLevel : EntriesKept(p[1], p[2]) = 1}
<1>1. n \in Nat /\ DOMAIN text = 1..n /\ n \in 0..n
  OBVIOUS
<1>2. /\ \A i \in DOMAIN found : found[i] \in Pairs
      /\ \A i, j \in DOMAIN found : i < j => found[i][2] < found[j][1]
  BY <1>1, SpansAreTaken DEF TakenAt
<1>3. found \in Seq(Nat \X Nat)
  <2>1. Rehydration[n] \in RehydrateStates
    BY <1>1, RehydrationTurns
  <2> QED
    BY <2>1 DEF RehydrateStates
<1>4. Rehydrated = SpansAt(found, K)
  BY DEF Rehydrated, SpansAt
<1> HIDE DEF found
<1>5. /\ \A x \in DOMAIN Rehydrated :
           \E i \in DOMAIN found : i \in K /\ Rehydrated[x] = found[i]
      /\ \A i \in DOMAIN found : i \in K =>
           \E x \in DOMAIN Rehydrated : Rehydrated[x] = found[i]
      /\ \A x, y \in DOMAIN Rehydrated : x < y => Rehydrated[x][2] < Rehydrated[y][1]
  <2>1. \A a, b \in DOMAIN found : a < b => found[a][2] < found[b][1]
    BY <1>2
  <2> HIDE DEF K, n
  <2> QED
    BY <1>3, <1>4, <2>1, SpansKept
<1>6. \A p \in ToSet(Rehydrated) : \E i \in DOMAIN found : i \in K /\ p = found[i]
  <2> HIDE DEF K
  <2> QED
    BY <1>5 DEF ToSet
<1>7. \A p \in ToSet(Rehydrated) : p \in Pairs /\ EntriesKept(p[1], p[2]) = 1
  BY <1>2, <1>6
<1>8. ASSUME NEW p \in called, \A k \in 1..p[2] : Orderly(k)
      PROVE  p \in ToSet(Rehydrated)
  <2> DEFINE m == p[2]
             before == Rehydration[m].found
  <2>1. p \in TopLevel /\ m \in 0..n /\ m <= m /\ EntriesKept(p[1], p[2]) = 1
    BY DEF TopLevel, Pairs
  <2>2. p \in Objects
    BY <2>1 DEF EntriesKept, Objects
  <2>3. FoundAt(m)
    BY <1>8, <2>1, ObjectsAreFound
  <2>4. \E i \in DOMAIN before : before[i] = p
    BY <2>1, <2>2, <2>3 DEF FoundAt
  <2>5. \A i \in DOMAIN before : \E j \in DOMAIN found : found[j] = before[i]
    BY <2>1, FoundStays DEF found
  <2> HIDE DEF before, m
  <2>6. PICK j \in DOMAIN found : found[j] = p
    BY <2>4, <2>5
  <2>7. j \in K
    BY <2>1, <2>6
  <2>8. \E x \in DOMAIN Rehydrated : Rehydrated[x] = found[j]
    BY <1>5, <2>7
  <2> QED
    BY <2>6, <2>8 DEF ToSet
<1>9. ASSUME \A k \in DOMAIN text : Orderly(k)
      PROVE  ToSet(Rehydrated) \subseteq called
  <2>1. FoundAt(n)
    BY <1>1, <1>9, ObjectsAreFound
  <2>2. \A i \in DOMAIN found : found[i] \in TopLevel
    BY <2>1 DEF FoundAt, Objects, found
  <2> QED
    BY <1>6, <2>2
<1>10. \A i, j \in DOMAIN Rehydrated : i < j => Rehydrated[i][2] < Rehydrated[j][1]
  BY <1>5
<1> HIDE DEF K
<1>11. /\ \A p \in called : (\A k \in 1..p[2] : Orderly(k)) => p \in ToSet(Rehydrated)
       /\ (\A k \in DOMAIN text : Orderly(k)) => ToSet(Rehydrated) \subseteq called
  BY <1>8, <1>9
<1> QED
  BY <1>7, <1>10, <1>11 DEF CallsAreRecovered

\* What extractJsonObjects and the filter behind it take from a reply of any length, whatever
\* stands in it, are balanced objects, one behind the other; every tool call in the text
\* itself is among them as long as no bracket before its end was closed without being opened
\* and no backslash stood outside a string; and in a text of which that is true throughout
\* there is nothing else.
THEOREM CallsAreRecoveredAlways == StreamSpec => []CallsAreRecovered
<1>1. text \in Seq(Tokens) => CallsAreRecovered
  BY CallsOfText
<1> QED
  BY <1>1, TextsAlways, PTL
=============================================================================
