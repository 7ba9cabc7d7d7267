------------------------------ MODULE BusProofs ------------------------------
(***************************************************************************)
(* Proofs about Bus, for any handlers, any number of registrations and any *)
(* depth of emissions: an emission is complete before it returns, and a    *)
(* disposer takes one registration away and no other.                      *)
(***************************************************************************)
EXTENDS Bus, SequenceTheorems, FiniteSetTheorems, FunctionTheorems, WellFoundedInduction,
        TLAPS

-----------------------------------------------------------------------------
(* Emissions                                                               *)

\* An emission that has called the handlers up to its position.
Right(f) ==
  f \in Emission /\ f.pos <= Len(f.snapshot) /\ f.called = SubSeq(f.snapshot, 1, f.pos)

AllRight(st) == st \in Seq(Emission) /\ \A i \in 1..Len(st) : Right(st[i])

\* What can be said of every emission in progress, wherever it is.
EmissionsInv ==
  /\ AllRight(stack)
  /\ \A w \in waiting : Right(w)

\* The invariant of the emissions from its two parts.
LEMMA EmissionsInvIs == TypeOK /\ FramesInv => EmissionsInv
<1> SUFFICES ASSUME TypeOK, FramesInv PROVE EmissionsInv
  OBVIOUS
<1>1. stack \in Seq(Emission) /\ DOMAIN stack = 1..Len(stack)
  BY LenProperties DEF TypeOK
<1>2. \A i \in 1..Len(stack) : stack[i] \in Emission /\ stack[i] \in Frames
  BY <1>1, ElementOfSeq DEF Frames
<1>3. AllRight(stack)
  BY <1>1, <1>2 DEF FramesInv, AllRight, Right
<1>4. ASSUME NEW w \in waiting PROVE Right(w)
  <2>1. w \in Emission /\ w \in Frames
    BY DEF TypeOK, Frames
  <2> QED
    BY <2>1 DEF FramesInv, Right
<1> QED
  BY <1>3, <1>4 DEF EmissionsInv

\* And the parts from it.
LEMMA EmissionsInvGives ==
  EmissionsInv =>
    stack \in Seq(Emission) /\ waiting \subseteq Emission /\ FramesInv
<1> SUFFICES ASSUME EmissionsInv
             PROVE  stack \in Seq(Emission) /\ waiting \subseteq Emission /\ FramesInv
  OBVIOUS
<1>1. stack \in Seq(Emission) /\ DOMAIN stack = 1..Len(stack)
  BY LenProperties DEF EmissionsInv, AllRight
<1>2. waiting \subseteq Emission
  BY DEF EmissionsInv, Right
<1>3. FramesInv
  BY <1>1 DEF EmissionsInv, AllRight, Right, FramesInv, Frames
<1> QED
  BY <1>1, <1>2, <1>3

\* Stacks of emissions, and what the code does to them.
LEMMA AppendRight ==
  ASSUME NEW st, AllRight(st), NEW f, Right(f)
  PROVE  AllRight(Append(st, f))
<1>1. st \in Seq(Emission) /\ f \in Emission
  BY DEF AllRight, Right
<1>2. /\ Append(st, f) \in Seq(Emission) /\ Len(Append(st, f)) = Len(st) + 1
      /\ \A i \in 1..Len(st) : Append(st, f)[i] = st[i]
      /\ Append(st, f)[Len(st) + 1] = f /\ Len(st) \in Nat
  BY <1>1, AppendProperties, LenProperties
<1>3. ASSUME NEW i \in 1..Len(Append(st, f)) PROVE Right(Append(st, f)[i])
  <2>1. i \in 1..Len(st) \/ i = Len(st) + 1
    BY <1>2, <1>3
  <2>2. CASE i \in 1..Len(st)
    BY <1>2, <2>2 DEF AllRight
  <2>3. CASE i = Len(st) + 1
    BY <1>2, <2>3
  <2> QED
    BY <2>1, <2>2, <2>3
<1> QED
  BY <1>2, <1>3 DEF AllRight

\* No emission is under way.
LEMMA EmptyRight == AllRight(<<>>)
BY EmptySeq DEF AllRight

\* One that is right.
LEMMA OneRight ==
  ASSUME NEW f, Right(f)
  PROVE  AllRight(<<f>>)
<1>1. f \in Emission
  BY DEF Right
<1>2. <<f>> \in Seq(Emission) /\ Len(<<f>>) = 1 /\ <<f>>[1] = f
  BY <1>1
<1> QED
  BY <1>2 DEF AllRight

\* One more on top of those that are right.
LEMMA ConcatOneRight ==
  ASSUME NEW st, AllRight(st), NEW f, Right(f)
  PROVE  AllRight(st \o <<f>>)
<1>1. st \in Seq(Emission) /\ <<f>> \in Seq(Emission) /\ Len(<<f>>) = 1 /\ <<f>>[1] = f
  BY OneRight DEF AllRight
<1>2. /\ st \o <<f>> \in Seq(Emission) /\ Len(st \o <<f>>) = Len(st) + 1
      /\ \A i \in 1..Len(st) + 1 :
           (st \o <<f>>)[i] = IF i <= Len(st) THEN st[i] ELSE <<f>>[i - Len(st)]
      /\ Len(st) \in Nat
  BY <1>1, ConcatProperties, LenProperties
<1>3. ASSUME NEW i \in 1..Len(st \o <<f>>) PROVE Right((st \o <<f>>)[i])
  <2>1. CASE i <= Len(st)
    BY <1>2, <1>3, <2>1 DEF AllRight
  <2>2. CASE i > Len(st)
    <3>1. i = Len(st) + 1 /\ i - Len(st) = 1
      BY <1>2, <1>3, <2>2
    <3>2. (st \o <<f>>)[i] = f
      BY <1>1, <1>2, <3>1
    <3> QED
      BY <3>2
  <2> QED
    BY <1>2, <1>3, <2>1, <2>2
<1> QED
  BY <1>2, <1>3 DEF AllRight

\* The emission on top, and those below it.
LEMMA BelowRight ==
  ASSUME AllRight(stack), stack # <<>>
  PROVE  AllRight(Below) /\ Right(Top)
<1>1. stack \in Seq(Emission) /\ Len(stack) \in Nat \ {0}
  BY EmptySeq DEF AllRight
<1>2. Right(Top)
  BY <1>1 DEF AllRight, Top
<1>3. \A i \in 1..(Len(stack) - 1) : stack[i] \in Emission
  BY <1>1 DEF AllRight, Right
<1>4. /\ Below \in Seq(Emission) /\ Len(Below) = Len(stack) - 1
      /\ \A i \in 1..Len(stack) - 1 : Below[i] = stack[i]
  <2> DEFINE n == Len(stack) - 1
  <2>1. n \in Nat /\ n \in Int
    BY <1>1
  <2>2. /\ SubSeq(stack, 1, n) \in Seq(Emission)
        /\ Len(SubSeq(stack, 1, n)) = IF 1 <= n THEN n - 1 + 1 ELSE 0
        /\ \A i \in 1..(n - 1 + 1) : SubSeq(stack, 1, n)[i] = stack[1 + i - 1]
    <3>1. \A i \in 1..n : stack[i] \in Emission
      BY <1>3
    <3> HIDE DEF n
    <3> QED
      BY <2>1, <3>1, SubSeqProperties
  <2>3. Below = SubSeq(stack, 1, n)
    BY DEF Below
  <2> HIDE DEF n
  <2>4. /\ Below \in Seq(Emission) /\ Len(Below) = n /\ \A i \in 1..n : Below[i] = stack[i]
    BY <2>1, <2>2, <2>3
  <2> QED
    BY <2>4 DEF n
<1> QED
  BY <1>1, <1>2, <1>4 DEF AllRight

\* The beginning of an emission, and what the code does to one.
LEMMA FrameRight ==
  ASSUME NEW nr \in 0..MaxEmits, NEW tag \in Tags,
         NEW how \in {"emit", "emitAsync", "emitMeta"}, NEW snapshot \in Seq(Handlers)
  PROVE  Right(Frame(nr, tag, how, snapshot))
<1>1. Frame(nr, tag, how, snapshot) \in Emission
  BY EmptySeq DEF Frame, Emission
<1>2. Len(snapshot) \in Nat
  BY LenProperties
<1>3. SubSeq(snapshot, 1, 0) = <<>>
  BY SubSeqEmpty
<1> QED
  BY <1>1, <1>2, <1>3 DEF Right, Frame

\* An emission that ends with its meta-events to come stays right.
LEMMA EndedRight ==
  ASSUME NEW f, Right(f), NEW m \in Seq(MetaTags)
  PROVE  Right([f EXCEPT !.running = FALSE, !.metas = m])
<1> DEFINE g == [f EXCEPT !.running = FALSE, !.metas = m]
<1>1. f \in Emission
  BY DEF Right
<1>2. /\ g \in Emission /\ g.pos = f.pos /\ g.snapshot = f.snapshot /\ g.called = f.called
  BY <1>1 DEF Emission
<1> QED
  BY <1>2 DEF Right

\* The meta-events of an emission.
LEMMA MetasOfType ==
  ASSUME NEW f, NEW threw, NEW slow
  PROVE  MetasOf(f, threw, slow) \in Seq(MetaTags)
<1>1. /\ <<>> \in Seq(MetaTags) /\ <<"bus:error">> \in Seq(MetaTags)
      /\ <<"bus:slow-handler">> \in Seq(MetaTags)
  BY DEF MetaTags
<1> DEFINE e == IF threw THEN <<"bus:error">> ELSE <<>>
           s == IF slow THEN <<"bus:slow-handler">> ELSE <<>>
<1>2. e \in Seq(MetaTags) /\ s \in Seq(MetaTags)
  BY <1>1
<1>3. e \o s \in Seq(MetaTags)
  BY <1>2, ConcatProperties
<1> QED
  BY <1>1, <1>3 DEF MetasOf

\* A call of the next handler takes called one handler further.
LEMMA CallRight ==
  ASSUME NEW f, Right(f), f.pos < Len(f.snapshot)
  PROVE  Right([f EXCEPT !.pos = @ + 1, !.running = TRUE,
                         !.called = Append(@, f.snapshot[f.pos + 1])])
<1> DEFINE s == f.snapshot
           n == f.pos
           h == s[n + 1]
           g == [f EXCEPT !.pos = @ + 1, !.running = TRUE, !.called = Append(@, h)]
<1>1. f \in Emission /\ s \in Seq(Handlers) /\ n \in Nat /\ f.called \in Seq(Handlers)
  BY DEF Right, Emission
<1>2. Len(s) \in Nat /\ n + 1 <= Len(s) /\ f.called = SubSeq(s, 1, n)
  BY <1>1, LenProperties DEF Right
<1>3. h \in Handlers
  BY <1>1, <1>2, ElementOfSeq
<1>4. /\ Append(f.called, h) \in Seq(Handlers)
      /\ Len(Append(f.called, h)) = Len(f.called) + 1
      /\ \A i \in 1..Len(f.called) : Append(f.called, h)[i] = f.called[i]
      /\ Append(f.called, h)[Len(f.called) + 1] = h
  BY <1>1, <1>3, AppendProperties
<1>5. g \in Emission /\ g.pos = n + 1 /\ g.snapshot = s /\ g.called = Append(f.called, h)
  <2> DEFINE c == Append(f.called, h)
  <2>1. g = [f EXCEPT !.pos = n + 1, !.running = TRUE, !.called = c]
    OBVIOUS
  <2>2. c \in Seq(Handlers) /\ n + 1 \in Nat
    BY <1>1, <1>4
  <2>3. c = Append(f.called, h)
    OBVIOUS
  <2> HIDE DEF c, n, g, h
  <2>4. g \in Emission /\ g.pos = n + 1 /\ g.snapshot = f.snapshot /\ g.called = c
    BY <1>1, <2>1, <2>2 DEF Emission
  <2> QED
    BY <2>3, <2>4
<1>6. \A i \in 1..Len(s) : s[i] \in Handlers
  BY <1>1, ElementOfSeq
<1>7. Len(f.called) = n /\ \A i \in 1..n : f.called[i] = s[i]
  <2>1. /\ Len(SubSeq(s, 1, n)) = IF 1 <= n THEN n - 1 + 1 ELSE 0
        /\ \A i \in 1..(n - 1 + 1) : SubSeq(s, 1, n)[i] = s[1 + i - 1]
    BY <1>1, <1>2, <1>6, SubSeqProperties
  <2> QED
    BY <1>1, <1>2, <2>1
<1>8. /\ SubSeq(s, 1, n + 1) \in Seq(Handlers) /\ Len(SubSeq(s, 1, n + 1)) = n + 1
      /\ \A i \in 1..n + 1 : SubSeq(s, 1, n + 1)[i] = s[i]
  <2>1. /\ SubSeq(s, 1, n + 1) \in Seq(Handlers)
        /\ Len(SubSeq(s, 1, n + 1)) = IF 1 <= n + 1 THEN n + 1 - 1 + 1 ELSE 0
        /\ \A i \in 1..(n + 1 - 1 + 1) : SubSeq(s, 1, n + 1)[i] = s[1 + i - 1]
    BY <1>1, <1>2, <1>6, SubSeqProperties
  <2> QED
    BY <1>1, <2>1
<1> HIDE DEF h, s, n
<1>9. \A i \in 1..n + 1 : Append(f.called, h)[i] = SubSeq(s, 1, n + 1)[i]
  BY <1>1, <1>4, <1>7, <1>8 DEF h, s, n
<1>10. Append(f.called, h) = SubSeq(s, 1, n + 1)
  BY <1>1, <1>4, <1>7, <1>8, <1>9, SeqEqual
<1> QED
  BY <1>2, <1>5, <1>10 DEF Right, h, s, n

\* Registrations and lists are of their types.
ListsInv ==
  /\ listeners \in [Tags -> Seq(Handlers)] /\ regs \in Seq(Registration)
  /\ emits \in 0..MaxEmits /\ offUsed \in BOOLEAN

BusInv == ListsInv /\ EmissionsInv

\* What the invariant says of an emission.
LEMMA BusInvGives == BusInv => TypeOK /\ EmissionIsComplete
<1> SUFFICES ASSUME BusInv PROVE TypeOK /\ EmissionIsComplete
  OBVIOUS
<1>1. TypeOK /\ FramesInv /\ EmissionsInv
  BY EmissionsInvGives DEF BusInv, ListsInv, TypeOK
<1>2. ASSUME NEW f \in Frames
      PROVE  f.called = SubSeq(f.snapshot, 1, f.pos) /\ (Finished(f) => f.called = f.snapshot)
  <2>1. f \in Emission
    <3>1. DOMAIN stack = 1..Len(stack)
      BY <1>1, LenProperties DEF TypeOK
    <3> QED
      BY <1>1, <3>1 DEF Frames, EmissionsInv, AllRight, Right
  <2>2. f.snapshot \in Seq(Handlers) /\ f.pos \in Nat
    BY <2>1 DEF Emission
  <2>3. f.pos <= Len(f.snapshot) /\ f.called = SubSeq(f.snapshot, 1, f.pos)
    BY <1>1, <1>2 DEF FramesInv
  <2>4. ASSUME Finished(f) PROVE f.called = f.snapshot
    <3> DEFINE s == f.snapshot
    <3>1. Len(s) \in Nat /\ f.pos = Len(s) /\ \A i \in 1..Len(s) : s[i] \in Handlers
      BY <2>2, <2>3, <2>4, LenProperties, ElementOfSeq DEF Finished, HandlersOf
    <3>2. /\ SubSeq(s, 1, Len(s)) \in Seq(Handlers)
          /\ Len(SubSeq(s, 1, Len(s))) = IF 1 <= Len(s) THEN Len(s) - 1 + 1 ELSE 0
          /\ \A i \in 1..(Len(s) - 1 + 1) : SubSeq(s, 1, Len(s))[i] = s[1 + i - 1]
      BY <3>1, SubSeqProperties
    <3>3. Len(SubSeq(s, 1, Len(s))) = Len(s)
          /\ \A i \in 1..Len(s) : SubSeq(s, 1, Len(s))[i] = s[i]
      BY <3>1, <3>2
    <3>4. SubSeq(s, 1, Len(s)) = s
      <4> HIDE DEF s
      <4>1. s \in Seq(Handlers)
        BY <2>2 DEF s
      <4> QED
        BY <3>2, <3>3, <4>1, SeqEqual
    <3> QED
      BY <2>3, <3>1, <3>4
  <2> QED
    BY <2>3, <2>4
<1> QED
  BY <1>1, <1>2 DEF EmissionIsComplete

\* A new bus has no emission under way.
LEMMA InitBusInv == Init => BusInv
<1> SUFFICES ASSUME Init PROVE BusInv
  OBVIOUS
<1>1. <<>> \in Seq(Handlers) /\ <<>> \in Seq(Registration)
  BY EmptySeq
<1>2. ListsInv
  <2>1. listeners \in [Tags -> Seq(Handlers)] /\ regs \in Seq(Registration)
    BY <1>1 DEF Init
  <2>2. emits \in 0..MaxEmits /\ offUsed \in BOOLEAN
    <3>1. emits = 0 /\ offUsed \in BOOLEAN
      BY DEF Init
    <3>2. MaxEmits \in Nat
      BY BusAssumption
    <3>3. emits \in 0..MaxEmits
      BY <3>1, <3>2
    <3> QED
      BY <3>1, <3>3
  <2> QED
    BY <2>1, <2>2 DEF ListsInv
<1>3. EmissionsInv
  BY EmptyRight DEF Init, EmissionsInv
<1> QED
  BY <1>2, <1>3 DEF BusInv

\* A set of places has a first.
LEMMA LeastOfSet ==
  ASSUME NEW S \in SUBSET Nat, S # {}
  PROVE  \E i \in S : \A j \in S : i <= j
<1> DEFINE R == OpToRel(<, Nat)
<1>1. IsWellFoundedOn(R, Nat)
  BY NatLessThanWellFounded
<1>2. \A i, j \in Nat : <<i, j>> \in R <=> i < j
  BY DEF OpToRel
<1> HIDE DEF R
<1>3. PICK i \in S : \A j \in S : ~(<<j, i>> \in R)
  BY <1>1, WFMin
<1>4. ASSUME NEW j \in S PROVE i <= j
  <2>1. i \in Nat /\ j \in Nat /\ ~(<<j, i>> \in R)
    BY <1>3
  <2>2. ~(j < i)
    BY <1>2, <2>1
  <2> QED
    BY <2>1, <2>2
<1> QED
  BY <1>4

\* Taking a handler out of a list leaves a list.
LEMMA WithoutType ==
  ASSUME NEW list \in Seq(Handlers), NEW h
  PROVE  Without(list, h) \in Seq(Handlers)
<1> DEFINE found == {i \in DOMAIN list : list[i] = h}
           k == CHOOSE i \in found : \A j \in found : i <= j
<1>1. CASE found = {}
  BY <1>1 DEF Without
<1>2. CASE found # {}
  <2>1. found \subseteq Nat /\ found # {}
    BY <1>2, LenProperties
  <2>2. \E i \in found : \A j \in found : i <= j
    <3> HIDE DEF found
    <3> QED
      BY <2>1, LeastOfSet
  <2>3. k \in found
    BY <2>2
  <2>4. k \in 1..Len(list) /\ Len(list) \in Nat
    BY <2>3, LenProperties
  <2>5. \A i \in 1..Len(list) : list[i] \in Handlers
    BY ElementOfSeq
  <2> HIDE DEF k
  <2>6. SubSeq(list, 1, k - 1) \in Seq(Handlers)
    <3>1. 1 \in Int /\ k - 1 \in Int /\ \A i \in 1..(k - 1) : list[i] \in Handlers
      BY <2>4, <2>5
    <3> QED
      BY <3>1, SubSeqProperties
  <2>7. SubSeq(list, k + 1, Len(list)) \in Seq(Handlers)
    <3>1. k + 1 \in Int /\ Len(list) \in Int /\ \A i \in (k + 1)..Len(list) : list[i] \in Handlers
      BY <2>4, <2>5
    <3> QED
      BY <3>1, SubSeqProperties
  <2>8. SubSeq(list, 1, k - 1) \o SubSeq(list, k + 1, Len(list)) \in Seq(Handlers)
    BY <2>6, <2>7, ConcatProperties
  <2> QED
    BY <1>2, <2>8 DEF Without, k
<1> QED
  BY <1>1, <1>2

\* A step that leaves the emissions to other steps.
LEMMA SameEmissions ==
  ASSUME EmissionsInv, UNCHANGED <<stack, waiting>>
  PROVE  EmissionsInv'
BY DEF EmissionsInv, AllRight

\* A call of the bus, from outside or from a handler, touches no emission that is
\* under way.
LEMMA UserStepPreserves ==
  ASSUME BusInv,
         \/ \E t \in Tags, h \in Handlers : On(t, h) \/ Off(t, h)
         \/ \E i \in DOMAIN regs : Dispose(i)
         \/ \E t \in Tags, how \in {"emit", "emitAsync"} : Emit(t, how)
  PROVE  BusInv'
<1>0. ListsInv /\ EmissionsInv
  BY DEF BusInv
<1>1. ASSUME NEW t \in Tags, NEW h \in Handlers, On(t, h) PROVE BusInv'
  <2>1. [tag |-> t, handler |-> h, disposed |-> FALSE] \in Registration
    BY DEF Registration
  <2>2. regs' \in Seq(Registration)
    BY <1>0, <1>1, <2>1, AppendProperties DEF On, ListsInv
  <2>3. Append(listeners[t], h) \in Seq(Handlers)
    BY <1>0, AppendProperties DEF ListsInv
  <2>4. listeners' \in [Tags -> Seq(Handlers)]
    BY <1>0, <1>1, <2>3 DEF On, ListsInv
  <2> QED
    BY <1>0, <1>1, <2>2, <2>4, SameEmissions DEF On, ListsInv, BusInv
<1>2. ASSUME NEW t \in Tags, NEW h \in Handlers, Off(t, h) PROVE BusInv'
  <2>1. Without(listeners[t], h) \in Seq(Handlers)
    BY <1>0, WithoutType DEF ListsInv
  <2>2. listeners' \in [Tags -> Seq(Handlers)]
    BY <1>0, <1>2, <2>1 DEF Off, ListsInv
  <2> QED
    BY <1>0, <1>2, <2>2, SameEmissions DEF Off, ListsInv, BusInv
<1>3. ASSUME NEW i \in DOMAIN regs, Dispose(i) PROVE BusInv'
  <2>1. i \in 1..Len(regs) /\ regs[i] \in Registration
    BY <1>0, LenProperties, ElementOfSeq DEF ListsInv
  <2>2. regs[i].tag \in Tags /\ [regs[i] EXCEPT !.disposed = TRUE] \in Registration
    BY <2>1 DEF Registration
  <2>3. regs' \in Seq(Registration)
    BY <1>0, <1>3, <2>1, <2>2, ExceptSeq DEF Dispose, ListsInv
  <2>4. Without(listeners[regs[i].tag], regs[i].handler) \in Seq(Handlers)
    BY <1>0, <2>2, WithoutType DEF ListsInv
  <2>5. listeners' \in [Tags -> Seq(Handlers)]
    BY <1>0, <1>3, <2>2, <2>4 DEF Dispose, ListsInv
  <2> QED
    BY <1>0, <1>3, <2>3, <2>5, SameEmissions DEF Dispose, ListsInv, BusInv
<1>4. ASSUME NEW t \in Tags, NEW how \in {"emit", "emitAsync"}, Emit(t, how) PROVE BusInv'
  <2>1. ListsInv'
    BY <1>0, <1>4, BusAssumption DEF Emit, ListsInv
  <2>2. Right(Frame(emits + 1, t, how, listeners[t]))
    <3>1. emits + 1 \in 0..MaxEmits
      BY <1>0, <1>4, BusAssumption DEF Emit, ListsInv
    <3>2. listeners[t] \in Seq(Handlers)
      BY <1>0 DEF ListsInv
    <3> QED
      BY <3>1, <3>2, FrameRight
  <2>3. AllRight(stack')
    BY <1>0, <1>4, <2>2, AppendRight DEF Emit, EmissionsInv
  <2>4. EmissionsInv'
    BY <1>0, <1>4, <2>3 DEF Emit, EmissionsInv
  <2> QED
    BY <2>1, <2>4 DEF BusInv
<1> QED
  BY <1>1, <1>2, <1>3, <1>4

\* The steps of an emission: whatever a handler does, and while a promise of one
\* is out, called stays the handlers up to pos.
LEMMA ProgressPreserves ==
  ASSUME BusInv, Progress
  PROVE  BusInv'
<1>0. ListsInv /\ EmissionsInv /\ AllRight(stack)
  BY DEF BusInv, EmissionsInv
<1>1. UNCHANGED <<listeners, regs, offUsed, emits>>
  BY DEF Progress, CallHandler, Await, EmitMeta, Return, HandlerEnds, HandlerSettles
<1>2. ListsInv'
  BY <1>0, <1>1 DEF ListsInv
<1> SUFFICES EmissionsInv'
  BY <1>2 DEF BusInv
<1>3. stack # <<>> => AllRight(Below) /\ Right(Top)
  BY <1>0, BelowRight
<1>4. ASSUME UNCHANGED waiting, AllRight(stack') PROVE EmissionsInv'
  BY <1>0, <1>1, <1>4 DEF EmissionsInv
<1>5. CASE CallHandler
  <2> DEFINE f == [Top EXCEPT !.pos = @ + 1, !.running = TRUE,
                              !.called = Append(@, Top.snapshot[Top.pos + 1])]
  <2>1. Right(Top) /\ AllRight(Below) /\ Top.pos < Len(Top.snapshot)
    BY <1>3, <1>5 DEF CallHandler, HandlersOf
  <2>2. Right(f)
    BY <2>1, CallRight
  <2>3. stack' = Append(Below, f) /\ UNCHANGED waiting
    BY <1>5 DEF CallHandler, HandlersOf, Put
  <2> HIDE DEF f
  <2>4. AllRight(stack')
    BY <2>1, <2>2, <2>3, AppendRight
  <2> QED
    BY <1>4, <2>3, <2>4
<1>6. CASE Await
  <2>1. stack' = Below /\ waiting' = waiting \cup {Top}
        /\ AllRight(Below) /\ Right(Top)
    BY <1>3, <1>6 DEF Await
  <2>2. AllRight(stack')
    BY <2>1
  <2>3. \A w \in waiting' : Right(w)
    BY <1>0, <2>1 DEF EmissionsInv
  <2> QED
    BY <2>2, <2>3 DEF EmissionsInv
<1>7. CASE EmitMeta
  <2> DEFINE tag == Head(Top.metas)
             f == [Top EXCEPT !.metas = Tail(@)]
             new == Frame(0, tag, "emitMeta", listeners[tag])
  <2>1. Right(Top) /\ AllRight(Below) /\ Top.metas # <<>> /\ UNCHANGED waiting
    BY <1>3, <1>7 DEF EmitMeta
  <2>2. Top \in Emission /\ Top.metas \in Seq(MetaTags)
    BY <2>1 DEF Right, Emission
  <2>3. tag \in MetaTags /\ Tail(Top.metas) \in Seq(MetaTags)
    BY <2>1, <2>2, HeadTailProperties
  <2>4. Right(f)
    <3>1. f \in Emission /\ f.pos = Top.pos /\ f.snapshot = Top.snapshot /\ f.called = Top.called
      BY <2>2, <2>3 DEF Emission
    <3> QED
      BY <2>1, <3>1 DEF Right
  <2>5. Right(new)
    <3>1. tag \in Tags /\ listeners[tag] \in Seq(Handlers)
      BY <1>0, <2>3, BusAssumption DEF ListsInv
    <3>2. 0 \in 0..MaxEmits
      BY BusAssumption
    <3> HIDE DEF tag
    <3> QED
      BY <3>1, <3>2, FrameRight
  <2>6. stack' = Append(Below, f) \o (IF listeners[tag] = <<>> THEN <<>> ELSE <<new>>)
    BY <1>7 DEF EmitMeta
  <2> HIDE DEF f, new, tag
  <2>7. AllRight(Append(Below, f))
    BY <2>1, <2>4, AppendRight
  <2>8. CASE listeners[tag] = <<>>
    <3>1. stack' = Append(Below, f)
      BY <2>6, <2>7, <2>8, ConcatEmptySeq DEF AllRight
    <3> QED
      BY <1>4, <2>1, <2>7, <3>1
  <2>9. CASE listeners[tag] # <<>>
    <3>1. stack' = Append(Below, f) \o <<new>>
      BY <2>6, <2>9
    <3>2. AllRight(stack')
      BY <2>5, <2>7, <3>1, ConcatOneRight
    <3> QED
      BY <1>4, <2>1, <3>2
  <2> QED
    BY <2>8, <2>9
<1>8. CASE Return
  BY <1>3, <1>4, <1>8 DEF Return
<1>9. ASSUME NEW threw \in BOOLEAN, NEW slow \in BOOLEAN, HandlerEnds(threw, slow)
      PROVE  EmissionsInv'
  <2> DEFINE m == MetasOf(Top, threw, slow)
             f == [Top EXCEPT !.running = FALSE, !.metas = m]
  <2>1. Right(Top) /\ AllRight(Below) /\ stack' = Append(Below, f) /\ UNCHANGED waiting
    BY <1>3, <1>9 DEF HandlerEnds, Put
  <2>2. m \in Seq(MetaTags)
    BY MetasOfType
  <2> HIDE DEF m
  <2>3. Right(f)
    BY <2>1, <2>2, EndedRight
  <2> HIDE DEF f
  <2> QED
    BY <1>4, <2>1, <2>3, AppendRight
<1>10. ASSUME NEW threw \in BOOLEAN, NEW slow \in BOOLEAN, NEW w \in waiting,
              HandlerSettles(w, threw, slow)
       PROVE  EmissionsInv'
  <2> DEFINE m == MetasOf(w, threw, slow)
             f == [w EXCEPT !.running = FALSE, !.metas = m]
  <2>1. Right(w) /\ stack' = <<f>> /\ waiting' = waiting \ {w}
    BY <1>0, <1>10 DEF HandlerSettles, EmissionsInv
  <2>2. m \in Seq(MetaTags)
    BY MetasOfType
  <2> HIDE DEF m
  <2>3. Right(f)
    BY <2>1, <2>2, EndedRight
  <2> HIDE DEF f
  <2>4. AllRight(stack')
    BY <2>1, <2>3, OneRight
  <2> QED
    BY <1>0, <1>1, <2>1, <2>4 DEF EmissionsInv
<1> QED
  BY <1>5, <1>6, <1>7, <1>8, <1>9, <1>10 DEF Progress

\* Every step keeps the emissions right.
LEMMA NextPreservesBusInv == BusInv /\ [Next]_vars => BusInv'
<1> SUFFICES ASSUME BusInv, [Next]_vars PROVE BusInv'
  OBVIOUS
<1>1. CASE UNCHANGED vars
  BY <1>1, SameEmissions DEF vars, BusInv, ListsInv
<1>2. CASE Next
  BY <1>2, UserStepPreserves, ProgressPreserves DEF Next
<1> QED
  BY <1>1, <1>2

\* The inductive invariant of the bus.
THEOREM BusInvariant == Spec => []BusInv
  BY InitBusInv, NextPreservesBusInv, PTL DEF Spec

\* Type correctness of the bus, for any depth of emissions.
THEOREM BusTypeCorrect == Spec => []TypeOK
  BY BusInvGives, BusInvariant, PTL

\* An emission calls every handler that was registered when it began, once per
\* registration and in order, whatever handlers throw, dispose or register in the
\* meantime, and across the awaits of emitAsync (NFR-002, bus.ts:8).
THEOREM EmissionIsCompleteAlways == Spec => []EmissionIsComplete
  BY BusInvGives, BusInvariant, PTL

-----------------------------------------------------------------------------
(* Disposers                                                               *)

\* Taking place k out of a list takes k from the places of what is there, and moves
\* the places behind it: those of everything else stay as many.
Cut(list, k) == SubSeq(list, 1, k - 1) \o SubSeq(list, k + 1, Len(list))

\* A list with one place cut out.
LEMMA CutFacts ==
  ASSUME NEW list \in Seq(Handlers), NEW k \in 1..Len(list)
  PROVE  /\ Cut(list, k) \in Seq(Handlers) /\ Len(Cut(list, k)) = Len(list) - 1
         /\ \A i \in 1..Len(list) - 1 : Cut(list, k)[i] = IF i < k THEN list[i] ELSE list[i + 1]
<1> DEFINE n == Len(list)
           a == SubSeq(list, 1, k - 1)
           b == SubSeq(list, k + 1, n)
<1>1. n \in Nat /\ k \in 1..n /\ \A i \in 1..n : list[i] \in Handlers
  BY LenProperties, ElementOfSeq
<1>2. a \in Seq(Handlers) /\ Len(a) = k - 1 /\ \A i \in 1..k - 1 : a[i] = list[i]
  <2>1. 1 \in Int /\ k - 1 \in Int /\ \A i \in 1..(k - 1) : list[i] \in Handlers
    BY <1>1
  <2>2. /\ a \in Seq(Handlers) /\ Len(a) = IF 1 <= k - 1 THEN k - 1 - 1 + 1 ELSE 0
        /\ \A i \in 1..(k - 1 - 1 + 1) : a[i] = list[1 + i - 1]
    BY <2>1, SubSeqProperties
  <2> QED
    BY <1>1, <2>2
<1>3. b \in Seq(Handlers) /\ Len(b) = n - k /\ \A i \in 1..n - k : b[i] = list[k + i]
  <2>1. k + 1 \in Int /\ n \in Int /\ \A i \in (k + 1)..n : list[i] \in Handlers
    BY <1>1
  <2>2. /\ b \in Seq(Handlers) /\ Len(b) = IF k + 1 <= n THEN n - (k + 1) + 1 ELSE 0
        /\ \A i \in 1..(n - (k + 1) + 1) : b[i] = list[(k + 1) + i - 1]
    BY <2>1, SubSeqProperties
  <2> QED
    BY <1>1, <2>2
<1> HIDE DEF a, b, n
<1>4. /\ a \o b \in Seq(Handlers) /\ Len(a \o b) = Len(a) + Len(b)
      /\ \A i \in 1..Len(a) + Len(b) : (a \o b)[i] = IF i <= Len(a) THEN a[i] ELSE b[i - Len(a)]
  BY <1>2, <1>3, ConcatProperties
<1>5. Len(a) + Len(b) = n - 1
  BY <1>1, <1>2, <1>3
<1>6. ASSUME NEW i \in 1..n - 1
      PROVE  (a \o b)[i] = IF i < k THEN list[i] ELSE list[i + 1]
  <2>1. CASE i < k
    BY <1>1, <1>2, <1>4, <1>5, <1>6, <2>1
  <2>2. CASE i >= k
    <3>1. i - (k - 1) \in 1..n - k /\ k + (i - (k - 1)) = i + 1
      BY <1>1, <1>6, <2>2
    <3>2. (a \o b)[i] = b[i - (k - 1)]
      BY <1>1, <1>2, <1>4, <1>5, <1>6, <2>2
    <3> QED
      BY <1>1, <1>3, <1>6, <2>2, <3>1, <3>2
  <2>3. i < k \/ i >= k
    BY <1>1, <1>6
  <2> QED
    BY <2>1, <2>2, <2>3
<1> QED
  BY <1>4, <1>5, <1>6 DEF Cut, a, b, n

\* The places of a handler in a list are finitely many.
LEMMA PlacesFinite ==
  ASSUME NEW list \in Seq(Handlers), NEW h
  PROVE  IsFiniteSet(Places(list, h)) /\ Places(list, h) \subseteq 1..Len(list)
<1>1. Len(list) \in Nat /\ DOMAIN list = 1..Len(list)
  BY LenProperties
<1>2. Places(list, h) \in SUBSET (1..Len(list))
  BY <1>1 DEF Places
<1>3. IsFiniteSet(1..Len(list))
  BY <1>1, FS_Interval
<1> QED
  BY <1>2, <1>3, FS_Subset

\* Cutting a place takes it from the places of its handler, and from no others.
LEMMA CutPlaces ==
  ASSUME NEW list \in Seq(Handlers), NEW k \in 1..Len(list), NEW h
  PROVE  /\ IsFiniteSet(Places(Cut(list, k), h))
         /\ Cardinality(Places(Cut(list, k), h)) = Cardinality(Places(list, h) \ {k})
<1> DEFINE n == Len(list)
           S == Places(list, h) \ {k}
           T == Places(Cut(list, k), h)
           F == [i \in S |-> IF i < k THEN i ELSE i - 1]
<1>1. n \in Nat /\ DOMAIN list = 1..n
  BY LenProperties
<1>2. /\ Cut(list, k) \in Seq(Handlers) /\ Len(Cut(list, k)) = n - 1
      /\ \A i \in 1..n - 1 : Cut(list, k)[i] = IF i < k THEN list[i] ELSE list[i + 1]
  BY CutFacts
<1>3. DOMAIN Cut(list, k) = 1..n - 1
  BY <1>2, LenProperties
<1>4. /\ \A i : i \in S <=> i \in 1..n /\ i # k /\ list[i] = h
      /\ \A i : i \in T <=> i \in 1..n - 1 /\ Cut(list, k)[i] = h
  BY <1>1, <1>3 DEF Places
<1> HIDE DEF S, T, n
<1>5. \A i \in S : F[i] \in T
  <2> SUFFICES ASSUME NEW i \in S PROVE F[i] \in T
    OBVIOUS
  <2>1. i \in 1..n /\ i # k /\ list[i] = h
    BY <1>4
  <2>2. CASE i < k
    <3>1. F[i] = i /\ i \in 1..n - 1
      BY <1>1, <2>1, <2>2 DEF n
    <3> QED
      BY <1>2, <1>4, <2>1, <2>2, <3>1
  <2>3. CASE i > k
    <3>1. F[i] = i - 1 /\ i - 1 \in 1..n - 1 /\ ~(i - 1 < k) /\ i - 1 + 1 = i
      BY <1>1, <2>1, <2>3
    <3> QED
      BY <1>2, <1>4, <2>1, <3>1
  <2> QED
    BY <2>1, <2>2, <2>3
<1>6. \A i, j \in S : F[i] = F[j] => i = j
  <2> SUFFICES ASSUME NEW i \in S, NEW j \in S, F[i] = F[j] PROVE i = j
    OBVIOUS
  <2>1. i \in 1..n /\ j \in 1..n /\ i # k /\ j # k
    BY <1>4
  <2> QED
    BY <1>1, <2>1
<1>7. \A j \in T : \E i \in S : F[i] = j
  <2> SUFFICES ASSUME NEW j \in T PROVE \E i \in S : F[i] = j
    OBVIOUS
  <2>1. j \in 1..n - 1 /\ Cut(list, k)[j] = h
    BY <1>4
  <2>2. CASE j < k
    <3>1. j \in S /\ F[j] = j
      BY <1>1, <1>2, <1>4, <2>1, <2>2
    <3> QED
      BY <3>1
  <2>3. CASE j >= k
    <3>1. list[j + 1] = h /\ j + 1 \in 1..n /\ j + 1 # k
      BY <1>1, <1>2, <2>1, <2>3
    <3>2. j + 1 \in S
      BY <1>4, <3>1
    <3>3. F[j + 1] = j
      BY <1>1, <2>1, <2>3, <3>2
    <3> QED
      BY <3>2, <3>3
  <2> QED
    BY <1>1, <2>1, <2>2, <2>3
<1>8. F \in Bijection(S, T)
  <2>1. F \in [S -> T]
    BY <1>5
  <2> HIDE DEF F
  <2> QED
    BY <1>6, <1>7, <2>1, Fun_IsBij
<1>9. ExistsBijection(S, T)
  BY <1>8 DEF ExistsBijection
<1>10. IsFiniteSet(S)
  <2>1. IsFiniteSet(Places(list, h))
    BY PlacesFinite
  <2> QED
    BY <2>1, FS_RemoveElement DEF S
<1>11. IsFiniteSet(T) /\ Cardinality(T) = Cardinality(S)
  BY <1>9, <1>10, FS_Bijection
<1> QED
  BY <1>11 DEF S, T

\* removeHandler takes the first place of h, when there is one.
LEMMA WithoutPlaces ==
  ASSUME NEW list \in Seq(Handlers), NEW g, NEW h
  PROVE  /\ IsFiniteSet(Places(Without(list, g), h))
         /\ Cardinality(Places(Without(list, g), h)) =
              IF g = h /\ Places(list, h) # {} THEN Cardinality(Places(list, h)) - 1
              ELSE Cardinality(Places(list, h))
<1> DEFINE found == {i \in DOMAIN list : list[i] = g}
           k == CHOOSE i \in found : \A j \in found : i <= j
<1>0. IsFiniteSet(Places(list, h)) /\ found = Places(list, g)
      /\ DOMAIN list = 1..Len(list) /\ Len(list) \in Nat
  BY PlacesFinite, LenProperties DEF Places
<1>1. CASE found = {}
  <2>1. Without(list, g) = list
    BY <1>1 DEF Without
  <2>2. ~(g = h /\ Places(list, h) # {})
    BY <1>0, <1>1
  <2> QED
    BY <1>0, <2>1, <2>2
<1>2. CASE found # {}
  <2>1. \E i \in found : \A j \in found : i <= j
    <3>1. found \in SUBSET Nat
      BY <1>0
    <3> HIDE DEF found
    <3> QED
      BY <1>2, <3>1, LeastOfSet
  <2>2. k \in found
    BY <2>1
  <2>3. k \in 1..Len(list) /\ list[k] = g
    BY <1>0, <2>2
  <2>4. Without(list, g) = Cut(list, k)
    BY <1>2 DEF Without, Cut
  <2> HIDE DEF k, found
  <2>5. /\ IsFiniteSet(Places(Cut(list, k), h))
        /\ Cardinality(Places(Cut(list, k), h)) = Cardinality(Places(list, h) \ {k})
    BY <2>3, CutPlaces
  <2>6. k \in Places(list, h) <=> g = h
    BY <1>0, <2>3 DEF Places
  <2>7. Cardinality(Places(list, h) \ {k}) =
          IF k \in Places(list, h) THEN Cardinality(Places(list, h)) - 1
          ELSE Cardinality(Places(list, h))
    BY <1>0, FS_RemoveElement
  <2>8. g = h => Places(list, h) # {}
    BY <2>6
  <2> QED
    BY <2>4, <2>5, <2>6, <2>7, <2>8
<1> QED
  BY <1>1, <1>2

\* A registration more, and one disposed of.
LEMMA OpenFinite ==
  ASSUME ListsInv, NEW t, NEW h
  PROVE  /\ IsFiniteSet(Open(t, h)) /\ Open(t, h) \subseteq 1..Len(regs)
         /\ DOMAIN regs = 1..Len(regs) /\ Len(regs) \in Nat
<1>1. Len(regs) \in Nat /\ DOMAIN regs = 1..Len(regs)
  BY LenProperties DEF ListsInv
<1>2. Open(t, h) \in SUBSET (1..Len(regs))
  BY <1>1 DEF Open
<1>3. IsFiniteSet(1..Len(regs))
  BY <1>1, FS_Interval
<1> QED
  BY <1>1, <1>2, <1>3, FS_Subset

\* What is pushed is in a list once more.
LEMMA AppendPlaces ==
  ASSUME NEW list \in Seq(Handlers), NEW g \in Handlers, NEW h
  PROVE  Places(Append(list, g), h) =
           IF g = h THEN Places(list, h) \cup {Len(list) + 1} ELSE Places(list, h)
<1>1. /\ Append(list, g) \in Seq(Handlers) /\ Len(Append(list, g)) = Len(list) + 1
      /\ \A i \in 1..Len(list) : Append(list, g)[i] = list[i]
      /\ Append(list, g)[Len(list) + 1] = g
      /\ Len(list) \in Nat /\ DOMAIN list = 1..Len(list)
  BY AppendProperties, LenProperties
<1>2. DOMAIN Append(list, g) = 1..Len(list) + 1
  BY <1>1, LenProperties
<1> QED
  BY <1>1, <1>2 DEF Places

\* A registration adds a place, and a disposer that is still open.
LEMMA OnOpens ==
  ASSUME BusInv, DisposersAreExact, NEW t \in Tags, NEW h \in Handlers, On(t, h)
  PROVE  DisposersAreExact'
<1> DEFINE reg == [tag |-> t, handler |-> h, disposed |-> FALSE]
<1>0. ListsInv /\ UNCHANGED offUsed
  BY DEF BusInv, On
<1>1. reg \in Registration
  BY DEF Registration
<1> HIDE DEF reg
<1> SUFFICES ASSUME ~offUsed, NEW u \in Tags, NEW g \in Handlers
             PROVE  Cardinality(Places(listeners'[u], g)) = Cardinality(Open(u, g)')
  BY <1>0 DEF DisposersAreExact
<1>2. /\ regs' = Append(regs, reg) /\ Len(regs') = Len(regs) + 1
      /\ \A i \in 1..Len(regs) : regs'[i] = regs[i]
      /\ regs'[Len(regs) + 1] = reg /\ DOMAIN regs' = 1..Len(regs) + 1
      /\ Len(regs) \in Nat /\ DOMAIN regs = 1..Len(regs)
  <2>1. regs' = Append(regs, reg)
    BY DEF On, reg
  <2>2. regs \in Seq(Registration)
    BY <1>0 DEF ListsInv
  <2> QED
    BY <1>1, <2>1, <2>2, AppendProperties, LenProperties
<1>3. Cardinality(Places(listeners[u], g)) = Cardinality(Open(u, g))
  BY <1>0 DEF DisposersAreExact
<1>4. IsFiniteSet(Open(u, g)) /\ Open(u, g) \subseteq 1..Len(regs)
  BY <1>0, OpenFinite
<1>5. listeners[u] \in Seq(Handlers)
  BY <1>0 DEF ListsInv
<1>6. CASE u = t /\ g = h
  <2>1. Open(u, g)' = Open(u, g) \cup {Len(regs) + 1}
    BY <1>2, <1>6 DEF Open, reg
  <2>2. Len(regs) + 1 \notin Open(u, g)
    BY <1>2, <1>4
  <2>3. Cardinality(Open(u, g)') = Cardinality(Open(u, g)) + 1
    BY <1>4, <2>1, <2>2, FS_AddElement
  <2>4. listeners'[u] = Append(listeners[u], h)
    BY <1>0, <1>6 DEF On, ListsInv
  <2>5. Places(listeners'[u], g) = Places(listeners[u], g) \cup {Len(listeners[u]) + 1}
    BY <1>5, <1>6, <2>4, AppendPlaces
  <2>6. IsFiniteSet(Places(listeners[u], g)) /\ Len(listeners[u]) + 1 \notin Places(listeners[u], g)
    <3>1. Len(listeners[u]) \in Nat
      BY <1>5, LenProperties
    <3> QED
      BY <1>5, <3>1, PlacesFinite
  <2>7. Cardinality(Places(listeners'[u], g)) = Cardinality(Places(listeners[u], g)) + 1
    BY <2>5, <2>6, FS_AddElement
  <2> QED
    BY <1>3, <2>3, <2>7
<1>7. CASE ~(u = t /\ g = h)
  <2>1. Open(u, g)' = Open(u, g)
    BY <1>2, <1>7 DEF Open, reg
  <2>2. Places(listeners'[u], g) = Places(listeners[u], g)
    <3>1. CASE u # t
      BY <1>0, <3>1 DEF On, ListsInv
    <3>2. CASE u = t /\ g # h
      <4>1. listeners'[u] = Append(listeners[u], h)
        BY <1>0, <3>2 DEF On, ListsInv
      <4> QED
        BY <1>5, <3>2, <4>1, AppendPlaces
    <3> QED
      BY <1>7, <3>1, <3>2
  <2> QED
    BY <1>3, <2>1, <2>2
<1> QED
  BY <1>6, <1>7

\* The disposer of registration i takes away a place of its handler, and the
\* registration with it: while one is open the handler is in the list.
LEMMA DisposeCloses ==
  ASSUME BusInv, DisposersAreExact, NEW i \in DOMAIN regs, Dispose(i)
  PROVE  DisposersAreExact'
<1> DEFINE t == regs[i].tag
           h == regs[i].handler
<1>0. ListsInv /\ UNCHANGED offUsed
  BY DEF BusInv, Dispose
<1>1. i \in 1..Len(regs) /\ regs[i] \in Registration
  BY <1>0, LenProperties, ElementOfSeq DEF ListsInv
<1>2. t \in Tags /\ h \in Handlers /\ regs[i].disposed = FALSE
      /\ regs' = [regs EXCEPT ![i] = [regs[i] EXCEPT !.disposed = TRUE]]
  BY <1>1 DEF Dispose, Registration
<1>3. LET new == [regs[i] EXCEPT !.disposed = TRUE]
      IN new \in Registration /\ new.tag = t /\ new.handler = h /\ new.disposed = TRUE
  BY <1>1 DEF Registration
<1>4. /\ DOMAIN regs' = DOMAIN regs
      /\ \A j \in DOMAIN regs : j # i => regs'[j] = regs[j]
      /\ regs'[i].tag = t /\ regs'[i].handler = h /\ regs'[i].disposed = TRUE
  BY <1>2, <1>3
<1>5. listeners' = [listeners EXCEPT ![t] = Without(listeners[t], h)]
  BY DEF Dispose
<1> HIDE DEF t, h
<1> SUFFICES ASSUME ~offUsed, NEW u \in Tags, NEW g \in Handlers
             PROVE  Cardinality(Places(listeners'[u], g)) = Cardinality(Open(u, g)')
  BY <1>0 DEF DisposersAreExact
<1>6. Cardinality(Places(listeners[u], g)) = Cardinality(Open(u, g))
  BY <1>0 DEF DisposersAreExact
<1>7. IsFiniteSet(Open(u, g)) /\ listeners[u] \in Seq(Handlers)
  BY <1>0, OpenFinite DEF ListsInv
<1>8. CASE u = t /\ g = h
  <2>1. i \in Open(u, g)
    BY <1>2, <1>8 DEF Open, t, h
  <2>2. Open(u, g)' = Open(u, g) \ {i}
    BY <1>4, <2>1 DEF Open
  <2>3. Cardinality(Open(u, g)') = Cardinality(Open(u, g)) - 1
    BY <1>7, <2>1, <2>2, FS_RemoveElement
  <2>4. Places(listeners[u], g) # {}
    <3>1. Cardinality(Open(u, g)) # 0
      BY <1>7, <2>1, FS_EmptySet
    <3> QED
      BY <1>6, <3>1, FS_EmptySet
  <2>5. listeners'[u] = Without(listeners[u], g)
    BY <1>0, <1>5, <1>8 DEF ListsInv
  <2>6. Cardinality(Places(listeners'[u], g)) = Cardinality(Places(listeners[u], g)) - 1
    BY <1>7, <2>4, <2>5, WithoutPlaces
  <2> QED
    BY <1>6, <2>3, <2>6
<1>9. CASE ~(u = t /\ g = h)
  <2>1. Open(u, g)' = Open(u, g)
    <3>1. i \notin Open(u, g) /\ i \notin Open(u, g)'
      BY <1>4, <1>9 DEF Open, t, h
    <3> QED
      BY <1>4, <3>1 DEF Open
  <2>2. Cardinality(Places(listeners'[u], g)) = Cardinality(Places(listeners[u], g))
    <3>1. CASE u # t
      BY <1>0, <1>5, <3>1 DEF ListsInv
    <3>2. CASE u = t /\ g # h
      <4>1. listeners'[u] = Without(listeners[u], h)
        BY <1>0, <1>5, <3>2 DEF ListsInv
      <4> QED
        BY <1>7, <3>2, <4>1, WithoutPlaces
    <3> QED
      BY <1>9, <3>1, <3>2
  <2> QED
    BY <1>6, <2>1, <2>2
<1> QED
  BY <1>8, <1>9

\* Every step keeps places and open disposers equal in number.
LEMMA NextPreservesDisposers == BusInv /\ DisposersAreExact /\ [Next]_vars => DisposersAreExact'
<1> SUFFICES ASSUME BusInv, DisposersAreExact, [Next]_vars PROVE DisposersAreExact'
  OBVIOUS
<1>1. ASSUME UNCHANGED <<listeners, regs, offUsed>> PROVE DisposersAreExact'
  BY <1>1 DEF DisposersAreExact, Open
<1>2. CASE UNCHANGED vars
  BY <1>1, <1>2 DEF vars
<1>3. CASE Progress
  BY <1>1, <1>3 DEF Progress, CallHandler, Await, EmitMeta, Return, HandlerEnds, HandlerSettles
<1>4. ASSUME NEW t \in Tags, NEW h \in Handlers, Off(t, h) PROVE DisposersAreExact'
  BY <1>4 DEF Off, DisposersAreExact
<1>5. ASSUME NEW t \in Tags, NEW how \in {"emit", "emitAsync"}, Emit(t, how)
      PROVE  DisposersAreExact'
  BY <1>1, <1>5 DEF Emit
<1> QED
  BY <1>2, <1>3, <1>4, <1>5, OnOpens, DisposeCloses DEF Next

\* There are neither at the start.
LEMMA InitDisposers == Init => DisposersAreExact
<1> SUFFICES ASSUME Init, NEW t \in Tags, NEW h \in Handlers
             PROVE  Cardinality(Places(listeners[t], h)) = Cardinality(Open(t, h))
  BY DEF DisposersAreExact
<1>1. listeners[t] = <<>> /\ regs = <<>>
  BY DEF Init
<1>2. Places(listeners[t], h) = {} /\ Open(t, h) = {}
  BY <1>1 DEF Places, Open
<1> QED
  BY <1>2

\* As long as off() is not called, a function is in a list as often as it has
\* registrations that were not disposed of, in whatever order disposers are called
\* and also from handlers: none removes another registration (bus.ts:28).
THEOREM DisposersAreExactAlways == Spec => []DisposersAreExact
  BY InitDisposers, NextPreservesDisposers, BusInvariant, PTL DEF Spec
=============================================================================
