-------------------------------- MODULE Bus ---------------------------------
(***************************************************************************)
(* Bus, packages/core/src/bus.ts: on / off / emit / emitAsync, on one      *)
(* thread.                                                                 *)
(*                                                                         *)
(* emit calls its handlers synchronously, and a handler may itself use the *)
(* bus, so the emissions in progress form a stack; one of emitAsync leaves *)
(* the stack while it awaits a handler and comes back when that settles.   *)
(* Handlers are arbitrary: they return, throw, take long, register,        *)
(* dispose and emit.                                                       *)
(***************************************************************************)
EXTENDS Integers, Sequences, FiniteSets

CONSTANTS
  Handlers,   (* handler functions, told apart by identity only             *)
  Tags,       (* event tags, the two meta tags among them                   *)
  MaxRegs,    (* bound: calls of on()                                       *)
  MaxEmits    (* bound: calls of emit() and emitAsync()                     *)

MetaTags == {"bus:error", "bus:slow-handler"}

ASSUME BusAssumption ==
  /\ MetaTags \subseteq Tags
  /\ MaxRegs \in Nat
  /\ MaxEmits \in Nat

VARIABLES
  listeners,   (* this.listeners                                            *)
  regs,        (* history: what each on() registered; `disposed` is the     *)
               (* flag its disposer closes over                             *)
  offUsed,     (* history: whether off() was called                         *)
  stack,       (* emissions on the call stack, the innermost last           *)
  waiting,     (* emissions of emitAsync that await a handler               *)
  emits        (* emissions begun by emit() and emitAsync()                 *)

vars == <<listeners, regs, offUsed, stack, waiting, emits>>

\* An emission: `pos` handlers of the snapshot have been called, the last of
\* them is still `running`, and `metas` are the meta events due before the
\* next one.  `called` is history.  `nr` numbers the calls of emit() and
\* emitAsync(), so that two equal ones that wait are two; emitMeta, which never
\* waits, has 0.
Frame(nr, tag, how, snapshot) ==
  [nr |-> nr, tag |-> tag, how |-> how, snapshot |-> snapshot, pos |-> 0,
   running |-> FALSE, metas |-> <<>>, called |-> <<>>]

\* Operators whose names start with Bug are faults the properties are tried
\* against; the specification never uses them.  Here the live list is iterated.
BugHandlersOfLive(f) == listeners[f.tag]

\* What an emission iterates over.
HandlersOf(f) == f.snapshot

Top      == stack[Len(stack)]
Below    == SubSeq(stack, 1, Len(stack) - 1)
Put(f)   == stack' = Append(Below, f)

\* The emission has nothing left to do.
Finished(f) == ~f.running /\ f.metas = <<>> /\ f.pos >= Len(HandlersOf(f))

\* Code outside the bus runs: no emission is on the stack, or a handler is.
UserCode == stack # <<>> => Top.running

-----------------------------------------------------------------------------
Init ==
  /\ listeners = [t \in Tags |-> <<>>]
  /\ regs = <<>>
  /\ offUsed = FALSE
  /\ stack = <<>>
  /\ waiting = {}
  /\ emits = 0

\* on().
On(t, h) ==
  /\ UserCode
  /\ Len(regs) < MaxRegs
  /\ listeners' = [listeners EXCEPT ![t] = Append(@, h)]
  /\ regs' = Append(regs, [tag |-> t, handler |-> h, disposed |-> FALSE])
  /\ UNCHANGED <<offUsed, stack, waiting, emits>>

\* removeHandler: list.indexOf finds the first, which need not be the one that
\* the disposer's on() pushed.
Without(list, h) ==
  LET found == {i \in DOMAIN list : list[i] = h}
  IN IF found = {} THEN list
     ELSE LET k == CHOOSE i \in found : \A j \in found : i <= j
          IN SubSeq(list, 1, k - 1) \o SubSeq(list, k + 1, Len(list))

\* The disposer does not remember that it was called.
BugDisposeTwice(i) ==
  /\ UserCode
  /\ regs' = [regs EXCEPT ![i].disposed = TRUE]
  /\ listeners' = [listeners EXCEPT ![regs[i].tag] = Without(@, regs[i].handler)]
  /\ UNCHANGED <<offUsed, stack, waiting, emits>>

\* The disposer of registration i; a second call does nothing.
Dispose(i) ==
  /\ UserCode
  /\ ~regs[i].disposed
  /\ regs' = [regs EXCEPT ![i].disposed = TRUE]
  /\ listeners' = [listeners EXCEPT ![regs[i].tag] = Without(@, regs[i].handler)]
  /\ UNCHANGED <<offUsed, stack, waiting, emits>>

\* off(); in src/ nothing calls it.
Off(t, h) ==
  /\ UserCode
  /\ listeners' = [listeners EXCEPT ![t] = Without(@, h)]
  /\ offUsed' = TRUE
  /\ UNCHANGED <<regs, stack, waiting, emits>>

\* emit() or emitAsync(), from user code: the list is copied.
Emit(t, how) ==
  /\ UserCode
  /\ emits < MaxEmits
  /\ emits' = emits + 1
  /\ stack' = IF listeners[t] = <<>> THEN stack
              ELSE Append(stack, Frame(emits + 1, t, how, listeners[t]))
  /\ UNCHANGED <<listeners, regs, offUsed, waiting>>

\* The innermost emission calls its next handler.
CallHandler ==
  /\ stack # <<>>
  /\ ~Top.running
  /\ Top.metas = <<>>
  /\ Top.pos < Len(HandlersOf(Top))
  /\ LET h == HandlersOf(Top)[Top.pos + 1]
     IN Put([Top EXCEPT !.pos = @ + 1, !.running = TRUE, !.called = Append(@, h)])
  /\ UNCHANGED <<listeners, regs, offUsed, waiting, emits>>

\* The meta events an ended handler calls for: none in emitMeta, and none when
\* the tag is a meta tag.
MetasOf(f, threw, slow) ==
  IF f.how = "emitMeta" \/ f.tag \in MetaTags THEN <<>>
  ELSE (IF threw THEN <<"bus:error">> ELSE <<>>) \o
       (IF slow THEN <<"bus:slow-handler">> ELSE <<>>)

\* A handler returns or throws; a promise that it returns is awaited by
\* emitAsync only.
HandlerEnds(threw, slow) ==
  /\ stack # <<>>
  /\ Top.running
  /\ Top.how # "emitAsync" \/ threw
  /\ Put([Top EXCEPT !.running = FALSE, !.metas = MetasOf(Top, threw, slow)])
  /\ UNCHANGED <<listeners, regs, offUsed, waiting, emits>>

\* emitAsync awaits what the handler returned: the emission leaves the stack.
Await ==
  /\ stack # <<>>
  /\ Top.running
  /\ Top.how = "emitAsync"
  /\ stack' = Below
  /\ waiting' = waiting \cup {Top}
  /\ UNCHANGED <<listeners, regs, offUsed, emits>>

\* The promise settles, and emitAsync goes on from an empty stack.
HandlerSettles(w, threw, slow) ==
  /\ stack = <<>>
  /\ waiting' = waiting \ {w}
  /\ stack' = <<[w EXCEPT !.running = FALSE, !.metas = MetasOf(w, threw, slow)]>>
  /\ UNCHANGED <<listeners, regs, offUsed, emits>>

\* Nothing happens without a listener.
BugEmitMetaNeedsListener ==
  /\ stack # <<>>
  /\ ~Top.running
  /\ Top.metas # <<>>
  /\ listeners[Head(Top.metas)] # <<>>
  /\ stack' = Append(Below, [Top EXCEPT !.metas = Tail(@)])
                \o <<Frame(0, Head(Top.metas), "emitMeta", listeners[Head(Top.metas)])>>
  /\ UNCHANGED <<listeners, regs, offUsed, waiting, emits>>

\* emitMeta, from the catch or the finally block of the innermost emission.
EmitMeta ==
  /\ stack # <<>>
  /\ ~Top.running
  /\ Top.metas # <<>>
  /\ LET tag == Head(Top.metas)
         f   == [Top EXCEPT !.metas = Tail(@)]
     IN stack' = Append(Below, f) \o
                   (IF listeners[tag] = <<>> THEN <<>>
                    ELSE <<Frame(0, tag, "emitMeta", listeners[tag])>>)
  /\ UNCHANGED <<listeners, regs, offUsed, waiting, emits>>

\* The innermost emission returns to whoever began it.
Return ==
  /\ stack # <<>>
  /\ Finished(Top)
  /\ stack' = Below
  /\ UNCHANGED <<listeners, regs, offUsed, waiting, emits>>

Progress ==
  \/ CallHandler \/ Await \/ EmitMeta \/ Return
  \/ \E threw, slow \in BOOLEAN :
       \/ HandlerEnds(threw, slow)
       \/ \E w \in waiting : HandlerSettles(w, threw, slow)

Next ==
  \/ Progress
  \/ \E t \in Tags, h \in Handlers : On(t, h) \/ Off(t, h)
  \/ \E i \in DOMAIN regs : Dispose(i)
  \/ \E t \in Tags, how \in {"emit", "emitAsync"} : Emit(t, how)

\* Handlers return and their promises settle.
Fairness == WF_vars(Progress)

Spec == Init /\ [][Next]_vars /\ Fairness
-----------------------------------------------------------------------------
(* Properties                                                              *)

Emission ==
  [nr : 0..MaxEmits, tag : Tags, how : {"emit", "emitAsync", "emitMeta"},
   snapshot : Seq(Handlers), pos : Nat, running : BOOLEAN, metas : Seq(MetaTags),
   called : Seq(Handlers)]

Registration == [tag : Tags, handler : Handlers, disposed : BOOLEAN]

TypeOK ==
  /\ listeners \in [Tags -> Seq(Handlers)]
  /\ regs \in Seq(Registration)
  /\ stack \in Seq(Emission)
  /\ waiting \subseteq Emission
  /\ emits \in 0..MaxEmits
  /\ offUsed \in BOOLEAN

Frames == {stack[i] : i \in DOMAIN stack} \cup waiting

\* An emission calls every handler that was registered when it began, once per
\* registration and in order, before it returns: whatever handlers throw,
\* dispose or register in the meantime, and across the awaits of emitAsync
\* (NFR-002, bus.ts:8).
EmissionIsComplete ==
  \A f \in Frames :
    /\ f.called = SubSeq(f.snapshot, 1, f.pos)
    /\ Finished(f) => f.called = f.snapshot

\* Where a handler is in a list, and its registrations that were not disposed of.
Places(list, h) == {i \in DOMAIN list : list[i] = h}
Open(t, h) ==
  {i \in DOMAIN regs : regs[i].tag = t /\ regs[i].handler = h /\ ~regs[i].disposed}

\* "Disposer returned by `on()`; calling it removes the registered handler"
\* (bus.ts:28): a function is in the list as often as it has registrations
\* that were not disposed of, so no disposer removes another registration.  Once
\* off() has removed a function a disposer may.
DisposersAreExact ==
  ~offUsed => \A t \in Tags, h \in Handlers :
    Cardinality(Places(listeners[t], h)) = Cardinality(Open(t, h))

\* Every emission returns to its caller if handlers return: no chain of
\* throwing and slow handlers keeps the bus busy with itself.
EmissionsReturn == stack # <<>> ~> stack = <<>> /\ waiting = {}

\* The inductive invariant behind EmissionIsComplete: an emission has called the
\* handlers up to its position, wherever it is.
FramesInv ==
  \A f \in Frames : f.pos <= Len(f.snapshot) /\ f.called = SubSeq(f.snapshot, 1, f.pos)
=============================================================================
