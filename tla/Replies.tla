------------------------------ MODULE Replies ------------------------------
(***************************************************************************)
(* How JSON is found in the text of a model's reply:                       *)
(* extractBracketedSpan (packages/understand/src/llm/util.ts), the parsers *)
(* of layers, domains and tour steps that try it from one bracket after    *)
(* the other, the parsers that take the first object or fail, and          *)
(* extractJsonObjects (packages/ai/src/rehydrate.ts), which finds the tool *)
(* calls a model wrote into its answer.                                    *)
(*                                                                         *)
(* A text is a sequence of tokens.  "open" and "close" are the brackets    *)
(* that are looked for, "entry" is what makes a value of a pair of them (a *)
(* well-formed entry of an array, the name and arguments of a tool call)   *)
(* and has nothing in it that could mislead a scanner; "word" is any other *)
(* text, and is no JSON outside a string.                                  *)
(***************************************************************************)
EXTENDS Integers, Sequences, FiniteSets, SequencesExt

CONSTANT MaxLength    \* bound: tokens in a reply

ASSUME RepliesAssumption == MaxLength \in Nat

VARIABLE text         \* the reply, as far as it has been streamed

Tokens == {"open", "close", "quote", "backslash", "entry", "word"}

NoSpan == <<>>

-----------------------------------------------------------------------------
(* util.ts                                                                 *)

\* One turn of the loop of extractBracketedSpan; `end` is where it has returned.
ScanNext(acc, i) ==
  IF acc.end > 0 THEN acc
  ELSE IF acc.inString
    THEN IF acc.escape THEN [acc EXCEPT !.escape = FALSE]
         ELSE [acc EXCEPT !.escape = (text[i] = "backslash"), !.inString = (text[i] # "quote")]
    ELSE CASE text[i] = "quote" -> [acc EXCEPT !.inString = TRUE]
           [] text[i] = "open"  -> [acc EXCEPT !.depth = @ + 1]
           [] text[i] = "close" -> [acc EXCEPT !.depth = @ - 1,
                                               !.end = IF acc.depth = 1 THEN i ELSE 0]
           [] OTHER -> acc

\* The loop from i on: its locals behind each character.
Scan(i) ==
  LET acc[k \in (i - 1)..Len(text)] ==
        IF k = i - 1 THEN [depth |-> 0, inString |-> FALSE, escape |-> FALSE, end |-> 0]
        ELSE ScanNext(acc[k - 1], k)
  IN acc

\* Where the span that starts at i ends, 0 if it never does.
SpanEnd(i) == Scan(i)[Len(text)].end

\* The first opening bracket from i on; Len(text) + 1 if there is none.
NextOpen(i) ==
  LET is == {k \in i..Len(text) : text[k] = "open"}
  IN IF is = {} THEN Len(text) + 1 ELSE CHOOSE k \in is : \A l \in is : k <= l

-----------------------------------------------------------------------------
(* JSON.parse                                                              *)

\* What it takes the next character for.
LexNext(acc, k) ==
  IF acc.inString
    THEN IF acc.escape
           THEN [acc EXCEPT !.escape = FALSE, !.ok = @ /\ text[k] \in {"quote", "backslash"}]
           ELSE [acc EXCEPT !.escape = (text[k] = "backslash"), !.inString = (text[k] # "quote")]
    ELSE CASE text[k] \in {"word", "backslash"} -> [acc EXCEPT !.ok = FALSE]
           [] text[k] = "quote" -> [acc EXCEPT !.inString = TRUE]
           [] text[k] = "open"  -> [acc EXCEPT !.depth = @ + 1]
           [] text[k] = "close" -> [acc EXCEPT !.depth = @ - 1]
           [] text[k] = "entry" ->
                [acc EXCEPT !.entries = IF acc.depth = 1 THEN @ + 1 ELSE @]

\* What it has made of each character, when the span begins at i.
Lexed(i) ==
  LET acc[k \in (i - 1)..Len(text)] ==
        IF k = i - 1
          THEN [depth |-> 0, inString |-> FALSE, escape |-> FALSE, ok |-> TRUE, entries |-> 0]
          ELSE LexNext(acc[k - 1], k)
  IN acc

\* A span is a value if there is nothing but values and strings in it; what a
\* normalizer keeps of it are the well-formed entries at its top.
Parses(i, e)      == Lexed(i)[e].ok
EntriesKept(i, e) == IF Parses(i, e) THEN Lexed(i)[e].entries ELSE 0

-----------------------------------------------------------------------------
(* The parsers                                                             *)

\* Operators whose names start with Bug are faults the properties are tried
\* against; the specification never uses them.  Here the next bracket is looked
\* for behind the span.
BugCursorAfter(start, end) == end + 1

\* cursor += spanStartInSlice + 1
CursorAfter(start, end) == start + 1

\* parseLayers, parseDomains, parseTourSteps: where the array is that they
\* return the entries of, NoSpan when they throw.  A bracket that is never
\* closed ends the search.
ParsedArray ==
  LET from[c \in 1..(Len(text) + 1)] ==
        LET start == NextOpen(c)
        IN IF start > Len(text) \/ SpanEnd(start) = 0 THEN NoSpan
           ELSE IF EntriesKept(start, SpanEnd(start)) > 0 THEN <<start, SpanEnd(start)>>
           ELSE from[CursorAfter(start, SpanEnd(start))]
  IN from[1]

\* parseNarrative, parseBatchNarrative and parseVerdict: the first object or
\* none; a verdict without one is a block.
ParsedObject ==
  LET start == NextOpen(1)
  IN IF start > Len(text) \/ SpanEnd(start) = 0 THEN NoSpan
     ELSE IF Parses(start, SpanEnd(start)) THEN <<start, SpanEnd(start)>>
     ELSE NoSpan

-----------------------------------------------------------------------------
(* rehydrate.ts                                                            *)

\* start is not forgotten behind an object.
BugRehydrateNext(acc, i) ==
  IF acc.escape THEN [acc EXCEPT !.escape = FALSE]
  ELSE IF text[i] = "backslash" THEN [acc EXCEPT !.escape = TRUE]
  ELSE IF text[i] = "quote" THEN [acc EXCEPT !.inString = ~@]
  ELSE IF acc.inString THEN acc
  ELSE CASE text[i] = "open" ->
              [acc EXCEPT !.depth = @ + 1, !.start = IF @ = 0 THEN i ELSE @]
         [] text[i] = "close" ->
              [acc EXCEPT !.depth = @ - 1,
                          !.found = IF acc.depth = 1 /\ acc.start > 0 /\ Parses(acc.start, i)
                                      THEN Append(@, <<acc.start, i>>) ELSE @]
         [] OTHER -> acc

\* One turn of the loop of extractJsonObjects.  A backslash hides the character
\* behind it in and out of strings, and the depth may fall below zero.
RehydrateNext(acc, i) ==
  IF acc.escape THEN [acc EXCEPT !.escape = FALSE]
  ELSE IF text[i] = "backslash" THEN [acc EXCEPT !.escape = TRUE]
  ELSE IF text[i] = "quote" THEN [acc EXCEPT !.inString = ~@]
  ELSE IF acc.inString THEN acc
  ELSE CASE text[i] = "open" ->
              [acc EXCEPT !.depth = @ + 1, !.start = IF acc.depth = 0 THEN i ELSE @]
         [] text[i] = "close" ->
              LET closes == acc.depth = 1 /\ acc.start > 0
              IN [acc EXCEPT !.depth = @ - 1,
                             !.start = IF closes THEN 0 ELSE @,
                             !.found = IF closes /\ Parses(acc.start, i)
                                         THEN Append(@, <<acc.start, i>>) ELSE @]
         [] OTHER -> acc

\* The loop: its locals behind each character.
Rehydration ==
  LET acc[k \in 0..Len(text)] ==
        IF k = 0
          THEN [depth |-> 0, start |-> 0, inString |-> FALSE, escape |-> FALSE, found |-> <<>>]
          ELSE RehydrateNext(acc[k - 1], k)
  IN acc

\* tryParseToolCallsFromContent: the objects that have a name and arguments.
\* With none, tags of the form <function=...> are looked for instead.
Rehydrated ==
  LET found == Rehydration[Len(text)].found
  IN FlattenSeq([i \in DOMAIN found |->
       IF EntriesKept(found[i][1], found[i][2]) = 1 THEN <<found[i]>> ELSE <<>>])

-----------------------------------------------------------------------------
StreamInit == text = <<>>

\* An agent_message_chunk.
Stream(token) ==
  /\ Len(text) < MaxLength
  /\ text' = Append(text, token)

StreamNext == \E token \in Tokens : Stream(token)

StreamSpec == StreamInit /\ [][StreamNext]_text

-----------------------------------------------------------------------------
(* Properties                                                              *)

\* A definition of its own of what the scanners count their way to: a quote is
\* hidden if an odd number of backslashes stands right before it, and a character
\* is in a string if an odd number of quotes that count stands between it and
\* where one began to read.
Backslashes(from, i) ==
  LET runs == {n \in 0..(i - from) : \A k \in 1..n : text[i - k] = "backslash"}
  IN CHOOSE n \in runs : \A m \in runs : m <= n
Quotes(from, i)   == {k \in from..(i - 1) : text[k] = "quote" /\ Backslashes(from, k) % 2 = 0}
InString(from, i) == Cardinality(Quotes(from, i)) % 2 = 1

Bare(from, to, token) ==
  Cardinality({k \in from..to : text[k] = token /\ ~InString(from, k)})

\* A bracket and the one that closes it, strings aside.
IsPair(i, e) ==
  /\ text[i] = "open" /\ i < e
  /\ Bare(i, e, "open") = Bare(i, e, "close")
  /\ \A k \in i..(e - 1) : Bare(i, k, "open") > Bare(i, k, "close")

Pairs  == {p \in (1..Len(text)) \X (1..Len(text)) : IsPair(p[1], p[2])}
Arrays == {p \in Pairs : EntriesKept(p[1], p[2]) > 0}

\* "We retry from each subsequent `[` until one yields a parseable array"
\* (architecture-analyzer.ts:518-520), as far as it goes: what is returned is the
\* first array of the reply that holds an entry, whatever brackets, quotes and
\* strings stand before it or in it, provided that every bracket before it is
\* closed somewhere; and where there is no such array nothing is returned.  The
\* parsers of one object return the first bracket's, if it is JSON, and fail, or
\* block, on any other reply.
FirstArrayWins ==
  LET first == CHOOSE p \in Arrays : \A q \in Arrays : p[1] <= q[1]
  IN /\ Arrays = {} => ParsedArray = NoSpan
     /\ Arrays # {} /\ (\A i \in 1..first[1] : text[i] = "open" => SpanEnd(i) # 0)
          => ParsedArray = first
     /\ LET own == {p \in Pairs : p[1] = NextOpen(1) /\ Parses(p[1], p[2])}
        IN IF own = {} THEN ParsedObject = NoSpan ELSE ParsedObject \in own

\* The objects that stand in the text itself, not in a string or in another.
TopLevel ==
  {p \in Pairs : ~InString(1, p[1])
                 /\ Bare(1, p[1] - 1, "open") = Bare(1, p[1] - 1, "close")}

\* The text has closed no bracket that it did not open, and has no backslash outside
\* a string.
Orderly(k) ==
  /\ Bare(1, k, "open") >= Bare(1, k, "close")
  /\ text[k] = "backslash" => InString(1, k)

\* Whatever the text is, what is taken for a call is a balanced object that parses, and
\* they come in order, each behind the one before.  Every call that stands in the text
\* itself is found if the text up to its end is orderly: a stray bracket or backslash
\* costs calls behind it only.  Nothing else is found in a text that is.  (loop.ts:121:
\* what is not found is an answer, and ends the run.)
CallsAreRecovered ==
  LET calls == {p \in TopLevel : EntriesKept(p[1], p[2]) = 1}
  IN /\ \A p \in ToSet(Rehydrated) : p \in Pairs /\ EntriesKept(p[1], p[2]) = 1
     /\ \A i, j \in DOMAIN Rehydrated : i < j => Rehydrated[i][2] < Rehydrated[j][1]
     /\ \A p \in calls : (\A k \in 1..p[2] : Orderly(k)) => p \in ToSet(Rehydrated)
     /\ (\A k \in DOMAIN text : Orderly(k)) => ToSet(Rehydrated) \subseteq calls
=============================================================================
