------------------------------- MODULE Tools -------------------------------
(***************************************************************************)
(* executeTool, packages/coding/src/execute.ts: read, write and edit on    *)
(* one file of the working directory, and an unknown tool.  Each is        *)
(* synchronous, and whatever it throws becomes a result, so that every     *)
(* call comes back with a string.  bash is a process of its own: here it   *)
(* is whatever a shell may do to the file.                                 *)
(*                                                                         *)
(* Texts are sequences of characters, because edit depends on them: "$" and *)
(* "&" mean something to String.prototype.replace.                         *)
(***************************************************************************)
EXTENDS Integers, Sequences, SequencesExt

CONSTANTS
  Chars,     (* the characters of contents and of arguments, "$" and "&" among *)
             (* them                                                        *)
  MaxText,   (* bound: length of the file                                   *)
  MaxArg     (* bound: length of an argument                                *)

VARIABLES
  file,   (* what the file holds, or Absent                                 *)
  done    (* history: the last call, with the file as it found it           *)

toolVars == <<file, done>>

Absent  == <<"absent">>
Texts   == SeqOf(Chars, MaxText)
Args    == SeqOf(Chars, MaxArg)     \* the strings the tool's schema asks for
Exists  == file # Absent
NoCall  == [tool |-> <<"none">>, before |-> Absent, result |-> "none"]

-----------------------------------------------------------------------------
At(text, i, old) == i + Len(old) - 1 <= Len(text) /\ SubSeq(text, i, i + Len(old) - 1) = old
Places(text, old) == {i \in 1..Len(text) + 1 : At(text, i, old)}

\* content.split(old).length - 1: occurrences are counted from the left, and one
\* that begins inside the last one counted is none.  Split by the empty string, a
\* text is its characters.
Occurrences(text, old) ==
  IF old = <<>> THEN Len(text) - 1
  ELSE FoldLeft(LAMBDA acc, i : IF i > acc.end /\ At(text, i, old)
                                  THEN [n |-> acc.n + 1, end |-> i + Len(old) - 1] ELSE acc,
                [n |-> 0, end |-> 0], [i \in 1..Len(text) |-> i]).n

\* The replacement text as replace() reads it: "$$" is a dollar sign and "$&" the
\* text that was matched; a "$" that begins neither is itself.  (Two more of these,
\* for what stands before and behind the match, need other characters.)
Expand(new, old) ==
  FoldLeft(LAMBDA acc, c :
             CASE acc.dollar /\ c = "$" -> [text |-> Append(acc.text, "$"), dollar |-> FALSE]
               [] acc.dollar /\ c = "&" -> [text |-> acc.text \o old, dollar |-> FALSE]
               [] acc.dollar /\ c \notin {"$", "&"} ->
                    [text |-> acc.text \o <<"$", c>>, dollar |-> FALSE]
               [] ~acc.dollar /\ c = "$" -> [text |-> acc.text, dollar |-> TRUE]
               [] OTHER -> [text |-> Append(acc.text, c), dollar |-> FALSE],
           [text |-> <<>>, dollar |-> FALSE], new)

\* With a "$" at its end there is nothing behind it to mean anything.
Replacement(new, old) ==
  LET e == Expand(new, old) IN IF e.dollar THEN Append(e.text, "$") ELSE e.text

\* content.replace(old, new), the first occurrence only.
Replaced(text, old, new) ==
  LET i == CHOOSE p \in Places(text, old) : \A q \in Places(text, old) : p <= q
  IN SubSeq(text, 1, i - 1) \o Replacement(new, old) \o SubSeq(text, i + Len(old), Len(text))

-----------------------------------------------------------------------------
ToolsInit ==
  /\ file \in Texts \cup {Absent}
  /\ done = NoCall

Called(tool, result) == done' = [tool |-> tool, before |-> file, result |-> result]

\* The contents, or the message of an exception: there is no file, or it may not
\* be read.
Read ==
  /\ \/ Exists /\ Called(<<"read">>, "contents")
     \/ Called(<<"read">>, "error")
  /\ UNCHANGED file

\* A writeFileSync that throws: before it opened the file, or at any point after
\* that emptied it.
FailsToWrite(text) == file' \in {file} \cup {SubSeq(text, 1, k) : k \in 0..Len(text)}

\* With the directories the path asks for.
Write ==
  \E text \in Texts :
    \/ file' = text /\ Called(<<"write">>, "wrote")
    \/ FailsToWrite(text) /\ Called(<<"write">>, "error")

\* An error where the file cannot be read, or old is not in it, or more than once
\* by that count; -1, of the empty string in an empty file, is neither.
Edit(old, new) ==
  \/ /\ Exists
     /\ Occurrences(file, old) \in {-1, 1}
     /\ Len(file) <= MaxText    \* bound
     /\ LET text == Replaced(file, old, new)
        IN \/ file' = text /\ Called(<<"edit", old, new>>, "edited")
           \/ FailsToWrite(text) /\ Called(<<"edit", old, new>>, "error")
  \/ Called(<<"edit", old, new>>, "error") /\ UNCHANGED file

UnknownTool ==
  /\ Called(<<"unknown">>, "unknown tool")
  /\ UNCHANGED file

\* runBash, or anyone else.
Shell ==
  /\ file' \in Texts \cup {Absent}
  /\ Called(<<"bash">>, "stdout, stderr and exit code")

ToolsNext ==
  \/ Read \/ Write \/ UnknownTool \/ Shell
  \/ \E old, new \in Args : Edit(old, new)

ToolsSpec == ToolsInit /\ [][ToolsNext]_toolVars

-----------------------------------------------------------------------------
\* "Replace old_string with new_string in a file. old_string must match exactly
\* and uniquely." (packages/coding/src/tools.ts:53): an edit that reports
\* success found one place where old_string stands, and put new_string there.
EditDoesWhatItSays ==
  done.result = "edited" =>
    \E i \in 1..Len(done.before) + 1 :
      LET old == done.tool[2]  new == done.tool[3]
      IN /\ Places(done.before, old) = {i}
         /\ file = SubSeq(done.before, 1, i - 1) \o new
                     \o SubSeq(done.before, i + Len(old), Len(done.before))
=============================================================================
