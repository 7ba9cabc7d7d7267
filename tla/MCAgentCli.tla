----------------------------- MODULE MCAgentCli -----------------------------
(* A prompt file that may lie in the directory of the invocation, in the one  *)
(* --cwd names, in both or in neither; repeated, missing and useless flags.   *)
EXTENDS AgentCli

Word       == [is |-> "word", value |-> "null"]
FileFlag   == [is |-> "--system-prompt-file", value |-> "prompt.txt"]
Cwd(dir)   == [is |-> "--cwd", value |-> dir]

MCArgvs ==
  {<<>>, <<FileFlag>>, <<Word, Word>>, <<FileFlag, Word>>,
   <<Cwd("target"), FileFlag, Word>>, <<Word, FileFlag, Cwd("missing")>>,
   <<Cwd("missing"), Cwd("target"), Word>>}
=============================================================================
