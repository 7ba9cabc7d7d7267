----------------------------- MODULE MCCommands -----------------------------
(***************************************************************************)
(* All eight commands, in any two of them one after the other.             *)
(***************************************************************************)
EXTENDS Commands

MCBins == CommandLines
=============================================================================
