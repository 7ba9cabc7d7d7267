--------------------------- MODULE MCFileAnalyses ---------------------------
(***************************************************************************)
(* Constants for FileAnalyses: four batches on two workers, one of them   *)
(* with two files, and replies that may describe a file of another batch   *)
(* or a path that is in no batch.                                          *)
(***************************************************************************)
EXTENDS FileAnalyses

MCFilesOf == << {"a", "b"}, {"c"}, {"d"}, {"e"} >>
=============================================================================
