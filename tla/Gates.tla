------------------------------- MODULE Gates -------------------------------
(***************************************************************************)
(* The smoke gates of packages/understand/src/bin on what the synthesis    *)
(* hands them: one part of a gate asks for enough of something, which is   *)
(* up to the model, the other verifies anew what the normalizers promise.  *)
(* Commands has the rest of the command lines.                             *)
(***************************************************************************)
EXTENDS Tour

CONSTANTS
  CodeFiles,  (* the scanned files of fileCategory "code"       *)
  MinSteps    (* steps the gates want of a tour: 5 in the code  *)

ASSUME GatesAssumption ==
  /\ IsFiniteSet(Files)
  /\ CodeFiles \subseteq Files
  /\ MinSteps \in Nat

\* codeAppearances, counted entry by entry of every layer's list.
CodeAppearances(ls) == Cardinality(UNION {{l} \X (l.fileIds \cap CodeFiles) : l \in ls})

CodeAssigned(ls) == CodeFiles \cap UNION {l.fileIds : l \in ls}

\* The gate as it first was: a miss and a repetition balance each other.
BugCodeAssignedByCount(ls) == CodeAppearances(ls) = Cardinality(CodeFiles)

\* scan-with-architecture
AllCodeAssignedOnce(ls) ==
  /\ CodeAssigned(ls) = CodeFiles
  /\ CodeAppearances(ls) = Cardinality(CodeFiles)

ArchitectureGate == Cardinality(layers) >= 3 /\ AllCodeAssignedOnce(layers)

\* scan-with-domains
\* The places in a domain's list at which a layer is.
Places(d) == UNION {{id} \X (1..d.layerIds[id]) : id \in BagToSet(d.layerIds) \cap LayerIdSet}

LayerAppearances(ds) == Cardinality(UNION {{d} \X Places(d) : d \in ds})

AllLayersAssignedOnce(ds) ==
  /\ LayerIdSet \subseteq UNION {BagToSet(d.layerIds) : d \in ds}
  /\ LayerAppearances(ds) = Cardinality(layers)

FileCount(S) == Cardinality(UNION {{x} \X x.fileIds : x \in S})

FileCountPreserved(ds) == FileCount(ds) = FileCount(layers)

DomainsGate ==
  Cardinality(domains) >= 2 /\ AllLayersAssignedOnce(domains) /\ FileCountPreserved(domains)

\* scan-with-assembler, and the same in scan-with-graph and understand
NonZero == nodes # {} /\ edges # {} /\ layers # {} /\ domains # {}

\* scan-with-graph and understand
TourStepsPopulated == \A i \in DOMAIN tour : tour[i].primaryNodeIds # EmptyBag
TourGate           == Len(tour) >= MinSteps /\ TourStepsPopulated

\* The contract checks of the gates are exact.  Over any two layers whatever, that
\* of scan-with-architecture holds exactly if every code file is in one of them and
\* in one only; so that it would notice a normalizer that broke its promise.  And
\* of what the normalizers do hand over, nothing but too little of something fails
\* a gate, whatever the model replied: an exit status of 1 is never theirs
\* (scan-with-architecture.ts:201-215, scan-with-domains.ts:199-212).
GatesAreExact ==
  /\ \A S, T \in SUBSET CodeFiles :
       AllCodeAssignedOnce({[id |-> 1, fileIds |-> S], [id |-> 2, fileIds |-> T]})
         <=> S \cup T = CodeFiles /\ S \cap T = {}
  /\ phase = "layered" => ArchitectureGate \/ Cardinality(layers) < 3
  /\ phase = "assemble" => DomainsGate \/ Cardinality(domains) < 2
  /\ phase = "assembled" /\ Files # {} => NonZero \/ edges = {}
  /\ phase = "done" => TourGate \/ Len(tour) < MinSteps
=============================================================================
