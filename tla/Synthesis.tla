----------------------------- MODULE Synthesis -----------------------------
(***************************************************************************)
(* What scanWithGraph, packages/understand/src/orchestrator.ts, makes of   *)
(* three replies of a model: layers, then domains of those layers, then    *)
(* the graph of both, then a tour through it.  Sessions, failures and      *)
(* artifacts are the matter of Pipeline; here a reply is data, and         *)
(* anything a model can write.                                             *)
(***************************************************************************)
EXTENDS Gates

vars == <<phase, entries, layers, layerLocals, domains, domainLocals, graphVars, tourVars>>

Phases == {"start", "layers", "layered", "domains", "assemble", "assembled", "tour", "done", "failed"}

Init == LayersInit /\ DomainsInit /\ AssemblerInit /\ TourInit

Next ==
  \/ LayersNext /\ UNCHANGED <<domains, domainLocals, graphVars, tourVars>>
  \/ DomainsNext /\ UNCHANGED <<graphVars, tourVars>>
  \/ \E analysed \in SUBSET Files : Assemble(analysed) /\ UNCHANGED tourVars
  \/ TourNext

Spec == Init /\ [][Next]_vars

-----------------------------------------------------------------------------
TypeOK ==
  /\ phase \in Phases
  /\ entries \in 0..MaxEntries
  /\ LayerTypes
  /\ \A d \in duplicateGroups : d.group \in Groups /\ d.assignedLayer # d.alsoSeenIn
  /\ layers \subseteq [id : LayerIds, fileIds : SUBSET Files]
  /\ domain \in DomainIds \cup {NoId}
  /\ \A d \in domains : d.id \in DomainIds /\ d.fileIds \subseteq Files
  /\ lastOrder \in Orders \cup {0}
=============================================================================
