------------------------------- MODULE Layers -------------------------------
(***************************************************************************)
(* normalizeLayers, packages/understand/src/llm/architecture-analyzer.ts:  *)
(* from whatever layers a model replied with to a partition of the scanned *)
(* files.  The reply is taken one entry, and within it one claim on a      *)
(* directory group, at a time, as the two nested loops do; a model may put *)
(* anything in either.  First module of the chain that Synthesis closes.   *)
(*                                                                         *)
(* groupIds is a set here: the code walks the list to collect files and    *)
(* skips a file it has already, so order and repetitions do not count.     *)
(***************************************************************************)
EXTENDS Naturals, Sequences, FiniteSets

CONSTANTS
  Files,        (* the scanned files, each the segments of its path         *)
  Depth,        (* groupDepth                                               *)
  RootGroup,    (* ROOT_GROUP_ID                                            *)
  LayerIds,     (* ids a model may think of                                 *)
  LayerShared,  (* "layer:shared"                                           *)
  NoId,         (* stands for undefined                                     *)
  OtherGroup,   (* a group that does not exist                              *)
  MaxEntries    (* bound: well-formed entries of one reply                  *)

ASSUME LayersAssumption ==
  /\ Depth \in Nat \ {0}
  /\ LayerShared \in LayerIds
  /\ NoId \notin LayerIds
  /\ MaxEntries \in Nat

VARIABLES
  phase,            (* which function of the synthesis runs                *)
  entries,          (* entries of the current reply taken so far           *)
  layer,            (* id of the entry the outer loop is at, or NoId       *)
  acceptedGroups,   (* the groups that entry got                           *)
  acceptedLayers,   (* [id, groupIds] in order of first acceptance         *)
  assignedGroup,    (* group -> id of the layer that claimed it first      *)
  unknownGroups,    (* anomaly: groups that do not exist                   *)
  duplicateGroups,  (* anomaly: duplicateGroupAssignments, one record for  *)
                    (* each element of alsoSeenIn                          *)
  groupClaims,      (* history: every claim of the reply, <<layer, group>> *)
  layers            (* the result: a set of [id, fileIds]                  *)

\* computeDirectoryGroups: a file at the root is in the root group, any other in
\* the group of the first Depth segments of its directory.
GroupOf(f) ==
  IF Len(f) <= 1 THEN <<RootGroup>>
  ELSE SubSeq(f, 1, IF Depth < Len(f) - 1 THEN Depth ELSE Len(f) - 1)

Groups == {GroupOf(f) : f \in Files}

layerLocals == <<layer, acceptedGroups, acceptedLayers, assignedGroup,
                 unknownGroups, duplicateGroups, groupClaims>>
layerVars == <<phase, entries, layers, layerLocals>>

LayersInit ==
  /\ phase = "start"
  /\ entries = 0
  /\ layer = NoId
  /\ acceptedGroups = {}
  /\ acceptedLayers = <<>>
  /\ assignedGroup = [g \in Groups |-> NoId]
  /\ unknownGroups = {}
  /\ duplicateGroups = {}
  /\ groupClaims = {}
  /\ layers = {}

\* runArchitectureAnalyzer up to its session: a directory named like the root
\* group would be merged with the files at the root.
BeginLayers ==
  /\ phase = "start"
  /\ phase' = IF \E f \in Files : f # <<>> /\ f[1] = RootGroup THEN "failed" ELSE "layers"
  /\ UNCHANGED <<entries, layers, layerLocals>>

\* The next entry that normalizeRawLayerArray let through: one with an id, a
\* name and a description.
NextLayer(id) ==
  /\ phase = "layers"
  /\ layer = NoId
  /\ entries < MaxEntries
  /\ entries' = entries + 1
  /\ layer' = id
  /\ acceptedGroups' = {}
  /\ UNCHANGED <<phase, layers, acceptedLayers, assignedGroup, unknownGroups,
                 duplicateGroups, groupClaims>>

ClaimUnknownGroup(g) ==
  /\ g \notin Groups
  /\ unknownGroups' = unknownGroups \cup {g}
  /\ UNCHANGED <<acceptedGroups, assignedGroup, duplicateGroups>>

ClaimTakenGroup(g) ==
  /\ g \in Groups
  /\ assignedGroup[g] \notin {NoId, layer}
  /\ duplicateGroups' = duplicateGroups \cup
       {[group |-> g, assignedLayer |-> assignedGroup[g], alsoSeenIn |-> layer]}
  /\ UNCHANGED <<acceptedGroups, assignedGroup, unknownGroups>>

\* The last claim wins, not the first.
BugClaimFreeGroupSteals(g) ==
  /\ g \in Groups
  /\ assignedGroup' = [assignedGroup EXCEPT ![g] = layer]
  /\ acceptedGroups' = acceptedGroups \cup {g}
  /\ UNCHANGED <<unknownGroups, duplicateGroups>>

ClaimFreeGroup(g) ==
  /\ g \in Groups
  /\ assignedGroup[g] \in {NoId, layer}
  /\ assignedGroup' = [assignedGroup EXCEPT ![g] = layer]
  /\ acceptedGroups' = acceptedGroups \cup {g}
  /\ UNCHANGED <<unknownGroups, duplicateGroups>>

ClaimGroup(g) ==
  /\ phase = "layers"
  /\ layer # NoId
  /\ \/ ClaimUnknownGroup(g)
     \/ ClaimTakenGroup(g)
     \/ ClaimFreeGroup(g)
  /\ groupClaims' = groupClaims \cup {<<layer, g>>}
  /\ UNCHANGED <<phase, entries, layer, acceptedLayers, layers>>

\* The state before the exact-once repair: an id that comes twice is two
\* layers.
BugMergedLayersTwice == Append(acceptedLayers, [id |-> layer, groupIds |-> acceptedGroups])

\* An id that comes again is merged into its first occurrence.
MergedLayers ==
  IF \E i \in DOMAIN acceptedLayers : acceptedLayers[i].id = layer
    THEN [i \in DOMAIN acceptedLayers |->
            IF acceptedLayers[i].id = layer
              THEN [acceptedLayers[i] EXCEPT !.groupIds = @ \cup acceptedGroups]
              ELSE acceptedLayers[i]]
    ELSE Append(acceptedLayers, [id |-> layer, groupIds |-> acceptedGroups])

\* The end of the outer loop's body; an entry that got nothing is no layer.
EndLayer ==
  /\ phase = "layers"
  /\ layer # NoId
  /\ acceptedLayers' = IF acceptedGroups = {} THEN acceptedLayers ELSE MergedLayers
  /\ layer' = NoId
  /\ acceptedGroups' = {}
  /\ UNCHANGED <<phase, entries, assignedGroup, unknownGroups, duplicateGroups,
                 groupClaims, layers>>

-----------------------------------------------------------------------------
\* The files of accepted layer i; a file goes to the first layer that has its
\* group (assignedFilePaths).
FilesOf(i) ==
  {f \in Files : /\ GroupOf(f) \in acceptedLayers[i].groupIds
                 /\ \A j \in 1..(i - 1) : GroupOf(f) \notin acceptedLayers[j].groupIds}

UnassignedFiles == Files \ UNION {FilesOf(i) : i \in DOMAIN acceptedLayers}

\* An accepted layer:shared takes the files nobody claimed.
SweptFiles(i) ==
  IF acceptedLayers[i].id = LayerShared THEN FilesOf(i) \cup UnassignedFiles ELSE FilesOf(i)

\* If there is none, they make a layer of their own.
SyntheticLayer ==
  IF \E i \in DOMAIN acceptedLayers : acceptedLayers[i].id = LayerShared
    THEN {}
    ELSE {[id |-> LayerShared, fileIds |-> UnassignedFiles]}

NormalizedLayers ==
  {l \in {[id |-> acceptedLayers[i].id, fileIds |-> SweptFiles(i)] :
            i \in DOMAIN acceptedLayers} \cup SyntheticLayer : l.fileIds # {}}

\* What follows the loop.  parseLayers throws on a reply without a single
\* well-formed entry.
AssignFiles ==
  /\ phase = "layers"
  /\ layer = NoId
  /\ entries > 0
  /\ layers' = NormalizedLayers
  /\ phase' = "layered"
  /\ UNCHANGED <<entries, layerLocals>>

ReplyWithoutLayers ==
  /\ phase = "layers"
  /\ entries = 0
  /\ phase' = "failed"
  /\ UNCHANGED <<entries, layers, layerLocals>>

LayersNext ==
  \/ BeginLayers
  \/ \E id \in LayerIds : NextLayer(id)
  \/ \E g \in Groups \cup {OtherGroup} : ClaimGroup(g)
  \/ EndLayer
  \/ AssignFiles
  \/ ReplyWithoutLayers

-----------------------------------------------------------------------------
\* Every scanned file is in exactly one layer, no id names two layers and no
\* layer is empty, whatever the model replied ("enforced HERE, not delegated to
\* the LLM", architecture-analyzer.ts:606).
FilesInOneLayer ==
  phase \in {"layered", "domains", "assemble", "assembled"} =>
    /\ \A f \in Files : \E l \in layers : f \in l.fileIds
    /\ \A l, m \in layers : l.fileIds \cap m.fileIds # {} \/ l.id = m.id => l = m
    /\ \A l \in layers : l.fileIds # {} /\ l.fileIds \subseteq Files

\* Inductive, and the reason for FilesInOneLayer: ids are accepted once, and
\* the groups of an accepted layer, and of the entry at hand, are the ones
\* assignedGroup has under its id, so that no two layers share a group.
LayerTypes ==
  /\ layer \in LayerIds \cup {NoId}
  /\ acceptedGroups \subseteq Groups
  /\ acceptedLayers \in Seq([id : LayerIds, groupIds : SUBSET Groups])
  /\ assignedGroup \in [Groups -> LayerIds \cup {NoId}]

GroupsAreHeld ==
  phase \in {"start", "layers"} =>
    /\ \A g \in acceptedGroups : assignedGroup[g] = layer
    /\ \A i \in DOMAIN acceptedLayers : \A g \in acceptedLayers[i].groupIds :
         assignedGroup[g] = acceptedLayers[i].id

IdsAreAcceptedOnce ==
  \A i, j \in DOMAIN acceptedLayers : acceptedLayers[i].id = acceptedLayers[j].id => i = j

LayersInv == LayerTypes /\ GroupsAreHeld /\ IdsAreAcceptedOnce /\ FilesInOneLayer

\* The layer of this id has all files of group g.
Has(id, g) ==
  \E l \in layers : l.id = id /\ {f \in Files : GroupOf(f) = g} \subseteq l.fileIds

\* Nothing the model asked for is lost in silence: a claim is honoured, or its
\* group does not exist and is reported, or the report names the layer that
\* has the group's files instead (first claim wins).
ClaimsAreAccounted ==
  phase = "layered" =>
    \A c \in groupClaims :
      \/ c[2] \in unknownGroups \ Groups
      \/ c[2] \in Groups /\ Has(c[1], c[2])
      \/ \E d \in duplicateGroups :
           /\ d.group = c[2] /\ d.alsoSeenIn = c[1] /\ d.assignedLayer # c[1]
           /\ Has(d.assignedLayer, c[2])

\* Inductive, and the reason for ClaimsAreAccounted: what assignedGroup promises
\* to an id is held for it, by an accepted layer or by the entry at hand, and a
\* claim is settled by what assignedGroup said when it was made.
PromisesAreHeld ==
  phase \in {"start", "layers"} =>
    \A g \in Groups : assignedGroup[g] # NoId =>
      \/ assignedGroup[g] = layer /\ g \in acceptedGroups
      \/ \E i \in DOMAIN acceptedLayers :
           acceptedLayers[i].id = assignedGroup[g] /\ g \in acceptedLayers[i].groupIds

ClaimsAreSettled ==
  phase \in {"start", "layers"} =>
    \A c \in groupClaims :
      \/ c[2] \in unknownGroups \ Groups
      \/ c[2] \in Groups /\ assignedGroup[c[2]] = c[1] /\ c[1] \in LayerIds
      \/ \E d \in duplicateGroups :
           /\ d.group = c[2] /\ d.alsoSeenIn = c[1] /\ d.assignedLayer # c[1]
           /\ c[2] \in Groups /\ assignedGroup[c[2]] = d.assignedLayer
           /\ d.assignedLayer \in LayerIds

ClaimsInv == PromisesAreHeld /\ ClaimsAreSettled /\ ClaimsAreAccounted
=============================================================================
