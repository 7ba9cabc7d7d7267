--------------------------- MODULE SynthesisProofs --------------------------
(***************************************************************************)
(* Proofs about Synthesis, for every project, every set of ids and every   *)
(* length of a reply: the partition of the files into layers.              *)
(***************************************************************************)
EXTENDS Synthesis, SequenceTheorems, FiniteSetTheorems, FunctionTheorems, TLAPS

\* No entry was taken yet.
LEMMA InitLayersInv == Init => LayersInv
<1> SUFFICES ASSUME Init PROVE LayersInv
  OBVIOUS
<1>1. acceptedLayers \in Seq([id : LayerIds, groupIds : SUBSET Groups])
  BY DEF Init, LayersInit
<1>2. acceptedLayers = <<>> /\ DOMAIN acceptedLayers = {}
  BY DEF Init, LayersInit
<1> QED
  BY <1>1, <1>2 DEF Init, LayersInit, LayersInv, LayerTypes, GroupsAreHeld,
                    IdsAreAcceptedOnce, FilesInOneLayer

\* What an accepted layer is.
LEMMA AcceptedLayerType ==
  ASSUME LayersInv, NEW i \in DOMAIN acceptedLayers
  PROVE  /\ acceptedLayers[i] \in [id : LayerIds, groupIds : SUBSET Groups]
         /\ acceptedLayers[i].id \in LayerIds /\ acceptedLayers[i].id # NoId
         /\ acceptedLayers[i].groupIds \subseteq Groups
<1>1. acceptedLayers[i] \in [id : LayerIds, groupIds : SUBSET Groups]
  <2> DEFINE R == [id : LayerIds, groupIds : SUBSET Groups]
  <2>1. acceptedLayers \in Seq(R)
    BY DEF LayersInv, LayerTypes
  <2> HIDE DEF R
  <2>2. acceptedLayers[i] \in R
    BY <2>1, ElementOfSeq
  <2> QED BY <2>2 DEF R
<1> QED BY <1>1, LayersAssumption

\* The session of the layers begins, or is refused.
LEMMA BeginLayersPreserves ==
  ASSUME LayersInv, BeginLayers
  PROVE  LayersInv'
BY DEF BeginLayers, layerLocals, LayersInv, LayerTypes, GroupsAreHeld, IdsAreAcceptedOnce,
       FilesInOneLayer

\* The outer loop goes on to another entry.
LEMMA NextLayerPreserves ==
  ASSUME LayersInv, NEW id \in LayerIds, NextLayer(id)
  PROVE  LayersInv'
BY DEF NextLayer, LayersInv, LayerTypes, GroupsAreHeld, IdsAreAcceptedOnce, FilesInOneLayer

\* A claim is honoured only for a group that no other layer has: what other
\* layers hold stays theirs.
LEMMA ClaimGroupPreserves ==
  ASSUME LayersInv, NEW g, ClaimGroup(g)
  PROVE  LayersInv'
<1>1. CASE ClaimUnknownGroup(g) \/ ClaimTakenGroup(g)
  BY <1>1 DEF ClaimGroup, ClaimUnknownGroup, ClaimTakenGroup, LayersInv, LayerTypes,
              GroupsAreHeld, IdsAreAcceptedOnce, FilesInOneLayer
<1>2. CASE ClaimFreeGroup(g)
  <2>1. /\ g \in Groups /\ layer \in LayerIds /\ phase = "layers" /\ phase' = "layers"
        /\ assignedGroup[g] \in {NoId, layer}
        /\ assignedGroup' = [assignedGroup EXCEPT ![g] = layer]
        /\ acceptedGroups' = acceptedGroups \cup {g}
        /\ UNCHANGED <<layer, acceptedLayers>>
    BY <1>2 DEF ClaimGroup, ClaimFreeGroup, LayersInv, LayerTypes
  <2>2. LayerTypes'
    BY <2>1 DEF LayersInv, LayerTypes
  <2>3. \A i \in DOMAIN acceptedLayers : acceptedLayers[i].id # NoId
                                         /\ acceptedLayers[i].groupIds \subseteq Groups
    BY AcceptedLayerType
  <2>4. GroupsAreHeld'
    BY <2>1, <2>3 DEF LayersInv, LayerTypes, GroupsAreHeld
  <2>5. IdsAreAcceptedOnce' /\ FilesInOneLayer'
    BY <2>1 DEF LayersInv, IdsAreAcceptedOnce, FilesInOneLayer
  <2> QED BY <2>2, <2>4, <2>5 DEF LayersInv
<1> QED BY <1>1, <1>2 DEF ClaimGroup

\* The entry at hand is merged into the accepted layer of its id, or becomes a
\* new one.
LEMMA EndLayerPreserves ==
  ASSUME LayersInv, EndLayer
  PROVE  LayersInv'
<1> DEFINE Entry == [id |-> layer, groupIds |-> acceptedGroups]
<1>1. /\ layer \in LayerIds /\ phase = "layers" /\ phase' = "layers"
      /\ layer' = NoId /\ acceptedGroups' = {}
      /\ UNCHANGED <<assignedGroup, layers>>
      /\ Entry \in [id : LayerIds, groupIds : SUBSET Groups]
  BY DEF EndLayer, LayersInv, LayerTypes
<1>2. CASE acceptedGroups = {}
  BY <1>1, <1>2 DEF EndLayer, LayersInv, LayerTypes, GroupsAreHeld, IdsAreAcceptedOnce,
                    FilesInOneLayer
<1>3. CASE acceptedGroups # {} /\ \E i \in DOMAIN acceptedLayers : acceptedLayers[i].id = layer
  <2>1. acceptedLayers' = [i \in DOMAIN acceptedLayers |->
                             IF acceptedLayers[i].id = layer
                               THEN [acceptedLayers[i] EXCEPT !.groupIds = @ \cup acceptedGroups]
                               ELSE acceptedLayers[i]]
    BY <1>3 DEF EndLayer, MergedLayers
  <2>2. \A i \in DOMAIN acceptedLayers :
          acceptedLayers[i] \in [id : LayerIds, groupIds : SUBSET Groups]
    BY AcceptedLayerType
  <2>3. DOMAIN acceptedLayers = 1..Len(acceptedLayers) /\ Len(acceptedLayers) \in Nat
    BY DEF LayersInv, LayerTypes
  <2>4. \A i \in DOMAIN acceptedLayers :
          /\ acceptedLayers'[i] \in [id : LayerIds, groupIds : SUBSET Groups]
          /\ acceptedLayers'[i].id = acceptedLayers[i].id
          /\ \A g \in acceptedLayers'[i].groupIds :
               \/ g \in acceptedLayers[i].groupIds
               \/ acceptedLayers[i].id = layer /\ g \in acceptedGroups
    BY <2>1, <2>2 DEF LayersInv, LayerTypes
  <2>5. DOMAIN acceptedLayers' = DOMAIN acceptedLayers
    BY <2>1
  <2>6. acceptedLayers' \in Seq([id : LayerIds, groupIds : SUBSET Groups])
    BY <2>1, <2>3, <2>4, <2>5, IsASeq
  <2>7. GroupsAreHeld'
    BY <1>1, <2>4, <2>5 DEF LayersInv, GroupsAreHeld
  <2>8. IdsAreAcceptedOnce'
    BY <2>4, <2>5 DEF LayersInv, IdsAreAcceptedOnce
  <2> QED
    BY <1>1, <2>6, <2>7, <2>8 DEF LayersInv, LayerTypes, FilesInOneLayer
<1>4. CASE acceptedGroups # {} /\ \A i \in DOMAIN acceptedLayers : acceptedLayers[i].id # layer
  <2>1. acceptedLayers' = Append(acceptedLayers, Entry)
    BY <1>4 DEF EndLayer, MergedLayers
  <2>2. /\ acceptedLayers' \in Seq([id : LayerIds, groupIds : SUBSET Groups])
        /\ DOMAIN acceptedLayers' = 1..(Len(acceptedLayers) + 1)
        /\ DOMAIN acceptedLayers = 1..Len(acceptedLayers) /\ Len(acceptedLayers) \in Nat
        /\ \A i \in 1..Len(acceptedLayers) : acceptedLayers'[i] = acceptedLayers[i]
        /\ acceptedLayers'[Len(acceptedLayers) + 1] = Entry
    <3> HIDE DEF Entry
    <3> QED BY <1>1, <2>1, AppendProperties DEF LayersInv, LayerTypes
  <2>3. GroupsAreHeld'
    BY <1>1, <2>2 DEF LayersInv, GroupsAreHeld
  <2>4. IdsAreAcceptedOnce'
    BY <1>4, <2>2 DEF LayersInv, IdsAreAcceptedOnce
  <2> QED
    BY <1>1, <2>2, <2>3, <2>4 DEF LayersInv, LayerTypes, FilesInOneLayer
<1> QED BY <1>2, <1>3, <1>4

\* Layers of distinct ids have distinct groups, so that the first layer to
\* have a file is the only one.
LEMMA FilesAreApart ==
  ASSUME LayersInv, phase = "layers",
         NEW i \in DOMAIN acceptedLayers, NEW j \in DOMAIN acceptedLayers, i # j
  PROVE  \A f \in Files : GroupOf(f) \in acceptedLayers[i].groupIds =>
                          GroupOf(f) \notin acceptedLayers[j].groupIds
BY DEF LayersInv, GroupsAreHeld, IdsAreAcceptedOnce

\* What follows the loop: every file is claimed or swept, and none is both.
LEMMA AssignFilesPreserves ==
  ASSUME LayersInv, AssignFiles
  PROVE  LayersInv'
<1> DEFINE D == DOMAIN acceptedLayers
           Id(i) == acceptedLayers[i].id
           Named == \E i \in D : Id(i) = LayerShared
<1>1. phase = "layers" /\ phase' = "layered" /\ layers' = NormalizedLayers
      /\ UNCHANGED layerLocals
  BY DEF AssignFiles
<1>2. \A i \in D : FilesOf(i) = {f \in Files : GroupOf(f) \in acceptedLayers[i].groupIds}
  <2>1. DOMAIN acceptedLayers = 1..Len(acceptedLayers) /\ Len(acceptedLayers) \in Nat
    BY DEF LayersInv, LayerTypes
  <2>2. \A i \in D : \A j \in 1..(i - 1) : j \in D /\ i # j
    BY <2>1
  <2> QED BY <1>1, <2>2, FilesAreApart DEF FilesOf
<1>3. \A i, j \in D : i # j => FilesOf(i) \cap FilesOf(j) = {}
  BY <1>1, <1>2, FilesAreApart
<1>4. \A i, j \in D : Id(i) = Id(j) => i = j
  BY DEF LayersInv, IdsAreAcceptedOnce
<1>5. /\ UnassignedFiles \subseteq Files
      /\ \A i \in D : FilesOf(i) \subseteq Files /\ FilesOf(i) \cap UnassignedFiles = {}
      /\ \A f \in Files : f \in UnassignedFiles \/ \E i \in D : f \in FilesOf(i)
  BY DEF UnassignedFiles, FilesOf
<1>6. \A i \in D :
        /\ FilesOf(i) \subseteq SweptFiles(i)
        /\ SweptFiles(i) \subseteq FilesOf(i) \cup UnassignedFiles
        /\ Id(i) = LayerShared => UnassignedFiles \subseteq SweptFiles(i)
        /\ Id(i) # LayerShared => SweptFiles(i) = FilesOf(i)
  BY DEF SweptFiles
\* A layer of the result is an accepted one, or the synthetic one.
<1>7. \A l \in layers' :
        /\ l.fileIds # {}
        /\ \/ \E i \in D : l = [id |-> Id(i), fileIds |-> SweptFiles(i)]
           \/ ~Named /\ l = [id |-> LayerShared, fileIds |-> UnassignedFiles]
  BY <1>1 DEF NormalizedLayers, SyntheticLayer
<1>8. \A i \in D : SweptFiles(i) # {} =>
                   [id |-> Id(i), fileIds |-> SweptFiles(i)] \in layers'
  BY <1>1 DEF NormalizedLayers
<1>9. ~Named /\ UnassignedFiles # {} =>
        [id |-> LayerShared, fileIds |-> UnassignedFiles] \in layers'
  BY <1>1 DEF NormalizedLayers, SyntheticLayer
<1>10. \A f \in Files : \E l \in layers' : f \in l.fileIds
  <2> SUFFICES ASSUME NEW f \in Files PROVE \E l \in layers' : f \in l.fileIds
    OBVIOUS
  <2>1. CASE \E i \in D : f \in SweptFiles(i)
    <3>1. PICK i \in D : f \in SweptFiles(i)
      BY <2>1
    <3> QED BY <3>1, <1>8
  <2>2. CASE \A i \in D : f \notin SweptFiles(i)
    <3>1. f \in UnassignedFiles
      BY <2>2, <1>5, <1>6
    <3>2. ~Named
      BY <3>1, <2>2, <1>6
    <3> QED BY <3>1, <3>2, <1>9
  <2> QED BY <2>1, <2>2
<1>11. \A l, m \in layers' : l.fileIds \cap m.fileIds # {} \/ l.id = m.id => l = m
  <2>1. \A i, j \in D : i # j => Id(i) # Id(j) /\ \A f : ~(f \in SweptFiles(i) /\ f \in SweptFiles(j))
    <3> SUFFICES ASSUME NEW i \in D, NEW j \in D, i # j
                 PROVE  Id(i) # Id(j) /\ \A f : ~(f \in SweptFiles(i) /\ f \in SweptFiles(j))
      OBVIOUS
    <3>1. Id(i) # Id(j)
      BY <1>4
    <3>2. SweptFiles(i) = FilesOf(i) \/ SweptFiles(j) = FilesOf(j)
      BY <3>1, <1>6
    <3>3. FilesOf(i) \cap FilesOf(j) = {} /\ FilesOf(i) \cap UnassignedFiles = {}
          /\ FilesOf(j) \cap UnassignedFiles = {}
      BY <1>3, <1>5
    <3>4. SweptFiles(i) \subseteq FilesOf(i) \cup UnassignedFiles
          /\ SweptFiles(j) \subseteq FilesOf(j) \cup UnassignedFiles
      BY <1>6
    <3> QED BY <3>1, <3>2, <3>3, <3>4
  <2>2. ~Named => \A i \in D : Id(i) # LayerShared /\ \A f : ~(f \in SweptFiles(i) /\ f \in UnassignedFiles)
    <3> SUFFICES ASSUME ~Named, NEW i \in D
                 PROVE  Id(i) # LayerShared /\ \A f : ~(f \in SweptFiles(i) /\ f \in UnassignedFiles)
      OBVIOUS
    <3>1. Id(i) # LayerShared /\ SweptFiles(i) = FilesOf(i)
      BY <1>6
    <3> QED BY <3>1, <1>5
  <2> HIDE DEF Named
  <2> QED BY <1>7, <2>1, <2>2
<1>12. \A l \in layers' : l.fileIds # {} /\ l.fileIds \subseteq Files
  <2> SUFFICES ASSUME NEW l \in layers' PROVE l.fileIds # {} /\ l.fileIds \subseteq Files
    OBVIOUS
  <2>1. \/ \E i \in D : l.fileIds = SweptFiles(i)
        \/ l.fileIds = UnassignedFiles
    BY <1>7
  <2>2. \A i \in D : SweptFiles(i) \subseteq Files
    BY <1>5, <1>6
  <2> QED BY <1>5, <1>7, <2>1, <2>2
<1>13. FilesInOneLayer'
  BY <1>10, <1>11, <1>12 DEF FilesInOneLayer
<1> QED
  BY <1>1, <1>13 DEF LayersInv, LayerTypes, GroupsAreHeld, IdsAreAcceptedOnce, layerLocals

\* What comes after the layers leaves them alone, or drops everything.
LEMMA LaterStepsPreserve ==
  ASSUME LayersInv, [Next]_vars, ~LayersNext
  PROVE  LayersInv'
<1>1. CASE UNCHANGED vars
  BY <1>1 DEF vars, layerLocals, LayersInv, LayerTypes, GroupsAreHeld, IdsAreAcceptedOnce,
              FilesInOneLayer
<1>2. CASE BeginDomains
  <2>1. /\ acceptedLayers' = <<>> /\ assignedGroup' = [g \in Groups |-> NoId]
        /\ phase = "layered" /\ phase' \in {"failed", "domains"}
        /\ UNCHANGED <<layer, acceptedGroups, layers>>
    BY <1>2 DEF BeginDomains
  <2>2. acceptedLayers' \in Seq([id : LayerIds, groupIds : SUBSET Groups])
        /\ DOMAIN acceptedLayers' = {}
    BY <2>1
  <2> QED
    BY <2>1, <2>2 DEF LayersInv, LayerTypes, GroupsAreHeld, IdsAreAcceptedOnce, FilesInOneLayer
<1>3. CASE BeginTour
  BY <1>3 DEF BeginTour, layerLocals, LayersInv, LayerTypes, GroupsAreHeld, IdsAreAcceptedOnce,
              FilesInOneLayer
<1>4. CASE \/ \E id \in DomainIds : NextDomain(id)
           \/ \E id \in LayerIds : ClaimLayer(id)
           \/ EndDomain \/ AssignLayers \/ ReplyWithoutDomains
           \/ \E analysed \in SUBSET Files : Assemble(analysed)
           \/ \E order \in Orders, ids \in PrimaryLists : TakeStep(order, ids)
           \/ NumberSteps \/ ReplyWithoutSteps
  <2>1. UNCHANGED <<layers, layerLocals>>
    BY <1>4 DEF NextDomain, ClaimLayer, EndDomain, AssignLayers, ReplyWithoutDomains, Assemble,
                TakeStep, NumberSteps, ReplyWithoutSteps
  <2>2. \/ phase' = phase
        \/ phase = "domains" /\ phase' \in {"assemble", "failed"}
        \/ phase = "assemble" /\ phase' \in {"assembled", "failed"}
        \/ phase = "tour" /\ phase' \in {"done", "failed"}
    BY <1>4 DEF NextDomain, ClaimLayer, EndDomain, AssignLayers, ReplyWithoutDomains, Assemble,
                TakeStep, NumberSteps, ReplyWithoutSteps
  <2> QED
    BY <2>1, <2>2 DEF layerLocals, LayersInv, LayerTypes, GroupsAreHeld, IdsAreAcceptedOnce,
                      FilesInOneLayer
<1> QED BY <1>1, <1>2, <1>3, <1>4 DEF Next, DomainsNext, TourNext

\* Every reachable state of the synthesis keeps the invariant of the layers.
THEOREM SynthesisLayers == Spec => []LayersInv
<1>1. LayersInv /\ [Next]_vars => LayersInv'
  <2> SUFFICES ASSUME LayersInv, [Next]_vars PROVE LayersInv'
    OBVIOUS
  <2>1. CASE \E id \in LayerIds : NextLayer(id)
    BY <2>1, NextLayerPreserves
  <2>2. CASE \E g \in Groups \cup {OtherGroup} : ClaimGroup(g)
    BY <2>2, ClaimGroupPreserves
  <2>3. CASE EndLayer
    BY <2>3, EndLayerPreserves
  <2>4. CASE AssignFiles
    BY <2>4, AssignFilesPreserves
  <2>5. CASE ReplyWithoutLayers
    BY <2>5 DEF ReplyWithoutLayers, layerLocals, LayersInv, LayerTypes, GroupsAreHeld,
                IdsAreAcceptedOnce, FilesInOneLayer
  <2>6. CASE ~LayersNext
    BY <2>6, LaterStepsPreserve
  <2>7. CASE BeginLayers
    BY <2>7, BeginLayersPreserves
  <2> QED BY <2>1, <2>2, <2>3, <2>4, <2>5, <2>6, <2>7 DEF LayersNext
<1> QED BY InitLayersInv, <1>1, PTL DEF Spec

\* Whatever a model replies, to the layers' prompt and to the later ones, each
\* scanned file is in exactly one layer, no layer is empty, and no id names two
\* layers, until the graph is handed on.
THEOREM SynthesisFilesInOneLayer == Spec => []FilesInOneLayer
<1>1. LayersInv => FilesInOneLayer
  BY DEF LayersInv
<1> QED BY SynthesisLayers, <1>1, PTL

-----------------------------------------------------------------------------
\* Nothing was claimed yet, and no group is promised.
LEMMA InitClaimsInv == Init => ClaimsInv
BY DEF Init, LayersInit, ClaimsInv, PromisesAreHeld, ClaimsAreSettled, ClaimsAreAccounted

\* The groups of another entry are asked for: those of the last one were merged.
LEMMA NextLayerPreservesClaims ==
  ASSUME LayersInv, ClaimsInv, NEW id \in LayerIds, NextLayer(id)
  PROVE  ClaimsInv'
<1>1. /\ phase = "layers" /\ phase' = "layers" /\ layer = NoId
      /\ UNCHANGED <<acceptedLayers, assignedGroup, unknownGroups, duplicateGroups, groupClaims>>
  BY DEF NextLayer
<1>2. PromisesAreHeld'
  BY <1>1 DEF ClaimsInv, PromisesAreHeld
<1>3. ClaimsAreSettled' /\ ClaimsAreAccounted'
  BY <1>1 DEF ClaimsInv, ClaimsAreSettled, ClaimsAreAccounted
<1> QED BY <1>2, <1>3 DEF ClaimsInv

\* A claim is settled by the branch it takes; and it unsettles no other, since
\* assignedGroup changes only where it had nothing, or the same.
LEMMA ClaimGroupPreservesClaims ==
  ASSUME LayersInv, ClaimsInv, NEW g, ClaimGroup(g)
  PROVE  ClaimsInv'
<1>1. /\ phase = "layers" /\ phase' = "layers"
      /\ layer \in LayerIds /\ layer # NoId
      /\ groupClaims' = groupClaims \cup {<<layer, g>>}
      /\ UNCHANGED <<layer, acceptedLayers>>
      /\ assignedGroup \in [Groups -> LayerIds \cup {NoId}]
  BY DEF ClaimGroup, LayersInv, LayerTypes
<1>2. ClaimsAreAccounted'
  BY <1>1 DEF ClaimsAreAccounted
<1>3. CASE ClaimUnknownGroup(g)
  <2>1. /\ g \notin Groups /\ unknownGroups' = unknownGroups \cup {g}
        /\ UNCHANGED <<acceptedGroups, assignedGroup, duplicateGroups>>
    BY <1>3 DEF ClaimUnknownGroup
  <2>2. PromisesAreHeld'
    BY <1>1, <2>1 DEF ClaimsInv, PromisesAreHeld
  <2>3. ClaimsAreSettled'
    BY <1>1, <2>1 DEF ClaimsInv, ClaimsAreSettled
  <2> QED BY <1>2, <2>2, <2>3 DEF ClaimsInv
<1>4. CASE ClaimTakenGroup(g)
  <2> DEFINE Dup == [group |-> g, assignedLayer |-> assignedGroup[g], alsoSeenIn |-> layer]
  <2>1. /\ g \in Groups /\ assignedGroup[g] \notin {NoId, layer}
        /\ duplicateGroups' = duplicateGroups \cup {Dup}
        /\ UNCHANGED <<acceptedGroups, assignedGroup, unknownGroups>>
    BY <1>4 DEF ClaimTakenGroup
  <2>2. PromisesAreHeld'
    BY <1>1, <2>1 DEF ClaimsInv, PromisesAreHeld
  <2>3. /\ Dup \in duplicateGroups' /\ Dup.group = g /\ Dup.alsoSeenIn = layer
        /\ Dup.assignedLayer = assignedGroup[g] /\ assignedGroup[g] \in LayerIds
        /\ assignedGroup[g] # layer
    BY <1>1, <2>1
  <2> HIDE DEF Dup
  <2>4. ClaimsAreSettled'
    BY <1>1, <2>1, <2>3 DEF ClaimsInv, ClaimsAreSettled
  <2> QED BY <1>2, <2>2, <2>4 DEF ClaimsInv
<1>5. CASE ClaimFreeGroup(g)
  <2>1. /\ g \in Groups /\ assignedGroup[g] \in {NoId, layer}
        /\ assignedGroup' = [assignedGroup EXCEPT ![g] = layer]
        /\ acceptedGroups' = acceptedGroups \cup {g}
        /\ UNCHANGED <<unknownGroups, duplicateGroups>>
    BY <1>5 DEF ClaimFreeGroup
  <2>2. /\ assignedGroup'[g] = layer
        /\ \A h \in Groups : h # g => assignedGroup'[h] = assignedGroup[h]
        /\ \A h \in Groups : assignedGroup[h] # NoId => assignedGroup'[h] = assignedGroup[h]
    BY <1>1, <2>1
  <2>3. PromisesAreHeld'
    BY <1>1, <2>1, <2>2 DEF ClaimsInv, PromisesAreHeld
  <2>4. ClaimsAreSettled'
    <3> SUFFICES ASSUME NEW c \in groupClaims'
                 PROVE  \/ c[2] \in unknownGroups' \ Groups
                        \/ c[2] \in Groups /\ assignedGroup'[c[2]] = c[1] /\ c[1] \in LayerIds
                        \/ \E d \in duplicateGroups' :
                             /\ d.group = c[2] /\ d.alsoSeenIn = c[1] /\ d.assignedLayer # c[1]
                             /\ c[2] \in Groups /\ assignedGroup'[c[2]] = d.assignedLayer
                             /\ d.assignedLayer \in LayerIds
      BY DEF ClaimsAreSettled
    <3>1. CASE c = <<layer, g>>
      BY <3>1, <1>1, <2>1, <2>2
    <3>2. CASE c \in groupClaims
      BY <3>2, <1>1, <2>1, <2>2, LayersAssumption DEF ClaimsInv, ClaimsAreSettled
    <3> QED BY <3>1, <3>2, <1>1
  <2> QED BY <1>2, <2>3, <2>4 DEF ClaimsInv
<1> QED BY <1>3, <1>4, <1>5 DEF ClaimGroup

\* What the entry held, an accepted layer of its id holds now.
LEMMA EndLayerPreservesClaims ==
  ASSUME LayersInv, ClaimsInv, EndLayer
  PROVE  ClaimsInv'
<1> DEFINE Entry == [id |-> layer, groupIds |-> acceptedGroups]
<1>1. /\ layer \in LayerIds /\ phase = "layers" /\ phase' = "layers"
      /\ UNCHANGED <<assignedGroup, unknownGroups, duplicateGroups, groupClaims>>
  BY DEF EndLayer, LayersInv, LayerTypes
<1>2. ClaimsAreSettled' /\ ClaimsAreAccounted'
  BY <1>1 DEF ClaimsInv, ClaimsAreSettled, ClaimsAreAccounted
<1>3. CASE acceptedGroups = {}
  <2>1. acceptedLayers' = acceptedLayers
    BY <1>3 DEF EndLayer
  <2> QED BY <1>1, <1>2, <1>3, <2>1 DEF ClaimsInv, PromisesAreHeld
<1>4. CASE acceptedGroups # {} /\ \E i \in DOMAIN acceptedLayers : acceptedLayers[i].id = layer
  <2>1. acceptedLayers' = [i \in DOMAIN acceptedLayers |->
                             IF acceptedLayers[i].id = layer
                               THEN [acceptedLayers[i] EXCEPT !.groupIds = @ \cup acceptedGroups]
                               ELSE acceptedLayers[i]]
    BY <1>4 DEF EndLayer, MergedLayers
  <2>2. \A i \in DOMAIN acceptedLayers :
          acceptedLayers[i] \in [id : LayerIds, groupIds : SUBSET Groups]
    BY AcceptedLayerType
  <2>3. /\ DOMAIN acceptedLayers' = DOMAIN acceptedLayers
        /\ \A i \in DOMAIN acceptedLayers :
             /\ acceptedLayers'[i].id = acceptedLayers[i].id
             /\ acceptedLayers[i].groupIds \subseteq acceptedLayers'[i].groupIds
             /\ acceptedLayers[i].id = layer => acceptedGroups \subseteq acceptedLayers'[i].groupIds
    BY <2>1, <2>2
  <2>4. PromisesAreHeld'
    BY <1>1, <1>4, <2>3 DEF ClaimsInv, PromisesAreHeld
  <2> QED BY <1>2, <2>4 DEF ClaimsInv
<1>5. CASE acceptedGroups # {} /\ \A i \in DOMAIN acceptedLayers : acceptedLayers[i].id # layer
  <2>1. acceptedLayers' = Append(acceptedLayers, Entry)
    BY <1>5 DEF EndLayer, MergedLayers
  <2>2. /\ DOMAIN acceptedLayers' = 1..(Len(acceptedLayers) + 1)
        /\ DOMAIN acceptedLayers = 1..Len(acceptedLayers) /\ Len(acceptedLayers) \in Nat
        /\ \A i \in 1..Len(acceptedLayers) : acceptedLayers'[i] = acceptedLayers[i]
        /\ acceptedLayers'[Len(acceptedLayers) + 1] = Entry
    <3>1. Entry \in [id : LayerIds, groupIds : SUBSET Groups]
      BY <1>1 DEF LayersInv, LayerTypes
    <3> HIDE DEF Entry
    <3> QED BY <2>1, <3>1, AppendProperties DEF LayersInv, LayerTypes
  <2>3. Entry.id = layer /\ Entry.groupIds = acceptedGroups
    OBVIOUS
  <2>4. PromisesAreHeld'
    <3> HIDE DEF Entry
    <3>1. Len(acceptedLayers) + 1 \in DOMAIN acceptedLayers'
      BY <2>2
    <3>2. \A i \in DOMAIN acceptedLayers :
            i \in DOMAIN acceptedLayers' /\ acceptedLayers'[i] = acceptedLayers[i]
      BY <2>2
    <3> QED BY <1>1, <2>2, <2>3, <3>1, <3>2 DEF ClaimsInv, PromisesAreHeld
  <2> QED BY <1>2, <2>4 DEF ClaimsInv
<1> QED BY <1>3, <1>4, <1>5

\* Every group has a file, so that an accepted layer that holds a group is a
\* layer of the result, with all the files of that group.
LEMMA AcceptedLayerHas ==
  ASSUME LayersInv, phase = "layers", layers' = NormalizedLayers,
         NEW i \in DOMAIN acceptedLayers, NEW g \in acceptedLayers[i].groupIds
  PROVE  \E l \in layers' : /\ l.id = acceptedLayers[i].id
                            /\ {f \in Files : GroupOf(f) = g} \subseteq l.fileIds
<1> DEFINE L == [id |-> acceptedLayers[i].id, fileIds |-> SweptFiles(i)]
<1>1. g \in Groups
  BY AcceptedLayerType
<1>2. PICK f \in Files : GroupOf(f) = g
  BY <1>1 DEF Groups
<1>3. {h \in Files : GroupOf(h) = g} \subseteq FilesOf(i)
  <2>1. DOMAIN acceptedLayers = 1..Len(acceptedLayers) /\ Len(acceptedLayers) \in Nat
    BY DEF LayersInv, LayerTypes
  <2>2. \A j \in 1..(i - 1) : j \in DOMAIN acceptedLayers /\ i # j
    BY <2>1
  <2> QED BY <2>2, FilesAreApart DEF FilesOf
<1>4. {h \in Files : GroupOf(h) = g} \subseteq SweptFiles(i) /\ f \in SweptFiles(i)
  BY <1>2, <1>3 DEF SweptFiles
<1>5. L \in layers'
  BY <1>4 DEF NormalizedLayers
<1> QED BY <1>4, <1>5

\* When the loops are done every claim was settled and every promise is held by
\* an accepted layer.
LEMMA AssignFilesPreservesClaims ==
  ASSUME LayersInv, ClaimsInv, AssignFiles
  PROVE  ClaimsInv'
<1>1. /\ phase = "layers" /\ phase' = "layered" /\ layer = NoId /\ layers' = NormalizedLayers
      /\ UNCHANGED <<assignedGroup, unknownGroups, duplicateGroups, groupClaims>>
  BY DEF AssignFiles, layerLocals
<1>2. \A g \in Groups : assignedGroup[g] \in LayerIds => Has(assignedGroup[g], g)'
  <2> SUFFICES ASSUME NEW g \in Groups, assignedGroup[g] \in LayerIds
               PROVE  Has(assignedGroup[g], g)'
    BY <1>1
  <2>1. assignedGroup[g] # NoId
    BY LayersAssumption
  <2>2. PICK i \in DOMAIN acceptedLayers :
          acceptedLayers[i].id = assignedGroup[g] /\ g \in acceptedLayers[i].groupIds
    BY <1>1, <2>1 DEF ClaimsInv, PromisesAreHeld
  <2>3. \E l \in layers' : /\ l.id = assignedGroup[g]
                           /\ {f \in Files : GroupOf(f) = g} \subseteq l.fileIds
    BY <1>1, <2>2, AcceptedLayerHas
  <2> QED BY <1>1, <2>3 DEF Has
<1>3. ClaimsAreAccounted'
  BY <1>1, <1>2 DEF ClaimsInv, ClaimsAreSettled, ClaimsAreAccounted
<1> QED BY <1>1, <1>3 DEF ClaimsInv, PromisesAreHeld, ClaimsAreSettled

\* What is accounted for stays so until the domains begin.
LEMMA OtherStepsPreserveClaims ==
  ASSUME ClaimsInv,
         \/ UNCHANGED <<phase, layers, layerLocals>>
         \/ UNCHANGED layerLocals /\ phase = "start" /\ phase' = "layers"
         \/ phase' \notin {"start", "layers", "layered"}
  PROVE  ClaimsInv'
<1>1. CASE UNCHANGED <<phase, layers, layerLocals>>
  BY <1>1 DEF layerLocals, ClaimsInv, PromisesAreHeld, ClaimsAreSettled, ClaimsAreAccounted, Has
<1>2. CASE UNCHANGED layerLocals /\ phase = "start" /\ phase' = "layers"
  BY <1>2 DEF layerLocals, ClaimsInv, PromisesAreHeld, ClaimsAreSettled, ClaimsAreAccounted
<1>3. CASE phase' \notin {"start", "layers", "layered"}
  BY <1>3 DEF ClaimsInv, PromisesAreHeld, ClaimsAreSettled, ClaimsAreAccounted
<1> QED BY <1>1, <1>2, <1>3

\* Whatever layers a model asks for, and however often, nothing of it is lost in
\* silence: each claim is honoured, unknown, or reported with the layer that has
\* the group.
THEOREM SynthesisClaimsAccounted == Spec => []ClaimsAreAccounted
<1>1. LayersInv /\ ClaimsInv /\ [Next]_vars => ClaimsInv'
  <2> SUFFICES ASSUME LayersInv, ClaimsInv, [Next]_vars PROVE ClaimsInv'
    OBVIOUS
  <2>1. CASE \E id \in LayerIds : NextLayer(id)
    BY <2>1, NextLayerPreservesClaims
  <2>2. CASE \E g \in Groups \cup {OtherGroup} : ClaimGroup(g)
    BY <2>2, ClaimGroupPreservesClaims
  <2>3. CASE EndLayer
    BY <2>3, EndLayerPreservesClaims
  <2>4. CASE AssignFiles
    BY <2>4, AssignFilesPreservesClaims
  <2>5. CASE BeginLayers \/ ReplyWithoutLayers
    <3>1. \/ UNCHANGED layerLocals /\ phase = "start" /\ phase' = "layers"
          \/ phase' \notin {"start", "layers", "layered"}
      BY <2>5 DEF BeginLayers, ReplyWithoutLayers
    <3> QED BY <3>1, OtherStepsPreserveClaims
  <2>6. CASE ~LayersNext
    <3>1. \/ UNCHANGED <<phase, layers, layerLocals>>
          \/ phase' \notin {"start", "layers", "layered"}
      BY <2>6 DEF Next, vars, DomainsNext, TourNext, BeginDomains, NextDomain, ClaimLayer, EndDomain,
                  AssignLayers, ReplyWithoutDomains, Assemble, BeginTour, TakeStep, NumberSteps,
                  ReplyWithoutSteps
    <3> QED BY <3>1, OtherStepsPreserveClaims
  <2> QED BY <2>1, <2>2, <2>3, <2>4, <2>5, <2>6 DEF LayersNext
<1>2. ClaimsInv => ClaimsAreAccounted
  BY DEF ClaimsInv
<1> QED BY InitClaimsInv, SynthesisLayers, <1>1, <1>2, PTL DEF Spec

-----------------------------------------------------------------------------
\* A list without repetitions is the bag of a set; what is pushed onto it and
\* merged into it leaves it one.
LEMMA ListOfSet == ASSUME NEW S PROVE BagToSet(SetToBag(S)) = S /\ \A x \in S : SetToBag(S)[x] = 1
BY DEF BagToSet, SetToBag

\* An element more of a list without repetition.
LEMMA PushedList ==
  ASSUME NEW S, NEW x, x \notin S
  PROVE  SetToBag(S) (+) SetToBag({x}) = SetToBag(S \cup {x})
BY DEF (+), SetToBag

\* Two such lists merged without repetition.
LEMMA MergedLists ==
  ASSUME NEW S, NEW T
  PROVE  WithLayers(SetToBag(S), SetToBag(T)) = SetToBag(S \cup T)
<1>1. SetToBag(S) (+) SetToBag(T \ S) = SetToBag(S \cup (T \ S))
  BY DEF (+), SetToBag
<1>2. S \cup (T \ S) = S \cup T
  OBVIOUS
<1>3. BagToSet(SetToBag(S)) = S /\ BagToSet(SetToBag(T)) = T
  BY ListOfSet
<1>4. WithLayers(SetToBag(S), SetToBag(T)) = SetToBag(S) (+) SetToBag(T \ S)
  BY <1>3, Zenon DEF WithLayers
<1> QED BY <1>1, <1>2, <1>4, Zenon

\* What lists of layers are, and what they grow to.
LEMMA ListsOfLayersGrow ==
  ASSUME NEW ids \in ListsOfLayers
  PROVE  /\ IsSetOf(LayerIdSet, ids)
         /\ \A x \in LayerIdSet : ~BagIn(x, ids) =>
              /\ ids (+) SetToBag({x}) \in ListsOfLayers
              /\ BagToSet(ids (+) SetToBag({x})) = BagToSet(ids) \cup {x}
         /\ \A more \in ListsOfLayers :
              /\ WithLayers(ids, more) \in ListsOfLayers
              /\ BagToSet(WithLayers(ids, more)) = BagToSet(ids) \cup BagToSet(more)
<1>1. PICK S \in SUBSET LayerIdSet : ids = SetToBag(S)
  BY DEF ListsOfLayers
<1>2. BagToSet(ids) = S
  BY <1>1, ListOfSet
<1>3. IsSetOf(LayerIdSet, ids)
  BY <1>1, <1>2, ListOfSet DEF IsSetOf
<1>4. ASSUME NEW x \in LayerIdSet, ~BagIn(x, ids)
      PROVE  /\ ids (+) SetToBag({x}) \in ListsOfLayers
             /\ BagToSet(ids (+) SetToBag({x})) = BagToSet(ids) \cup {x}
  <2>1. x \notin S
    BY <1>2, <1>4 DEF BagIn
  <2>2. ids (+) SetToBag({x}) = SetToBag(S \cup {x})
    BY <1>1, <2>1, PushedList, Zenon
  <2>3. S \cup {x} \in SUBSET LayerIdSet
    OBVIOUS
  <2>4. BagToSet(SetToBag(S \cup {x})) = S \cup {x}
    BY ListOfSet
  <2> QED BY <1>2, <2>2, <2>3, <2>4, Zenon DEF ListsOfLayers
<1>5. ASSUME NEW more \in ListsOfLayers
      PROVE  /\ WithLayers(ids, more) \in ListsOfLayers
             /\ BagToSet(WithLayers(ids, more)) = BagToSet(ids) \cup BagToSet(more)
  <2>1. PICK T \in SUBSET LayerIdSet : more = SetToBag(T)
    BY DEF ListsOfLayers
  <2>2. WithLayers(ids, more) = SetToBag(S \cup T)
    BY <1>1, <2>1, MergedLists, Zenon
  <2>3. S \cup T \in SUBSET LayerIdSet
    OBVIOUS
  <2>4. BagToSet(SetToBag(S \cup T)) = S \cup T /\ BagToSet(more) = T
    BY <2>1, ListOfSet
  <2> QED BY <1>2, <2>2, <2>3, <2>4, Zenon DEF ListsOfLayers
<1> QED BY <1>3, <1>4, <1>5

\* An empty list is one, and holds nothing.
LEMMA EmptyList == EmptyBag \in ListsOfLayers /\ BagToSet(EmptyBag) = {}
<1>1. EmptyBag \in ListsOfLayers
  BY Zenon DEF EmptyBag, ListsOfLayers
<1>2. BagToSet(EmptyBag) = {}
  BY ListOfSet, Zenon DEF EmptyBag
<1> QED BY <1>1, <1>2

\* What an accepted domain is.
LEMMA AcceptedDomainType ==
  ASSUME DomainTypes, NEW i \in DOMAIN acceptedDomains
  PROVE  /\ acceptedDomains[i] \in [id : DomainIds, layerIds : ListsOfLayers]
         /\ acceptedDomains[i].id \in DomainIds /\ acceptedDomains[i].id # NoId
         /\ acceptedDomains[i].layerIds \in ListsOfLayers
         /\ BagToSet(acceptedDomains[i].layerIds) \subseteq LayerIdSet
<1>1. acceptedDomains[i] \in [id : DomainIds, layerIds : ListsOfLayers]
  <2> DEFINE R == [id : DomainIds, layerIds : ListsOfLayers]
  <2>1. acceptedDomains \in Seq(R)
    BY DEF DomainTypes
  <2> HIDE DEF R
  <2>2. acceptedDomains[i] \in R
    BY <2>1, ElementOfSeq
  <2> QED BY <2>2 DEF R
<1>2. acceptedDomains[i].id \in DomainIds /\ acceptedDomains[i].layerIds \in ListsOfLayers
  BY <1>1
<1>3. BagToSet(acceptedDomains[i].layerIds) \subseteq LayerIdSet
  BY <1>2, ListsOfLayersGrow DEF IsSetOf
<1> QED BY <1>1, <1>2, <1>3, DomainsAssumption

\* The session of the domains begins with nothing accepted.
LEMMA BeginDomainsPreserves ==
  ASSUME DomainsInv, BeginDomains
  PROVE  DomainsInv'
<1>1. /\ phase = "layered" /\ phase' \in {"failed", "domains"}
      /\ domain = NoId /\ acceptedDomains = <<>> /\ acceptedLayerIds = EmptyBag
      /\ assignedLayer' = [id \in LayerIdSet |-> NoId]
      /\ UNCHANGED <<layers, domain, acceptedLayerIds, acceptedDomains>>
  BY DEF BeginDomains, DomainsInv, NoDomainsYet
<1>2. LayerIdSet' = LayerIdSet /\ ListsOfLayers' = ListsOfLayers
  BY <1>1 DEF LayerIdSet, ListsOfLayers
<1>3. DomainTypes'
  <2>1. acceptedDomains' \in Seq([id : DomainIds, layerIds : ListsOfLayers])
    BY <1>1
  <2>2. domain' \in DomainIds \cup {NoId}
    BY <1>1
  <2>3. acceptedLayerIds' \in ListsOfLayers
    BY <1>1, EmptyList
  <2>4. assignedLayer' \in [LayerIdSet -> DomainIds \cup {NoId}]
    BY <1>1
  <2> QED BY <1>2, <2>1, <2>2, <2>3, <2>4 DEF DomainTypes
<1>4. LayersAreHeld' /\ DomainsAreNamedApart'
  <2>1. BagToSet(acceptedLayerIds') = {} /\ DOMAIN acceptedDomains' = {}
    BY <1>1, EmptyList
  <2>2. \A id \in LayerIdSet : assignedLayer'[id] = NoId
    BY <1>1
  <2> QED BY <1>1, <1>2, <2>1, <2>2 DEF LayersAreHeld, DomainsAreNamedApart
<1>5. NoDomainsYet' /\ LayersInOneDomain' /\ DomainsAreExpanded'
  BY <1>1 DEF NoDomainsYet, LayersInOneDomain, DomainsAreExpanded
<1> QED BY <1>3, <1>4, <1>5 DEF DomainsInv

\* Another entry: dropped for its id, or at hand with nothing accepted.
LEMMA NextDomainPreserves ==
  ASSUME DomainsInv, NEW id \in DomainIds, NextDomain(id)
  PROVE  DomainsInv'
<1>1. /\ phase = "domains" /\ phase' = "domains" /\ domain = NoId
      /\ UNCHANGED <<layers, acceptedDomains, assignedLayer>>
      /\ \/ UNCHANGED <<domain, acceptedLayerIds>>
         \/ id \notin LayerIdSet /\ domain' = id /\ acceptedLayerIds' = EmptyBag
      /\ DomainTypes /\ LayersAreHeld /\ DomainsAreNamedApart
  BY DEF NextDomain, DomainsInv
<1>2. LayerIdSet' = LayerIdSet /\ ListsOfLayers' = ListsOfLayers
  BY <1>1 DEF LayerIdSet, ListsOfLayers
<1>3. DomainTypes'
  BY <1>1, <1>2, EmptyList DEF DomainTypes
<1>4. LayersAreHeld'
  BY <1>1, <1>2, EmptyList DEF LayersAreHeld
<1>5. DomainsAreNamedApart'
  BY <1>1, <1>2 DEF DomainsAreNamedApart
<1>6. NoDomainsYet' /\ LayersInOneDomain' /\ DomainsAreExpanded'
  BY <1>1 DEF NoDomainsYet, LayersInOneDomain, DomainsAreExpanded
<1> QED BY <1>3, <1>4, <1>5, <1>6 DEF DomainsInv

\* A layer is claimed only if no other domain has it.
LEMMA ClaimLayerPreserves ==
  ASSUME DomainsInv, NEW id \in LayerIds, ClaimLayer(id)
  PROVE  DomainsInv'
<1>1. /\ phase = "domains" /\ phase' = "domains" /\ domain # NoId
      /\ id \in LayerIdSet /\ ~BagIn(id, acceptedLayerIds)
      /\ assignedLayer[id] \in {NoId, domain}
      /\ assignedLayer' = [assignedLayer EXCEPT ![id] = domain]
      /\ acceptedLayerIds' = acceptedLayerIds (+) SetToBag({id})
      /\ UNCHANGED <<layers, domain, acceptedDomains>>
      /\ DomainTypes /\ LayersAreHeld /\ DomainsAreNamedApart
  BY DEF ClaimLayer, DomainsInv
<1>2. LayerIdSet' = LayerIdSet /\ ListsOfLayers' = ListsOfLayers
  BY <1>1 DEF LayerIdSet, ListsOfLayers
<1>3. /\ acceptedLayerIds' \in ListsOfLayers
      /\ BagToSet(acceptedLayerIds') = BagToSet(acceptedLayerIds) \cup {id}
      /\ BagToSet(acceptedLayerIds) \subseteq LayerIdSet
  <2>1. acceptedLayerIds \in ListsOfLayers
    BY <1>1 DEF DomainTypes
  <2>2. /\ acceptedLayerIds (+) SetToBag({id}) \in ListsOfLayers
        /\ BagToSet(acceptedLayerIds (+) SetToBag({id})) = BagToSet(acceptedLayerIds) \cup {id}
    BY <1>1, <2>1, ListsOfLayersGrow, Zenon
  <2>3. BagToSet(acceptedLayerIds) \subseteq LayerIdSet
    BY <2>1, ListsOfLayersGrow DEF IsSetOf
  <2> QED BY <1>1, <2>2, <2>3
<1>4. DomainTypes'
  BY <1>1, <1>2, <1>3 DEF DomainTypes
<1>5. LayersAreHeld'
  <2>1. /\ assignedLayer'[id] = domain
        /\ \A x \in LayerIdSet : x # id => assignedLayer'[x] = assignedLayer[x]
    BY <1>1 DEF DomainTypes
  <2>2. \A i \in DOMAIN acceptedDomains :
          /\ acceptedDomains[i].id # NoId
          /\ BagToSet(acceptedDomains[i].layerIds) \subseteq LayerIdSet
    BY <1>1, AcceptedDomainType
  <2>3. \A x \in BagToSet(acceptedLayerIds') : assignedLayer'[x] = domain'
    BY <1>1, <1>3, <2>1 DEF LayersAreHeld
  <2>4. \A i \in DOMAIN acceptedDomains' : \A x \in BagToSet(acceptedDomains'[i].layerIds) :
          assignedLayer'[x] = acceptedDomains'[i].id
    BY <1>1, <2>1, <2>2 DEF LayersAreHeld
  <2>5. \A x \in LayerIdSet : assignedLayer'[x] # NoId =>
          \/ assignedLayer'[x] = domain' /\ BagIn(x, acceptedLayerIds')
          \/ \E i \in DOMAIN acceptedDomains' :
               acceptedDomains'[i].id = assignedLayer'[x] /\ BagIn(x, acceptedDomains'[i].layerIds)
    BY <1>1, <1>3, <2>1 DEF LayersAreHeld, BagIn
  <2> QED BY <1>2, <2>3, <2>4, <2>5 DEF LayersAreHeld
<1>6. DomainsAreNamedApart'
  BY <1>1, <1>2 DEF DomainsAreNamedApart
<1>7. NoDomainsYet' /\ LayersInOneDomain' /\ DomainsAreExpanded'
  BY <1>1 DEF NoDomainsYet, LayersInOneDomain, DomainsAreExpanded
<1> QED BY <1>4, <1>5, <1>6, <1>7 DEF DomainsInv

\* The entry at hand is merged into the accepted domain of its id, becomes a new
\* one, or is no domain for want of a layer.
LEMMA EndDomainPreserves ==
  ASSUME DomainsInv, EndDomain
  PROVE  DomainsInv'
<1> DEFINE Entry == [id |-> domain, layerIds |-> acceptedLayerIds]
           R == [id : DomainIds, layerIds : ListsOfLayers]
<1>1. /\ phase = "domains" /\ phase' = "domains" /\ domain # NoId
      /\ domain' = NoId /\ acceptedLayerIds' = EmptyBag
      /\ UNCHANGED <<layers, assignedLayer>>
      /\ DomainTypes /\ LayersAreHeld /\ DomainsAreNamedApart
      /\ domain \in DomainIds /\ domain \notin LayerIdSet
      /\ acceptedLayerIds \in ListsOfLayers
  BY DEF EndDomain, DomainsInv, DomainTypes, DomainsAreNamedApart
<1>2. LayerIdSet' = LayerIdSet /\ ListsOfLayers' = ListsOfLayers
  BY <1>1 DEF LayerIdSet, ListsOfLayers
<1>3. NoDomainsYet' /\ LayersInOneDomain' /\ DomainsAreExpanded'
  BY <1>1 DEF NoDomainsYet, LayersInOneDomain, DomainsAreExpanded
<1>4. BagToSet(acceptedLayerIds') = {} /\ acceptedLayerIds' \in ListsOfLayers
  BY <1>1, EmptyList
\* Whatever the case: types, and what is held under which id.
<1>5. SUFFICES
        /\ acceptedDomains' \in Seq(R)
        /\ \A i, j \in DOMAIN acceptedDomains' : acceptedDomains'[i].id = acceptedDomains'[j].id => i = j
        /\ \A i \in DOMAIN acceptedDomains' :
             /\ acceptedDomains'[i].id \notin LayerIdSet
             /\ \A x \in BagToSet(acceptedDomains'[i].layerIds) :
                  assignedLayer[x] = acceptedDomains'[i].id
        /\ \A x \in LayerIdSet : assignedLayer[x] # NoId =>
             \E i \in DOMAIN acceptedDomains' :
               acceptedDomains'[i].id = assignedLayer[x] /\ BagIn(x, acceptedDomains'[i].layerIds)
  <2>1. ASSUME acceptedDomains' \in Seq(R) PROVE DomainTypes'
    BY <1>1, <1>2, <1>4, <2>1 DEF DomainTypes
  <2> HIDE DEF R
  <2> QED BY <1>1, <1>2, <1>3, <1>4, <2>1 DEF DomainsInv, LayersAreHeld, DomainsAreNamedApart
<1>6. \A i \in DOMAIN acceptedDomains :
        /\ acceptedDomains[i] \in R
        /\ acceptedDomains[i].layerIds \in ListsOfLayers
  BY <1>1, AcceptedDomainType
<1>7. CASE acceptedLayerIds = EmptyBag
  <2>1. acceptedDomains' = acceptedDomains
    BY <1>7 DEF EndDomain
  <2>2. \A x \in LayerIdSet : ~BagIn(x, acceptedLayerIds)
    BY <1>7, EmptyList DEF BagIn
  <2>3. acceptedDomains' \in Seq(R)
    BY <1>1, <2>1 DEF DomainTypes
  <2> QED BY <1>1, <2>1, <2>2, <2>3 DEF LayersAreHeld, DomainsAreNamedApart
<1>8. CASE acceptedLayerIds # EmptyBag /\ \E i \in DOMAIN acceptedDomains : acceptedDomains[i].id = domain
  <2>1. acceptedDomains' =
          [i \in DOMAIN acceptedDomains |->
             IF acceptedDomains[i].id = domain
               THEN [acceptedDomains[i] EXCEPT !.layerIds = WithLayers(@, acceptedLayerIds)]
               ELSE acceptedDomains[i]]
    BY <1>8 DEF EndDomain
  <2>2. \A i \in DOMAIN acceptedDomains :
          /\ WithLayers(acceptedDomains[i].layerIds, acceptedLayerIds) \in ListsOfLayers
          /\ BagToSet(WithLayers(acceptedDomains[i].layerIds, acceptedLayerIds))
               = BagToSet(acceptedDomains[i].layerIds) \cup BagToSet(acceptedLayerIds)
    BY <1>1, <1>6, ListsOfLayersGrow
  <2>3. DOMAIN acceptedDomains' = DOMAIN acceptedDomains
    BY <2>1
  <2>4. \A i \in DOMAIN acceptedDomains :
          /\ acceptedDomains'[i] \in R
          /\ acceptedDomains'[i].id = acceptedDomains[i].id
          /\ acceptedDomains[i].id = domain =>
               BagToSet(acceptedDomains'[i].layerIds)
                 = BagToSet(acceptedDomains[i].layerIds) \cup BagToSet(acceptedLayerIds)
          /\ acceptedDomains[i].id # domain => acceptedDomains'[i] = acceptedDomains[i]
    BY <1>6, <2>1, <2>2
  <2>5. acceptedDomains' \in Seq(R)
    <3>1. DOMAIN acceptedDomains = 1..Len(acceptedDomains) /\ Len(acceptedDomains) \in Nat
      BY <1>1 DEF DomainTypes
    <3> QED BY <2>1, <2>3, <2>4, <3>1, IsASeq
  <2> HIDE DEF R
  <2>6. \A i, j \in DOMAIN acceptedDomains' : acceptedDomains'[i].id = acceptedDomains'[j].id => i = j
    BY <1>1, <2>3, <2>4 DEF DomainsAreNamedApart
  <2>7. \A i \in DOMAIN acceptedDomains' :
             /\ acceptedDomains'[i].id \notin LayerIdSet
             /\ \A x \in BagToSet(acceptedDomains'[i].layerIds) :
                  assignedLayer[x] = acceptedDomains'[i].id
    BY <1>1, <2>3, <2>4 DEF DomainsAreNamedApart, LayersAreHeld
  <2>8. \A x \in LayerIdSet : assignedLayer[x] # NoId =>
             \E i \in DOMAIN acceptedDomains' :
               acceptedDomains'[i].id = assignedLayer[x] /\ BagIn(x, acceptedDomains'[i].layerIds)
    BY <1>1, <1>8, <2>3, <2>4 DEF LayersAreHeld, BagIn
  <2> QED BY <2>5, <2>6, <2>7, <2>8
<1>9. CASE acceptedLayerIds # EmptyBag /\ \A i \in DOMAIN acceptedDomains : acceptedDomains[i].id # domain
  <2>1. acceptedDomains' = Append(acceptedDomains, Entry)
    BY <1>9 DEF EndDomain
  <2>2. Entry \in R /\ Entry.id = domain /\ Entry.layerIds = acceptedLayerIds
    BY <1>1
  <2>3. /\ acceptedDomains' \in Seq(R)
        /\ DOMAIN acceptedDomains' = 1..(Len(acceptedDomains) + 1)
        /\ DOMAIN acceptedDomains = 1..Len(acceptedDomains) /\ Len(acceptedDomains) \in Nat
        /\ \A i \in 1..Len(acceptedDomains) : acceptedDomains'[i] = acceptedDomains[i]
        /\ acceptedDomains'[Len(acceptedDomains) + 1] = Entry
    <3>1. acceptedDomains \in Seq(R)
      BY <1>1 DEF DomainTypes
    <3> HIDE DEF Entry, R
    <3> QED BY <2>1, <2>2, <3>1, AppendProperties
  <2> HIDE DEF Entry, R
  <2>4. /\ Len(acceptedDomains) + 1 \in DOMAIN acceptedDomains'
        /\ \A i \in DOMAIN acceptedDomains :
             i \in DOMAIN acceptedDomains' /\ acceptedDomains'[i] = acceptedDomains[i]
        /\ \A i \in DOMAIN acceptedDomains' :
             i \in DOMAIN acceptedDomains \/ i = Len(acceptedDomains) + 1
    BY <2>3
  <2>5. \A i, j \in DOMAIN acceptedDomains' : acceptedDomains'[i].id = acceptedDomains'[j].id => i = j
    BY <1>1, <1>9, <2>2, <2>3, <2>4 DEF DomainsAreNamedApart
  <2>6. \A i \in DOMAIN acceptedDomains' :
             /\ acceptedDomains'[i].id \notin LayerIdSet
             /\ \A x \in BagToSet(acceptedDomains'[i].layerIds) :
                  assignedLayer[x] = acceptedDomains'[i].id
    BY <1>1, <2>2, <2>3, <2>4 DEF DomainsAreNamedApart, LayersAreHeld
  <2>7. \A x \in LayerIdSet : assignedLayer[x] # NoId =>
             \E i \in DOMAIN acceptedDomains' :
               acceptedDomains'[i].id = assignedLayer[x] /\ BagIn(x, acceptedDomains'[i].layerIds)
    BY <1>1, <2>2, <2>3, <2>4 DEF LayersAreHeld
  <2> QED BY <2>3, <2>5, <2>6, <2>7
<1> QED BY <1>7, <1>8, <1>9

\* What the sweep makes of the accepted domains when the loops are done: each
\* layer is in one of them, the ids are still apart, and a domain holds what was
\* assigned to it, or what was assigned to nobody if it is the shared one.
LEMMA SweptDomainsHold ==
  ASSUME DomainTypes, LayersAreHeld, DomainsAreNamedApart, domain = NoId
  PROVE  /\ \A i \in DOMAIN SweptDomains :
              /\ SweptDomains[i].id \in DomainIds
              /\ SweptDomains[i].id \notin LayerIdSet \/ SweptDomains[i].id = DomainShared
              /\ SweptDomains[i].layerIds \in ListsOfLayers
              /\ \A x \in BagToSet(SweptDomains[i].layerIds) :
                   \/ assignedLayer[x] = SweptDomains[i].id
                   \/ assignedLayer[x] = NoId /\ SweptDomains[i].id = DomainShared
         /\ \A i, j \in DOMAIN SweptDomains : SweptDomains[i].id = SweptDomains[j].id => i = j
         /\ \A x \in LayerIdSet : \E i \in DOMAIN SweptDomains : BagIn(x, SweptDomains[i].layerIds)
<1> DEFINE R == [id : DomainIds, layerIds : ListsOfLayers]
           U == SetToBag(UnassignedLayers)
<1>1. \A i \in DOMAIN acceptedDomains :
        /\ acceptedDomains[i] \in R
        /\ acceptedDomains[i].id \in DomainIds
        /\ acceptedDomains[i].id \notin LayerIdSet
        /\ acceptedDomains[i].layerIds \in ListsOfLayers
        /\ \A x \in BagToSet(acceptedDomains[i].layerIds) : assignedLayer[x] = acceptedDomains[i].id
  BY AcceptedDomainType DEF LayersAreHeld, DomainsAreNamedApart
<1>2. \A x \in LayerIdSet : x \in UnassignedLayers \/
        \E i \in DOMAIN acceptedDomains : BagIn(x, acceptedDomains[i].layerIds)
  BY DEF LayersAreHeld, UnassignedLayers
<1>3. U \in ListsOfLayers /\ BagToSet(U) = UnassignedLayers
  <2>1. UnassignedLayers \in SUBSET LayerIdSet
    BY DEF UnassignedLayers
  <2> QED BY <2>1, ListOfSet, Zenon DEF ListsOfLayers
<1>4. \A x \in BagToSet(U) : assignedLayer[x] = NoId
  BY <1>3 DEF UnassignedLayers
<1> HIDE DEF U
<1>5. CASE UnassignedLayers = {}
  <2>1. SweptDomains = acceptedDomains
    BY <1>5 DEF SweptDomains
  <2> QED BY <1>1, <1>2, <1>5, <2>1 DEF DomainsAreNamedApart
<1>6. CASE UnassignedLayers # {} /\ \E i \in DOMAIN acceptedDomains : acceptedDomains[i].id = DomainShared
  <2>1. SweptDomains =
          [i \in DOMAIN acceptedDomains |->
             IF acceptedDomains[i].id = DomainShared
               THEN [acceptedDomains[i] EXCEPT !.layerIds = WithLayers(@, U)]
               ELSE acceptedDomains[i]]
    BY <1>6 DEF SweptDomains, U
  <2>2. \A i \in DOMAIN acceptedDomains :
          /\ WithLayers(acceptedDomains[i].layerIds, U) \in ListsOfLayers
          /\ BagToSet(WithLayers(acceptedDomains[i].layerIds, U))
               = BagToSet(acceptedDomains[i].layerIds) \cup BagToSet(U)
    BY <1>1, <1>3, ListsOfLayersGrow
  <2>3. DOMAIN SweptDomains = DOMAIN acceptedDomains
    BY <2>1
  <2>4. \A i \in DOMAIN acceptedDomains :
          /\ SweptDomains[i].id = acceptedDomains[i].id
          /\ SweptDomains[i].layerIds \in ListsOfLayers
          /\ acceptedDomains[i].id = DomainShared =>
               BagToSet(SweptDomains[i].layerIds) = BagToSet(acceptedDomains[i].layerIds) \cup BagToSet(U)
          /\ acceptedDomains[i].id # DomainShared => SweptDomains[i] = acceptedDomains[i]
    BY <1>1, <2>1, <2>2
  <2>5. \A i \in DOMAIN acceptedDomains :
          BagToSet(acceptedDomains[i].layerIds) \subseteq BagToSet(SweptDomains[i].layerIds)
    BY <2>4
  <2>6. \A i \in DOMAIN SweptDomains :
              /\ SweptDomains[i].id \in DomainIds
              /\ SweptDomains[i].id \notin LayerIdSet \/ SweptDomains[i].id = DomainShared
              /\ SweptDomains[i].layerIds \in ListsOfLayers
    BY <1>1, <2>3, <2>4
  <2>7. \A i \in DOMAIN SweptDomains : \A x \in BagToSet(SweptDomains[i].layerIds) :
                   \/ assignedLayer[x] = SweptDomains[i].id
                   \/ assignedLayer[x] = NoId /\ SweptDomains[i].id = DomainShared
    BY <1>1, <1>4, <2>3, <2>4
  <2>8. \A i, j \in DOMAIN SweptDomains : SweptDomains[i].id = SweptDomains[j].id => i = j
    BY <2>3, <2>4 DEF DomainsAreNamedApart
  <2>9. \A x \in LayerIdSet : \E i \in DOMAIN SweptDomains : BagIn(x, SweptDomains[i].layerIds)
    BY <1>2, <1>3, <1>6, <2>3, <2>4, <2>5 DEF BagIn
  <2> QED BY <2>6, <2>7, <2>8, <2>9
<1>7. CASE UnassignedLayers # {} /\ \A i \in DOMAIN acceptedDomains : acceptedDomains[i].id # DomainShared
  <2> DEFINE Shared == [id |-> DomainShared, layerIds |-> U]
  <2>1. SweptDomains = Append(acceptedDomains, Shared)
    BY <1>7 DEF SweptDomains, U
  <2>2. Shared \in R /\ Shared.id = DomainShared /\ Shared.layerIds = U
    BY <1>3, DomainsAssumption
  <2>3. /\ DOMAIN SweptDomains = 1..(Len(acceptedDomains) + 1)
        /\ DOMAIN acceptedDomains = 1..Len(acceptedDomains) /\ Len(acceptedDomains) \in Nat
        /\ \A i \in 1..Len(acceptedDomains) : SweptDomains[i] = acceptedDomains[i]
        /\ SweptDomains[Len(acceptedDomains) + 1] = Shared
    <3>1. acceptedDomains \in Seq(R)
      BY DEF DomainTypes
    <3> HIDE DEF Shared, R
    <3> QED BY <2>1, <2>2, <3>1, AppendProperties
  <2> HIDE DEF Shared
  <2>4. /\ Len(acceptedDomains) + 1 \in DOMAIN SweptDomains
        /\ \A i \in DOMAIN acceptedDomains :
             i \in DOMAIN SweptDomains /\ SweptDomains[i] = acceptedDomains[i]
        /\ \A i \in DOMAIN SweptDomains :
             i \in DOMAIN acceptedDomains \/ i = Len(acceptedDomains) + 1
    BY <2>3
  <2>5. \A i \in DOMAIN SweptDomains :
              /\ SweptDomains[i].id \in DomainIds
              /\ SweptDomains[i].id \notin LayerIdSet \/ SweptDomains[i].id = DomainShared
              /\ SweptDomains[i].layerIds \in ListsOfLayers
    BY <1>1, <1>3, <2>2, <2>3, <2>4, DomainsAssumption
  <2>6. \A i \in DOMAIN SweptDomains : \A x \in BagToSet(SweptDomains[i].layerIds) :
                   \/ assignedLayer[x] = SweptDomains[i].id
                   \/ assignedLayer[x] = NoId /\ SweptDomains[i].id = DomainShared
    BY <1>1, <1>4, <2>2, <2>3, <2>4
  <2>7. \A i, j \in DOMAIN SweptDomains : SweptDomains[i].id = SweptDomains[j].id => i = j
    BY <1>7, <2>2, <2>3, <2>4 DEF DomainsAreNamedApart
  <2>8. \A x \in LayerIdSet : \E i \in DOMAIN SweptDomains : BagIn(x, SweptDomains[i].layerIds)
    BY <1>2, <1>3, <2>2, <2>3, <2>4 DEF BagIn
  <2> QED BY <2>5, <2>6, <2>7, <2>8
<1> QED BY <1>5, <1>6, <1>7

\* What follows the loop: the swept domains partition the layers.
LEMMA AssignLayersPreserves ==
  ASSUME DomainsInv, AssignLayers
  PROVE  DomainsInv'
<1> DEFINE D == DOMAIN SweptDomains
           Result(i) == [id |-> SweptDomains[i].id, layerIds |-> SweptDomains[i].layerIds,
                         fileIds |-> FilesOfLayers(SweptDomains[i].layerIds)]
<1>1. /\ phase = "domains" /\ phase' = "assemble" /\ domain = NoId
      /\ UNCHANGED layers
      /\ domains' = {[id |-> d.id, layerIds |-> d.layerIds, fileIds |-> FilesOfLayers(d.layerIds)] :
                       d \in {e \in Range(SweptDomains) : e.layerIds # EmptyBag}}
      /\ DomainTypes /\ LayersAreHeld /\ DomainsAreNamedApart
  BY DEF AssignLayers, DomainsInv
<1>2. LayerIdSet' = LayerIdSet /\ ListsOfLayers' = ListsOfLayers
  BY <1>1 DEF LayerIdSet, ListsOfLayers
<1>3. /\ \A d \in domains' : \E i \in D : d = Result(i) /\ SweptDomains[i].layerIds # EmptyBag
      /\ \A i \in D : SweptDomains[i].layerIds # EmptyBag => Result(i) \in domains'
  BY <1>1 DEF Range
<1>4. \A i \in D : /\ Result(i).id = SweptDomains[i].id
                   /\ Result(i).layerIds = SweptDomains[i].layerIds
                   /\ Result(i).fileIds = FilesOfLayers(SweptDomains[i].layerIds)
  OBVIOUS
<1>5. DomainsAreExpanded'
  <2>1. ASSUME NEW d \in domains'
        PROVE  d.layerIds \in ListsOfLayers /\ d.fileIds = FilesOfLayers(d.layerIds)
    <3>1. PICK i \in D : d = Result(i)
      BY <1>3
    <3>2. SweptDomains[i].layerIds \in ListsOfLayers
      BY <1>1, SweptDomainsHold
    <3> HIDE DEF Result
    <3> QED BY <1>4, <3>1, <3>2
  <2> QED BY <1>1, <1>2, <2>1 DEF DomainsAreExpanded, FilesOfLayers
<1> HIDE DEF Result
<1>6. \A id \in LayerIdSet : \E d \in domains' : BagIn(id, d.layerIds)
  <2> SUFFICES ASSUME NEW id \in LayerIdSet PROVE \E d \in domains' : BagIn(id, d.layerIds)
    OBVIOUS
  <2>1. PICK i \in D : BagIn(id, SweptDomains[i].layerIds)
    BY <1>1, SweptDomainsHold
  <2>2. SweptDomains[i].layerIds # EmptyBag
    BY <2>1, EmptyList DEF BagIn
  <2> QED BY <1>3, <1>4, <2>1, <2>2
<1>7. \A i, j \in D : \A x \in LayerIdSet :
        x \in BagToSet(SweptDomains[i].layerIds) /\ x \in BagToSet(SweptDomains[j].layerIds) => i = j
  <2>1. \A i \in D : SweptDomains[i].id # NoId
    BY <1>1, SweptDomainsHold, DomainsAssumption
  <2> QED BY <1>1, <2>1, SweptDomainsHold
<1>8. \A i \in D : IsSetOf(LayerIdSet, SweptDomains[i].layerIds)
  BY <1>1, SweptDomainsHold, ListsOfLayersGrow
<1>9. \A d, e \in domains' :
        BagToSet(d.layerIds) \cap BagToSet(e.layerIds) # {} \/ d.id = e.id => d = e
  <2> SUFFICES ASSUME NEW d \in domains', NEW e \in domains',
                      BagToSet(d.layerIds) \cap BagToSet(e.layerIds) # {} \/ d.id = e.id
               PROVE  d = e
    OBVIOUS
  <2>1. PICK i \in D : d = Result(i)
    BY <1>3
  <2>2. PICK j \in D : e = Result(j)
    BY <1>3
  <2>3. CASE d.id = e.id
    <3>1. SweptDomains[i].id = SweptDomains[j].id
      BY <1>4, <2>1, <2>2, <2>3
    <3>2. i = j
      BY <1>1, <3>1, SweptDomainsHold
    <3> QED BY <2>1, <2>2, <3>2
  <2>4. CASE BagToSet(d.layerIds) \cap BagToSet(e.layerIds) # {}
    <3>1. PICK x : x \in BagToSet(d.layerIds) /\ x \in BagToSet(e.layerIds)
      BY <2>4
    <3>2. x \in BagToSet(SweptDomains[i].layerIds) /\ x \in BagToSet(SweptDomains[j].layerIds)
      BY <1>4, <2>1, <2>2, <3>1
    <3>3. i = j
      BY <1>7, <1>8, <3>2 DEF IsSetOf
    <3> QED BY <2>1, <2>2, <3>3
  <2> QED BY <2>3, <2>4
<1>10. \A d \in domains' : d.layerIds # EmptyBag /\ IsSetOf(LayerIdSet, d.layerIds)
  BY <1>3, <1>4, <1>8
<1>11. {d.id : d \in domains'} \cap LayerIdSet \subseteq {DomainShared}
  BY <1>1, <1>3, <1>4, SweptDomainsHold
<1>12. LayersInOneDomain'
  BY <1>1, <1>2, <1>6, <1>9, <1>10, <1>11 DEF LayersInOneDomain
<1> QED BY <1>1, <1>5, <1>12 DEF DomainsInv, NoDomainsYet

\* What stays as it is while the layers are made, and afterwards until the tour
\* forgets the domains.
LEMMA OtherStepsPreserveDomains ==
  ASSUME DomainsInv,
         \/ UNCHANGED <<phase, layers, domains, domainLocals>>
         \/ /\ UNCHANGED <<domains, domainLocals>>
            /\ phase \in {"start", "layers"} /\ phase' \in {"layers", "layered", "failed"}
         \/ UNCHANGED <<layers, domains, domainLocals>> /\ phase = "assemble" /\ phase' = "assembled"
         \/ phase' \in {"tour", "done", "failed"}
  PROVE  DomainsInv'
<1>1. CASE UNCHANGED <<phase, layers, domains, domainLocals>>
  BY <1>1 DEF domainLocals, DomainsInv, NoDomainsYet, DomainTypes, LayersAreHeld, DomainsAreNamedApart,
              LayersInOneDomain, DomainsAreExpanded, FilesOfLayers, LayerIdSet, ListsOfLayers
<1>2. CASE /\ UNCHANGED <<domains, domainLocals>>
           /\ phase \in {"start", "layers"} /\ phase' \in {"layers", "layered", "failed"}
  BY <1>2 DEF domainLocals, DomainsInv, NoDomainsYet, LayersInOneDomain, DomainsAreExpanded
<1>3. CASE UNCHANGED <<layers, domains, domainLocals>> /\ phase = "assemble" /\ phase' = "assembled"
  BY <1>3 DEF DomainsInv, NoDomainsYet, LayersInOneDomain, DomainsAreExpanded, FilesOfLayers,
              LayerIdSet, ListsOfLayers
<1>4. CASE phase' \in {"tour", "done", "failed"}
  BY <1>4 DEF DomainsInv, NoDomainsYet, LayersInOneDomain, DomainsAreExpanded
<1> QED BY <1>1, <1>2, <1>3, <1>4

\* Every reachable state of the synthesis keeps the invariant of the domains.
THEOREM SynthesisDomains == Spec => []DomainsInv
<1>1. Init => DomainsInv
  BY DEF Init, LayersInit, DomainsInit, DomainsInv, NoDomainsYet, LayersInOneDomain, DomainsAreExpanded
<1>2. DomainsInv /\ [Next]_vars => DomainsInv'
  <2> SUFFICES ASSUME DomainsInv, [Next]_vars PROVE DomainsInv'
    OBVIOUS
  <2>1. CASE UNCHANGED vars
    BY <2>1, OtherStepsPreserveDomains DEF vars
  <2>2. CASE LayersNext /\ UNCHANGED <<domains, domainLocals>>
    <3>1. \/ UNCHANGED <<phase, layers>>
          \/ phase \in {"start", "layers"} /\ phase' \in {"layers", "layered", "failed"}
      BY <2>2 DEF LayersNext, BeginLayers, NextLayer, ClaimGroup, EndLayer, AssignFiles,
                  ReplyWithoutLayers
    <3> QED BY <2>2, <3>1, OtherStepsPreserveDomains
  <2>3. CASE BeginDomains
    BY <2>3, BeginDomainsPreserves
  <2>4. CASE \E id \in DomainIds : NextDomain(id)
    BY <2>4, NextDomainPreserves
  <2>5. CASE \E id \in LayerIds : ClaimLayer(id)
    BY <2>5, ClaimLayerPreserves
  <2>6. CASE EndDomain
    BY <2>6, EndDomainPreserves
  <2>7. CASE AssignLayers
    BY <2>7, AssignLayersPreserves
  <2>8. CASE ReplyWithoutDomains
    BY <2>8, OtherStepsPreserveDomains DEF ReplyWithoutDomains
  <2>9. CASE \E analysed \in SUBSET Files : Assemble(analysed)
    <3>1. UNCHANGED <<layers, domains, domainLocals>> /\ phase = "assemble"
          /\ phase' \in {"assembled", "failed"}
      BY <2>9 DEF Assemble
    <3> QED BY <3>1, OtherStepsPreserveDomains
  <2>10. CASE TourNext
    <3>1. \/ UNCHANGED <<phase, layers, domains, domainLocals>>
          \/ phase' \in {"tour", "done", "failed"}
      BY <2>10 DEF TourNext, BeginTour, TakeStep, NumberSteps, ReplyWithoutSteps
    <3> QED BY <3>1, OtherStepsPreserveDomains
  <2> QED BY <2>1, <2>2, <2>3, <2>4, <2>5, <2>6, <2>7, <2>8, <2>9, <2>10 DEF Next, DomainsNext
<1> QED BY <1>1, <1>2, PTL DEF Spec

\* Whatever domains a model asks for, each layer is in exactly one of them, once,
\* and no domain bears the id of a layer, except the shared one of the sweep.
THEOREM SynthesisLayersInOneDomain == Spec => []LayersInOneDomain
<1>1. DomainsInv => LayersInOneDomain
  BY DEF DomainsInv
<1> QED BY SynthesisDomains, <1>1, PTL

-----------------------------------------------------------------------------
\* The nth of equal symbols is told apart from the others by its number.
LEMMA SymbolNodesApart ==
  ASSUME NEW f \in Files, NEW i \in DOMAIN Symbols[f], NEW j \in DOMAIN Symbols[f],
         SymbolNode(f, i) = SymbolNode(f, j)
  PROVE  i = j
<1> DEFINE Same(k) == {m \in 1..k : Symbols[f][m] = Symbols[f][k]}
           R == [kind : {"function", "class"}, name : STRING]
<1>1. Symbols[f] \in Seq(R)
  BY AssemblerAssumption, Zenon
<1>2. DOMAIN Symbols[f] = 1..Len(Symbols[f]) /\ Len(Symbols[f]) \in Nat
  BY <1>1
<1>3. Symbols[f][i] \in R /\ Symbols[f][j] \in R
  <2> HIDE DEF R
  <2> QED BY <1>1, ElementOfSeq
<1>4. /\ Symbols[f][i].kind = Symbols[f][j].kind /\ Symbols[f][i].name = Symbols[f][j].name
      /\ Cardinality(Same(i)) = Cardinality(Same(j))
  BY DEF SymbolNode
<1>5. Symbols[f][i] = Symbols[f][j]
  BY <1>3, <1>4
\* The later of two equal symbols counts the earlier one and itself.
<1>6. \A k, m \in DOMAIN Symbols[f] :
        k < m /\ Symbols[f][k] = Symbols[f][m] => Cardinality(Same(k)) < Cardinality(Same(m))
  <2> SUFFICES ASSUME NEW k \in DOMAIN Symbols[f], NEW m \in DOMAIN Symbols[f],
                      k < m, Symbols[f][k] = Symbols[f][m]
               PROVE  Cardinality(Same(k)) < Cardinality(Same(m))
    OBVIOUS
  <2>1. k \in Nat /\ m \in Nat
    BY <1>2
  <2>2. Same(k) \subseteq Same(m) /\ m \in Same(m) /\ m \notin Same(k)
    BY <1>2, <2>1
  <2>3. Same(m) \subseteq 1..m
    OBVIOUS
  <2> HIDE DEF Same
  <2>4. IsFiniteSet(1..m)
    BY <2>1, FS_Interval
  <2>5. IsFiniteSet(Same(m))
    BY <2>3, <2>4, FS_Subset
  <2>6. IsFiniteSet(Same(k)) /\ Cardinality(Same(k)) <= Cardinality(Same(m))
        /\ (Cardinality(Same(k)) = Cardinality(Same(m)) => Same(k) = Same(m))
    BY <2>2, <2>5, FS_Subset
  <2>7. Cardinality(Same(k)) \in Nat /\ Cardinality(Same(m)) \in Nat
    BY <2>5, <2>6, FS_CardinalityType
  <2> QED BY <2>2, <2>6, <2>7
<1>7. Cardinality(Same(i)) \in Nat
  <2>1. IsFiniteSet(1..i) /\ Same(i) \subseteq 1..i
    BY <1>2, FS_Interval
  <2>2. IsFiniteSet(Same(i))
    BY <2>1, FS_Subset
  <2> QED BY <2>2, FS_CardinalityType
<1> HIDE DEF Same
<1>8. ~(i < j) /\ ~(j < i)
  BY <1>4, <1>5, <1>6, <1>7
<1> QED BY <1>2, <1>8

\* A file with an analysis has as many nodes of symbols as it has symbols, one
\* without has none.
LEMMA EverySymbolHasANode ==
  ASSUME NEW analysed \in SUBSET Files, NEW f \in Files
  PROVE  LET own == {n \in Nodes(analysed) : n.path = f /\ n.kind # "file"}
         IN /\ own = IF f \in analysed THEN {SymbolNode(f, i) : i \in DOMAIN Symbols[f]} ELSE {}
            /\ Cardinality(own) \in {0, Len(Symbols[f])}
<1> DEFINE own == {n \in Nodes(analysed) : n.path = f /\ n.kind # "file"}
           Own == {SymbolNode(f, i) : i \in DOMAIN Symbols[f]}
           R == [kind : {"function", "class"}, name : STRING]
<1>1. \A h \in Files : Symbols[h] \in Seq(R)
  BY AssemblerAssumption, Zenon
<1>2. \A h \in Files : \A i \in DOMAIN Symbols[h] : Symbols[h][i] \in R
  <2> HIDE DEF R
  <2> QED BY <1>1, ElementOfSeq
<1>3. \A h \in Files : \A i \in DOMAIN Symbols[h] :
        SymbolNode(h, i).path = h /\ SymbolNode(h, i).kind # "file"
  BY <1>2 DEF SymbolNode
<1>4. \A h \in Files : FileNode(h).kind = "file"
  BY DEF FileNode
<1>5. \A n \in Nodes(analysed) :
        \/ \E h \in Files : n = FileNode(h)
        \/ \E h \in analysed : \E i \in DOMAIN Symbols[h] : n = SymbolNode(h, i)
  BY DEF Nodes
<1>6. \A h \in analysed : \A i \in DOMAIN Symbols[h] : SymbolNode(h, i) \in Nodes(analysed)
  BY DEF Nodes
<1>7. own = IF f \in analysed THEN Own ELSE {}
  <2>1. \A n \in own : f \in analysed /\ n \in Own
    <3> SUFFICES ASSUME NEW n \in own PROVE f \in analysed /\ n \in Own
      OBVIOUS
    <3>1. PICK h \in analysed : \E i \in DOMAIN Symbols[h] : n = SymbolNode(h, i)
      BY <1>4, <1>5
    <3>2. PICK i \in DOMAIN Symbols[h] : n = SymbolNode(h, i)
      BY <3>1
    <3>3. h = f
      BY <1>3, <3>2
    <3> QED BY <3>2, <3>3
  <2>2. f \in analysed => \A n \in Own : n \in own
    BY <1>3, <1>6
  <2> HIDE DEF own, Own
  <2> QED BY <2>1, <2>2
<1>8. Cardinality(Own) = Len(Symbols[f])
  <2>1. DOMAIN Symbols[f] = 1..Len(Symbols[f]) /\ Len(Symbols[f]) \in Nat
    BY <1>1
  <2> DEFINE F == [i \in 1..Len(Symbols[f]) |-> SymbolNode(f, i)]
  <2>2. F \in Bijection(1..Len(Symbols[f]), Own)
    <3>1. F \in Injection(1..Len(Symbols[f]), Own)
      BY <2>1, SymbolNodesApart DEF Injection, IsInjective
    <3>2. \A n \in Own : \E i \in 1..Len(Symbols[f]) : F[i] = n
      BY <2>1
    <3> QED BY <3>1, <3>2 DEF Bijection, Surjection, Injection
  <2>3. ExistsBijection(1..Len(Symbols[f]), Own)
    BY <2>2 DEF ExistsBijection
  <2>4. IsFiniteSet(1..Len(Symbols[f])) /\ Cardinality(1..Len(Symbols[f])) = Len(Symbols[f])
    BY <2>1, FS_Interval
  <2> QED BY <2>3, <2>4, FS_Bijection
<1>9. Cardinality({}) = 0
  BY FS_EmptySet
<1> HIDE DEF own, Own
<1>10. Cardinality(own) \in {0, Len(Symbols[f])}
  BY <1>7, <1>8, <1>9
<1> QED BY <1>7, <1>10 DEF own, Own

\* An assembled graph is what Nodes and Edges make of some analyses, until the
\* tour begins.
THEOREM SynthesisGraph == Spec => []GraphIsAssembled
<1>1. Init => GraphIsAssembled
  BY DEF Init, LayersInit, GraphIsAssembled
<1>2. GraphIsAssembled /\ [Next]_vars => GraphIsAssembled'
  <2> SUFFICES ASSUME GraphIsAssembled, [Next]_vars PROVE GraphIsAssembled'
    OBVIOUS
  <2>1. CASE UNCHANGED vars
    BY <2>1 DEF vars, graphVars, GraphIsAssembled
  <2>2. CASE \E analysed \in SUBSET Files : Assemble(analysed)
    BY <2>2 DEF Assemble, GraphIsAssembled, Nodes, Edges
  <2>3. CASE LayersNext \/ DomainsNext \/ TourNext
    <3>1. phase' # "assembled"
      BY <2>3 DEF LayersNext, BeginLayers, NextLayer, ClaimGroup, EndLayer, AssignFiles,
                  ReplyWithoutLayers, DomainsNext, BeginDomains, NextDomain, ClaimLayer, EndDomain,
                  AssignLayers, ReplyWithoutDomains, TourNext, BeginTour, TakeStep, NumberSteps,
                  ReplyWithoutSteps
    <3> QED BY <3>1 DEF GraphIsAssembled
  <2> QED BY <2>1, <2>2, <2>3 DEF Next
<1> QED BY <1>1, <1>2, PTL DEF Spec

\* The assembler finds nothing to throw at in what the normalizers hand over, and
\* loses no symbol, overloads included: for any project, and whatever the model
\* replied to both prompts.
THEOREM SynthesisAssembles == Spec => []AssemblySucceeds
<1>1. LayersInv /\ DomainsInv /\ GraphIsAssembled => AssemblySucceeds
  <2> SUFFICES ASSUME LayersInv, DomainsInv, GraphIsAssembled PROVE AssemblySucceeds
    OBVIOUS
  <2>1. ASSUME phase = "assemble" PROVE ~LayersAreBad
    <3>1. FilesInOneLayer
      BY DEF LayersInv
    <3> QED BY <2>1, <3>1 DEF FilesInOneLayer, LayersAreBad
  <2>2. ASSUME phase = "assemble" PROVE ~DomainsAreBad
    <3>1. LayersInOneDomain /\ DomainsAreExpanded
      BY DEF DomainsInv
    <3>2. LayerIdSet \subseteq UNION {BagToSet(d.layerIds) : d \in domains}
      BY <2>2, <3>1 DEF LayersInOneDomain, BagIn
    <3> QED BY <2>2, <3>1, <3>2 DEF LayersInOneDomain, DomainsAreExpanded, DomainsAreBad
  <2>3. ASSUME phase = "assembled"
        PROVE  /\ \A e \in edges : {e.from, e.to} \subseteq nodes
               /\ \A f \in Files :
                    LET own == {n \in nodes : n.path = f /\ n.kind # "file"}
                    IN /\ Cardinality(own) \in {0, Len(Symbols[f])}
                       /\ \A n \in own :
                            [from |-> FileNode(f), to |-> n, type |-> "contains"] \in edges
    <3>1. PICK analysed \in SUBSET Files : nodes = Nodes(analysed) /\ edges = Edges(analysed)
      BY <2>3 DEF GraphIsAssembled
    <3>2. \A e \in edges : {e.from, e.to} \subseteq nodes
      BY <3>1 DEF Edges, Nodes
    <3>3. ASSUME NEW f \in Files
          PROVE  LET own == {n \in nodes : n.path = f /\ n.kind # "file"}
                 IN /\ Cardinality(own) \in {0, Len(Symbols[f])}
                    /\ \A n \in own :
                         [from |-> FileNode(f), to |-> n, type |-> "contains"] \in edges
      <4> DEFINE own == {n \in nodes : n.path = f /\ n.kind # "file"}
      <4>1. /\ own = IF f \in analysed THEN {SymbolNode(f, i) : i \in DOMAIN Symbols[f]} ELSE {}
            /\ Cardinality(own) \in {0, Len(Symbols[f])}
        BY <3>1, EverySymbolHasANode
      <4> HIDE DEF own
      <4>2. \A n \in own : [from |-> FileNode(f), to |-> n, type |-> "contains"] \in edges
        BY <3>1, <4>1 DEF Edges
      <4> QED BY <4>1, <4>2 DEF own
    <3> QED BY <3>2, <3>3
  <2> QED BY <2>1, <2>2, <2>3 DEF AssemblySucceeds
<1> QED BY SynthesisLayers, SynthesisDomains, SynthesisGraph, <1>1, PTL

-----------------------------------------------------------------------------
\* What the filter leaves of a list are nodes of the graph.
LEMMA FilteredList ==
  ASSUME NEW ids \in PrimaryLists
  PROVE  FilterKnown(ids) \in ListsOfNodes
<1>1. PICK S : ids \in [S -> 1..MaxPrimary]
  BY DEF PrimaryLists
<1>2. BagToSet(ids) = S
  BY <1>1 DEF BagToSet
<1>3. \A n \in S : ids[n] \in Nat
  BY <1>1
<1>4. FilterKnown(ids) \in [S \cap nodes -> Nat]
  BY <1>2, <1>3 DEF FilterKnown
<1>5. S \cap nodes \in SUBSET nodes
  OBVIOUS
<1> QED BY <1>4, <1>5, Zenon DEF ListsOfNodes

\* What an accepted step is.
LEMMA AcceptedStepType ==
  ASSUME accepted \in Seq([order : Orders, primaryNodeIds : ListsOfNodes]),
         NEW i \in DOMAIN accepted
  PROVE  /\ accepted[i].order \in Orders
         /\ accepted[i].primaryNodeIds \in ListsOfNodes
         /\ BagToSet(accepted[i].primaryNodeIds) \subseteq nodes
<1> DEFINE R == [order : Orders, primaryNodeIds : ListsOfNodes]
<1>1. accepted[i] \in R
  <2>1. accepted \in Seq(R)
    OBVIOUS
  <2> HIDE DEF R
  <2> QED BY <2>1, ElementOfSeq
<1>2. accepted[i].order \in Orders /\ accepted[i].primaryNodeIds \in ListsOfNodes
  BY <1>1
<1>3. PICK S \in SUBSET nodes : accepted[i].primaryNodeIds \in [S -> Nat]
  BY <1>2 DEF ListsOfNodes
<1>4. BagToSet(accepted[i].primaryNodeIds) = S
  BY <1>3 DEF BagToSet
<1> QED BY <1>2, <1>4

\* The tour begins without a step.
LEMMA BeginTourPreserves ==
  ASSUME TourInv, BeginTour
  PROVE  TourInv'
<1>1. /\ phase = "assembled" /\ phase' = "tour"
      /\ lastOrder' = 0 /\ accepted' = <<>> /\ offered' = {}
  BY DEF BeginTour, tourVars, tourLocals, TourInv, NoStepsYet
<1>2. accepted' \in Seq([order : Orders, primaryNodeIds : ListsOfNodes']) /\ DOMAIN accepted' = {}
  BY <1>1
<1>3. StepsAscend'
  BY <1>1, <1>2 DEF StepsAscend
<1> QED BY <1>1, <1>3 DEF TourInv, NoStepsYet, OffersAreAccounted, TourIsNumbered

\* One turn of the loop: the step is a duplicate, is dropped, or goes behind all
\* others; a step once accounted for stays so.
LEMMA TakeStepPreserves ==
  ASSUME TourInv, NEW order \in Orders, NEW ids \in PrimaryLists, TakeStep(order, ids)
  PROVE  TourInv'
<1> DEFINE primary == FilterKnown(ids)
           Offer == [order |-> order, primaryNodeIds |-> ids]
           R == [order : Orders, primaryNodeIds : ListsOfNodes]
           Accounted(s) ==
             \/ SeenOrder(s.order)
             \/ /\ s.order \in dropped
                /\ FilterKnown(s.primaryNodeIds) = EmptyBag
                   \/ SeenPrimary(FilterKnown(s.primaryNodeIds))
<1>1. /\ phase = "tour" /\ phase' = "tour" /\ order >= lastOrder /\ lastOrder' = order
      /\ offered' = offered \cup {Offer}
      /\ UNCHANGED <<nodes, tour>>
      /\ \/ SeenOrder(order) /\ UNCHANGED <<accepted, dropped>>
         \/ /\ ~SeenOrder(order) /\ (primary = EmptyBag \/ SeenPrimary(primary))
            /\ dropped' = dropped \cup {order}
            /\ UNCHANGED accepted
         \/ /\ ~SeenOrder(order) /\ primary # EmptyBag
            /\ accepted' = Append(accepted, [order |-> order, primaryNodeIds |-> primary])
            /\ UNCHANGED dropped
  BY DEF TakeStep, graphVars
<1>2. /\ order \in Nat /\ lastOrder \in Nat
      /\ \A o \in Orders : o \in Nat
  BY <1>1, TourAssumption DEF TourInv, StepsAscend
<1>3. /\ accepted \in Seq(R)
      /\ \A i \in DOMAIN accepted : accepted[i].primaryNodeIds # EmptyBag
      /\ \A i, j \in DOMAIN accepted : i < j => accepted[i].order < accepted[j].order
      /\ \A s \in offered : Accounted(s)
  BY <1>1 DEF TourInv, StepsAscend, OffersAreAccounted
<1>3a. \A i \in DOMAIN accepted : accepted[i].order \in Nat /\ accepted[i].order <= order
  <2>1. \A i \in DOMAIN accepted : accepted[i].order \in Nat
    BY <1>2, <1>3, AcceptedStepType
  <2>2. \A i \in DOMAIN accepted : accepted[i].order <= lastOrder
    BY <1>1 DEF TourInv, StepsAscend
  <2>3. lastOrder <= order /\ order \in Nat /\ lastOrder \in Nat
    BY <1>1, <1>2
  <2> QED BY <2>1, <2>2, <2>3
<1>4. ListsOfNodes' = ListsOfNodes /\ \A l : FilterKnown(l)' = FilterKnown(l)
  BY <1>1 DEF ListsOfNodes, FilterKnown
<1>5. Offer.order = order /\ FilterKnown(Offer.primaryNodeIds) = primary
  OBVIOUS
<1>6. NoStepsYet' /\ TourIsNumbered'
  BY <1>1 DEF NoStepsYet, TourIsNumbered
<1>7. CASE UNCHANGED accepted
  <2>1. StepsAscend'
    <3> HIDE DEF R
    <3>2. accepted' \in Seq(R)
      BY <1>3, <1>7
    <3> QED BY <1>1, <1>3, <1>4, <1>7, <1>3a, <3>2 DEF StepsAscend, R
  <2>2. \A o : SeenOrder(o)' = SeenOrder(o)
    BY <1>7 DEF SeenOrder
  <2>3. \A l : SeenPrimary(l)' = SeenPrimary(l)
    BY <1>7 DEF SeenPrimary
  <2>4. /\ dropped \subseteq dropped'
        /\ \/ SeenOrder(order)
           \/ order \in dropped' /\ (primary = EmptyBag \/ SeenPrimary(primary))
    <3>1. accepted' # Append(accepted, [order |-> order, primaryNodeIds |-> primary])
      <4>1. [order |-> order, primaryNodeIds |-> primary] \in R
        BY FilteredList
      <4>2. Len(accepted') = Len(accepted) /\ Len(accepted) \in Nat
        BY <1>3, <1>7
      <4> HIDE DEF R, primary
      <4> QED BY <1>3, <4>1, <4>2, AppendProperties
    <3> HIDE DEF primary
    <3> QED BY <1>1, <3>1
  <2>5. OffersAreAccounted'
    <3> SUFFICES ASSUME NEW s \in offered'
                 PROVE  \/ SeenOrder(s.order)'
                        \/ /\ s.order \in dropped'
                           /\ FilterKnown(s.primaryNodeIds)' = EmptyBag
                              \/ SeenPrimary(FilterKnown(s.primaryNodeIds))'
      BY DEF OffersAreAccounted
    <3>1. SeenPrimary(FilterKnown(s.primaryNodeIds))' = SeenPrimary(FilterKnown(s.primaryNodeIds))
      BY <1>1, <1>7 DEF SeenPrimary, FilterKnown
    <3> HIDE DEF primary, Offer
    <3>2. CASE s = Offer
      BY <1>4, <1>5, <2>2, <2>4, <3>1, <3>2
    <3>3. CASE s \in offered
      BY <1>3, <1>4, <2>2, <2>4, <3>1, <3>3
    <3> QED BY <1>1, <3>2, <3>3
  <2> QED BY <1>6, <2>1, <2>5 DEF TourInv
<1>8. CASE /\ ~SeenOrder(order) /\ primary # EmptyBag
           /\ accepted' = Append(accepted, [order |-> order, primaryNodeIds |-> primary])
           /\ UNCHANGED dropped
  <2> DEFINE Step == [order |-> order, primaryNodeIds |-> primary]
             n == Len(accepted)
  <2>1. Step \in R /\ Step.order = order /\ Step.primaryNodeIds = primary
    BY FilteredList
  <2>2. /\ accepted' \in Seq(R)
        /\ DOMAIN accepted' = 1..(n + 1)
        /\ DOMAIN accepted = 1..n /\ n \in Nat
        /\ \A i \in 1..n : accepted'[i] = accepted[i]
        /\ accepted'[n + 1] = Step
    <3>1. accepted' = Append(accepted, Step)
      BY <1>8
    <3> HIDE DEF Step, R
    <3> QED BY <1>3, <2>1, <3>1, AppendProperties
  <2> HIDE DEF Step, n, primary
  <2>3. \A i \in DOMAIN accepted : accepted[i].order < order
    <3>1. \A i \in DOMAIN accepted : accepted[i].order # order
      BY <1>8 DEF SeenOrder
    <3> QED BY <1>2, <1>3a, <3>1
  <2>4. \A i \in DOMAIN accepted' :
          accepted'[i].order <= order /\ accepted'[i].primaryNodeIds # EmptyBag
    <3>1. \A i \in DOMAIN accepted' : i \in DOMAIN accepted \/ i = n + 1
      BY <2>2
    <3> QED BY <1>2, <1>3, <1>8, <1>3a, <2>1, <2>2, <3>1 DEF primary
  <2>5. \A i, j \in DOMAIN accepted' : i < j => accepted'[i].order < accepted'[j].order
    BY <1>2, <1>3, <2>1, <2>2, <2>3
  <2>6. StepsAscend'
    <3> HIDE DEF R
    <3> QED BY <1>1, <1>4, <2>2, <2>4, <2>5 DEF StepsAscend, R
  <2>7. /\ n + 1 \in DOMAIN accepted'
        /\ \A i \in DOMAIN accepted : i \in DOMAIN accepted' /\ accepted'[i] = accepted[i]
    BY <2>2
  <2>8. \A o : SeenOrder(o) => SeenOrder(o)'
    BY <2>7 DEF SeenOrder
  <2>9. SeenOrder(order)'
    BY <2>1, <2>2, <2>7 DEF SeenOrder
  <2>10. OffersAreAccounted'
    <3> SUFFICES ASSUME NEW s \in offered'
                 PROVE  \/ SeenOrder(s.order)'
                        \/ /\ s.order \in dropped'
                           /\ FilterKnown(s.primaryNodeIds)' = EmptyBag
                              \/ SeenPrimary(FilterKnown(s.primaryNodeIds))'
      BY DEF OffersAreAccounted
    <3>1. SeenPrimary(FilterKnown(s.primaryNodeIds)) => SeenPrimary(FilterKnown(s.primaryNodeIds))'
      BY <1>1, <2>7 DEF SeenPrimary, FilterKnown
    <3> HIDE DEF Offer
    <3>2. CASE s = Offer
      BY <1>5, <2>9, <3>2
    <3>3. CASE s \in offered
      BY <1>3, <1>4, <1>8, <2>8, <3>1, <3>3
    <3> QED BY <1>1, <3>2, <3>3
  <2> QED BY <1>6, <2>6, <2>10 DEF TourInv
<1> QED BY <1>1, <1>7, <1>8

\* What does not touch the tour, or ends it.
LEMMA OtherStepsPreserveTour ==
  ASSUME TourInv,
         \/ UNCHANGED <<phase, nodes, tourVars>>
         \/ /\ UNCHANGED tourVars
            /\ phase \in {"start", "layers", "layered", "domains", "assemble"}
            /\ phase' \notin {"tour", "done"}
         \/ UNCHANGED tourVars /\ phase' = "failed"
         \/ NumberSteps
  PROVE  TourInv'
<1>1. CASE UNCHANGED <<phase, nodes, tourVars>>
  <2>1. UNCHANGED <<phase, nodes, tour, lastOrder, accepted, dropped, offered>>
    BY <1>1 DEF tourVars, tourLocals
  <2>2. NoStepsYet' /\ TourIsNumbered'
    BY <2>1 DEF TourInv, NoStepsYet, TourIsNumbered, Numbered
  <2>3. ListsOfNodes' = ListsOfNodes
    BY <2>1 DEF ListsOfNodes
  <2>4. StepsAscend'
    BY <2>1, <2>3 DEF TourInv, StepsAscend
  <2>5. OffersAreAccounted'
    BY <2>1 DEF TourInv, OffersAreAccounted, SeenOrder, SeenPrimary, FilterKnown
  <2> QED BY <2>2, <2>4, <2>5 DEF TourInv
<1>2. CASE /\ UNCHANGED tourVars
           /\ phase \in {"start", "layers", "layered", "domains", "assemble"}
           /\ phase' \notin {"tour", "done"}
  BY <1>2 DEF tourVars, tourLocals, TourInv, NoStepsYet, StepsAscend, OffersAreAccounted,
              TourIsNumbered
<1>3. CASE UNCHANGED tourVars /\ phase' = "failed"
  BY <1>3 DEF TourInv, NoStepsYet, StepsAscend, OffersAreAccounted, TourIsNumbered
<1>4. CASE NumberSteps
  <2>1. /\ phase = "tour" /\ phase' = "done" /\ tour' = Numbered
        /\ UNCHANGED <<nodes, lastOrder, accepted, dropped, offered>>
    BY <1>4 DEF NumberSteps, graphVars, tourLocals
  <2>2. NoStepsYet' /\ TourIsNumbered'
    BY <2>1 DEF NoStepsYet, TourIsNumbered, Numbered
  <2>3. ListsOfNodes' = ListsOfNodes
    BY <2>1 DEF ListsOfNodes
  <2>4. StepsAscend'
    BY <2>1, <2>3 DEF TourInv, StepsAscend
  <2>5. OffersAreAccounted'
    BY <2>1 DEF TourInv, OffersAreAccounted, SeenOrder, SeenPrimary, FilterKnown
  <2> QED BY <2>2, <2>4, <2>5 DEF TourInv
<1> QED BY <1>1, <1>2, <1>3, <1>4

\* Every reachable state of the synthesis keeps the invariant of the tour.
THEOREM SynthesisTour == Spec => []TourInv
<1>1. Init => TourInv
  BY DEF Init, LayersInit, TourInit, TourInv, NoStepsYet, StepsAscend, OffersAreAccounted,
         TourIsNumbered
<1>2. TourInv /\ [Next]_vars => TourInv'
  <2> SUFFICES ASSUME TourInv, [Next]_vars PROVE TourInv'
    OBVIOUS
  <2>1. CASE UNCHANGED vars
    BY <2>1, OtherStepsPreserveTour DEF vars, graphVars
  <2>2. CASE (LayersNext \/ DomainsNext \/ \E analysed \in SUBSET Files : Assemble(analysed))
             /\ UNCHANGED tourVars
    <3>1. /\ phase \in {"start", "layers", "layered", "domains", "assemble"}
          /\ phase' \in {"layers", "layered", "domains", "assemble", "assembled", "failed"}
      BY <2>2 DEF LayersNext, BeginLayers, NextLayer, ClaimGroup, EndLayer, AssignFiles,
                  ReplyWithoutLayers, DomainsNext, BeginDomains, NextDomain, ClaimLayer, EndDomain,
                  AssignLayers, ReplyWithoutDomains, Assemble
    <3> QED BY <2>2, <3>1, OtherStepsPreserveTour
  <2>3. CASE BeginTour
    BY <2>3, BeginTourPreserves
  <2>4. CASE \E order \in Orders, ids \in PrimaryLists : TakeStep(order, ids)
    BY <2>4, TakeStepPreserves
  <2>5. CASE NumberSteps
    BY <2>5, OtherStepsPreserveTour
  <2>6. CASE ReplyWithoutSteps
    BY <2>6, OtherStepsPreserveTour DEF ReplyWithoutSteps
  <2> QED BY <2>1, <2>2, <2>3, <2>4, <2>5, <2>6 DEF Next, TourNext
<1> QED BY <1>1, <1>2, PTL DEF Spec

\* Whatever steps a model replies with, the tour shows nodes of the graph only,
\* in the model's order, and a step is lost to another of its order or reported.
THEOREM SynthesisStepsAccounted == Spec => []StepsAreAccounted
<1>1. TourInv => StepsAreAccounted
  <2> SUFFICES ASSUME TourInv, phase = "done" PROVE StepsAreAccounted
    BY DEF StepsAreAccounted
  <2>1. /\ accepted \in Seq([order : Orders, primaryNodeIds : ListsOfNodes])
        /\ \A i \in DOMAIN accepted : accepted[i].primaryNodeIds # EmptyBag
        /\ \A i, j \in DOMAIN accepted : i < j => accepted[i].order < accepted[j].order
        /\ tour = Numbered
    BY DEF TourInv, StepsAscend, TourIsNumbered
  <2>2. \A i \in DOMAIN tour :
          /\ tour[i].stepNumber = i
          /\ tour[i].primaryNodeIds # EmptyBag
          /\ BagToSet(tour[i].primaryNodeIds) \subseteq nodes
    <3>1. \A i \in DOMAIN accepted : BagToSet(accepted[i].primaryNodeIds) \subseteq nodes
      BY <2>1, AcceptedStepType
    <3> QED BY <2>1, <3>1 DEF Numbered
  <2>3. \A s \in offered :
          LET primary == FilterKnown(s.primaryNodeIds)
          IN \/ \E i \in DOMAIN accepted : accepted[i].order = s.order
             \/ s.order \in dropped /\ (primary = EmptyBag \/ SeenPrimary(primary))
    BY DEF TourInv, OffersAreAccounted, SeenOrder
  <2> QED BY <2>1, <2>2, <2>3 DEF StepsAreAccounted
<1> QED BY SynthesisTour, <1>1, PTL

-----------------------------------------------------------------------------
\* If each member of F is among the files of exactly one x of S, counting it
\* wherever it appears counts it once.
LEMMA AppearancesOfPartition ==
  ASSUME NEW S, NEW F, IsFiniteSet(F),
         \A f \in F : \E x \in S : f \in x.fileIds,
         \A x, y \in S : \A f \in F : f \in x.fileIds /\ f \in y.fileIds => x = y
  PROVE  Cardinality(UNION {{x} \X (x.fileIds \cap F) : x \in S}) = Cardinality(F)
<1> DEFINE P == UNION {{x} \X (x.fileIds \cap F) : x \in S}
           Owner(f) == CHOOSE x \in S : f \in x.fileIds
           H == [f \in F |-> <<Owner(f), f>>]
<1>1. \A f \in F : Owner(f) \in S /\ f \in Owner(f).fileIds
  OBVIOUS
<1>2. \A p \in P : \E x \in S : \E f \in F : f \in x.fileIds /\ p = <<x, f>>
  OBVIOUS
<1>3. \A x \in S : \A f \in F : f \in x.fileIds => <<x, f>> \in P
  OBVIOUS
<1> HIDE DEF P, Owner
<1>4. H \in [F -> P]
  BY <1>1, <1>3
<1>5. H \in Injection(F, P)
  BY <1>4 DEF Injection, IsInjective
<1>6. \A p \in P : \E f \in F : H[f] = p
  <2> SUFFICES ASSUME NEW p \in P PROVE \E f \in F : H[f] = p
    OBVIOUS
  <2>1. PICK x \in S, f \in F : f \in x.fileIds /\ p = <<x, f>>
    BY <1>2
  <2>2. Owner(f) = x
    BY <1>1, <2>1
  <2> QED BY <2>1, <2>2
<1>7. H \in Bijection(F, P)
  BY <1>4, <1>5, <1>6 DEF Bijection, Surjection
<1>8. ExistsBijection(F, P)
  BY <1>7, Zenon DEF ExistsBijection
<1> QED BY <1>8, FS_Bijection DEF P

\* There are no more layers than files, and no more domains than layers.
LEMMA LayersAreFinite ==
  ASSUME FilesInOneLayer, phase \in {"layered", "assemble"}
  PROVE  IsFiniteSet(layers) /\ Cardinality(layers) \in Nat
<1> DEFINE Some(l) == CHOOSE f \in Files : f \in l.fileIds
           H == [l \in layers |-> Some(l)]
<1>1. /\ \A l \in layers : l.fileIds # {} /\ l.fileIds \subseteq Files
      /\ \A l, m \in layers : l.fileIds \cap m.fileIds # {} => l = m
  BY DEF FilesInOneLayer
<1>2. \A l \in layers : Some(l) \in Files /\ Some(l) \in l.fileIds
  <2> SUFFICES ASSUME NEW l \in layers PROVE Some(l) \in Files /\ Some(l) \in l.fileIds
    OBVIOUS
  <2>1. \E f \in Files : f \in l.fileIds
    BY <1>1
  <2> QED BY <2>1
<1> HIDE DEF Some
<1>3. H \in Injection(layers, Files)
  BY <1>1, <1>2 DEF Injection, IsInjective
<1>4. IsFiniteSet(Files)
  BY GatesAssumption
<1> HIDE DEF H
<1> QED BY <1>3, <1>4, FS_Injection, FS_CardinalityType

\* Every domain has a layer of its own, so there are finitely many.
LEMMA DomainsAreFinite ==
  ASSUME DomainsInv, phase = "assemble", IsFiniteSet(layers)
  PROVE  IsFiniteSet(domains) /\ Cardinality(domains) \in Nat
<1> DEFINE Some(d) == CHOOSE l \in layers : l.id \in BagToSet(d.layerIds)
           H == [d \in domains |-> Some(d)]
<1>1. LayersInOneDomain /\ DomainsAreExpanded
  BY DEF DomainsInv
<1>2. \A d \in domains : Some(d) \in layers /\ Some(d).id \in BagToSet(d.layerIds)
  <2> SUFFICES ASSUME NEW d \in domains
               PROVE  Some(d) \in layers /\ Some(d).id \in BagToSet(d.layerIds)
    OBVIOUS
  <2>1. d.layerIds # EmptyBag /\ d.layerIds \in ListsOfLayers
    BY <1>1 DEF LayersInOneDomain, DomainsAreExpanded
  <2>2. PICK S \in SUBSET LayerIdSet : d.layerIds = SetToBag(S)
    BY <2>1 DEF ListsOfLayers
  <2>3. S # {}
    BY <2>1, <2>2, Zenon DEF EmptyBag
  <2>4. BagToSet(d.layerIds) = S
    BY <2>2, ListOfSet
  <2>5. \E l \in layers : l.id \in BagToSet(d.layerIds)
    BY <2>3, <2>4 DEF LayerIdSet
  <2> QED BY <2>5
<1>3. \A d, e \in domains : BagToSet(d.layerIds) \cap BagToSet(e.layerIds) # {} => d = e
  BY <1>1 DEF LayersInOneDomain
<1> HIDE DEF Some
<1>4. H \in Injection(domains, layers)
  BY <1>2, <1>3 DEF Injection, IsInjective
<1> HIDE DEF H
<1> QED BY <1>4, FS_Injection, FS_CardinalityType

\* The contract check of scan-with-architecture on two layers.
LEMMA CodeGateOnTwo ==
  ASSUME NEW S \in SUBSET CodeFiles, NEW T \in SUBSET CodeFiles
  PROVE  AllCodeAssignedOnce({[id |-> 1, fileIds |-> S], [id |-> 2, fileIds |-> T]})
           <=> S \cup T = CodeFiles /\ S \cap T = {}
<1> DEFINE l == [id |-> 1, fileIds |-> S]
           m == [id |-> 2, fileIds |-> T]
           P == {l} \X (l.fileIds \cap CodeFiles)
           Q == {m} \X (m.fileIds \cap CodeFiles)
<1>1. l.fileIds = S /\ m.fileIds = T /\ l.id = 1 /\ m.id = 2
  OBVIOUS
<1>2. l # m /\ S \cap CodeFiles = S /\ T \cap CodeFiles = T
  BY <1>1
<1>3. CodeAssigned({l, m}) = S \cup T
  <2> HIDE DEF l, m
  <2> QED BY <1>1 DEF CodeAssigned
<1>4. CodeAppearances({l, m}) = Cardinality(P \cup Q)
  <2>1. UNION {{x} \X (x.fileIds \cap CodeFiles) : x \in {l, m}} = P \cup Q
    <3> HIDE DEF l, m
    <3> QED OBVIOUS
  <2> HIDE DEF P, Q, l, m
  <2> QED BY <2>1 DEF CodeAppearances
<1>5. /\ IsFiniteSet(S) /\ IsFiniteSet(T) /\ IsFiniteSet(CodeFiles)
      /\ Cardinality(S) \in Nat /\ Cardinality(T) \in Nat /\ Cardinality(S \cap T) \in Nat
      /\ Cardinality(S \cup T) = Cardinality(S) + Cardinality(T) - Cardinality(S \cap T)
      /\ Cardinality(S \cap T) = 0 <=> S \cap T = {}
  <2>1. IsFiniteSet(CodeFiles)
    BY GatesAssumption, FS_Subset
  <2>2. IsFiniteSet(S) /\ IsFiniteSet(T)
    BY <2>1, FS_Subset
  <2>3. IsFiniteSet(S \cap T)
    BY <2>2, FS_Intersection
  <2> QED BY <2>1, <2>2, <2>3, FS_Union, FS_CardinalityType, FS_EmptySet
<1> HIDE DEF l, m
<1>6. P = {l} \X S /\ Q = {m} \X T
  BY <1>1, <1>2
<1>7. /\ IsFiniteSet(P) /\ Cardinality(P) = Cardinality(S)
      /\ IsFiniteSet(Q) /\ Cardinality(Q) = Cardinality(T)
  <2>1. \A x : IsFiniteSet({x}) /\ Cardinality({x}) = 1
    BY FS_Singleton
  <2>2. /\ IsFiniteSet({l} \X S) /\ Cardinality({l} \X S) = Cardinality({l}) * Cardinality(S)
        /\ IsFiniteSet({m} \X T) /\ Cardinality({m} \X T) = Cardinality({m}) * Cardinality(T)
    BY <1>5, <2>1, FS_Product
  <2>3. 1 * Cardinality(S) = Cardinality(S) /\ 1 * Cardinality(T) = Cardinality(T)
    BY <1>5
  <2> HIDE DEF P, Q
  <2> QED BY <1>6, <2>1, <2>2, <2>3
<1>8. P \cap Q = {}
  BY <1>2, <1>6
<1>9. Cardinality(P \cup Q) = Cardinality(S) + Cardinality(T)
  <2> HIDE DEF P, Q
  <2>1. Cardinality(P \cup Q) = Cardinality(P) + Cardinality(Q) - Cardinality({})
    BY <1>7, <1>8, FS_Union
  <2> QED BY <1>5, <1>7, <2>1, FS_EmptySet
<1> HIDE DEF P, Q
<1>10. AllCodeAssignedOnce({l, m})
         <=> S \cup T = CodeFiles /\ Cardinality(S) + Cardinality(T) = Cardinality(CodeFiles)
  BY <1>3, <1>4, <1>9 DEF AllCodeAssignedOnce
<1>11. S \cup T = CodeFiles =>
         (Cardinality(S) + Cardinality(T) = Cardinality(CodeFiles) <=> S \cap T = {})
  <2>1. ASSUME S \cup T = CodeFiles
        PROVE  Cardinality(CodeFiles) = Cardinality(S) + Cardinality(T) - Cardinality(S \cap T)
    BY <1>5, <2>1
  <2>2. ASSUME NEW a \in Nat, NEW b \in Nat, NEW c \in Nat, NEW d, d = a + b - c
        PROVE  a + b = d <=> c = 0
    BY <2>2
  <2> QED BY <1>5, <2>1, <2>2
<1> QED BY <1>10, <1>11 DEF l, m

\* Whatever the normalizers hand over, its contract check lets it through.
LEMMA ArchitectureGateOpens ==
  ASSUME FilesInOneLayer, phase = "layered"
  PROVE  ArchitectureGate \/ Cardinality(layers) < 3
<1>1. /\ \A f \in CodeFiles : \E l \in layers : f \in l.fileIds
      /\ \A l, m \in layers : \A f \in CodeFiles : f \in l.fileIds /\ f \in m.fileIds => l = m
  BY GatesAssumption DEF FilesInOneLayer
<1>2. IsFiniteSet(CodeFiles)
  BY GatesAssumption, FS_Subset
<1>3. CodeAppearances(layers) = Cardinality(CodeFiles)
  BY <1>1, <1>2, AppearancesOfPartition DEF CodeAppearances
<1>4. CodeAssigned(layers) = CodeFiles
  BY <1>1 DEF CodeAssigned
<1> QED BY <1>3, <1>4, LayersAreFinite DEF ArchitectureGate, AllCodeAssignedOnce

\* Where each file is in one layer, the gate on domains lets the chain pass.
LEMMA DomainsGateOpens ==
  ASSUME FilesInOneLayer, DomainsInv, phase = "assemble"
  PROVE  DomainsGate \/ Cardinality(domains) < 2
<1>1. LayersInOneDomain /\ DomainsAreExpanded
  BY DEF DomainsInv
<1>2. IsFiniteSet(layers) /\ IsFiniteSet(domains) /\ Cardinality(domains) \in Nat
  BY LayersAreFinite, DomainsAreFinite
<1>3. /\ \A l \in layers : l.fileIds \subseteq Files
      /\ \A f \in Files : \E l \in layers : f \in l.fileIds
      /\ \A l, m \in layers : \A f \in Files : f \in l.fileIds /\ f \in m.fileIds => l = m
      /\ \A l, m \in layers : l.id = m.id => l = m
  BY DEF FilesInOneLayer
<1>4. /\ \A id \in LayerIdSet : \E d \in domains : id \in BagToSet(d.layerIds)
      /\ \A d, e \in domains : \A id : id \in BagToSet(d.layerIds) /\ id \in BagToSet(e.layerIds)
                                         => d = e
      /\ \A d \in domains : /\ BagToSet(d.layerIds) \subseteq LayerIdSet
                            /\ \A id \in BagToSet(d.layerIds) : d.layerIds[id] = 1
  BY <1>1 DEF LayersInOneDomain, BagIn, IsSetOf
<1>5. \A d \in domains : \A f :
        f \in d.fileIds <=> \E l \in layers : l.id \in BagToSet(d.layerIds) /\ f \in l.fileIds
  BY <1>1 DEF DomainsAreExpanded, FilesOfLayers
\* A file is in the domain its layer is in, and in no other.
<1>6. FileCountPreserved(domains)
  <2>1. \A d \in domains : d.fileIds \subseteq Files
    BY <1>3, <1>5
  <2>2. \A f \in Files : \E d \in domains : f \in d.fileIds
    BY <1>3, <1>4, <1>5 DEF LayerIdSet
  <2>3. \A d, e \in domains : \A f \in Files : f \in d.fileIds /\ f \in e.fileIds => d = e
    BY <1>3, <1>4, <1>5
  <2>4. IsFiniteSet(Files)
    BY GatesAssumption
  <2>5. Cardinality(UNION {{d} \X (d.fileIds \cap Files) : d \in domains}) = Cardinality(Files)
    BY <2>2, <2>3, <2>4, AppearancesOfPartition
  <2>6. Cardinality(UNION {{l} \X (l.fileIds \cap Files) : l \in layers}) = Cardinality(Files)
    BY <1>3, <2>4, AppearancesOfPartition
  <2>7. /\ UNION {{d} \X (d.fileIds \cap Files) : d \in domains} = UNION {{d} \X d.fileIds : d \in domains}
        /\ UNION {{l} \X (l.fileIds \cap Files) : l \in layers} = UNION {{l} \X l.fileIds : l \in layers}
    BY <1>3, <2>1
  <2> QED BY <2>5, <2>6, <2>7 DEF FileCountPreserved, FileCount
\* A layer has one place, in the list of the one domain that has it.
<1>7. LayerAppearances(domains) = Cardinality(layers)
  <2> DEFINE P == UNION {{d} \X Places(d) : d \in domains}
             Owner(l) == CHOOSE d \in domains : l.id \in BagToSet(d.layerIds)
             H == [l \in layers |-> <<Owner(l), <<l.id, 1>>>>]
  <2>1. \A l \in layers : Owner(l) \in domains /\ l.id \in BagToSet(Owner(l).layerIds)
    BY <1>4 DEF LayerIdSet
  <2>2. \A d \in domains : Places(d) = BagToSet(d.layerIds) \X {1}
    <3> SUFFICES ASSUME NEW d \in domains PROVE Places(d) = BagToSet(d.layerIds) \X {1}
      OBVIOUS
    <3>1. BagToSet(d.layerIds) \cap LayerIdSet = BagToSet(d.layerIds)
      BY <1>4
    <3>2. \A id \in BagToSet(d.layerIds) : 1..d.layerIds[id] = {1}
      BY <1>4
    <3>3. Places(d) = UNION {{id} \X {1} : id \in BagToSet(d.layerIds)}
      BY <3>1, <3>2 DEF Places
    <3> QED BY <3>3
  <2>3. \A d \in domains : \A id \in BagToSet(d.layerIds) : <<d, <<id, 1>>>> \in P
    BY <2>2
  <2>4. \A p \in P : \E d \in domains : \E id \in BagToSet(d.layerIds) : p = <<d, <<id, 1>>>>
    BY <2>2
  <2> HIDE DEF P, Owner
  <2>5. H \in [layers -> P]
    BY <2>1, <2>3
  <2>6. H \in Injection(layers, P)
    BY <1>3, <2>5 DEF Injection, IsInjective
  <2>7. \A p \in P : \E l \in layers : H[l] = p
    <3> SUFFICES ASSUME NEW p \in P PROVE \E l \in layers : H[l] = p
      OBVIOUS
    <3>1. PICK d \in domains : \E id \in BagToSet(d.layerIds) : p = <<d, <<id, 1>>>>
      BY <2>4
    <3>2. PICK id \in BagToSet(d.layerIds) : p = <<d, <<id, 1>>>>
      BY <3>1
    <3>3. PICK l \in layers : l.id = id
      BY <1>4 DEF LayerIdSet
    <3>4. Owner(l) = d
      BY <1>4, <2>1, <3>3
    <3> QED BY <3>2, <3>3, <3>4
  <2>8. H \in Bijection(layers, P)
    BY <2>5, <2>6, <2>7 DEF Bijection, Surjection
  <2>9. ExistsBijection(layers, P)
    BY <2>8, Zenon DEF ExistsBijection
  <2> QED BY <1>2, <2>9, FS_Bijection DEF LayerAppearances, P
<1>8. LayerIdSet \subseteq UNION {BagToSet(d.layerIds) : d \in domains}
  BY <1>4
<1> QED BY <1>2, <1>6, <1>7, <1>8 DEF DomainsGate, AllLayersAssignedOnce

\* The contract checks of the gates are exact: that of scan-with-architecture
\* holds of two layers exactly if they partition the code files, and nothing that
\* the normalizers hand over fails a gate but by being too little.
THEOREM SynthesisGatesExact == Spec => []GatesAreExact
<1>1. LayersInv /\ DomainsInv /\ GraphIsAssembled /\ TourInv /\ StepsAreAccounted => GatesAreExact
  <2> SUFFICES ASSUME LayersInv, DomainsInv, GraphIsAssembled, TourInv, StepsAreAccounted
               PROVE  GatesAreExact
    OBVIOUS
  <2>1. FilesInOneLayer
    BY DEF LayersInv
  <2>2. ASSUME phase = "layered" PROVE ArchitectureGate \/ Cardinality(layers) < 3
    BY <2>1, <2>2, ArchitectureGateOpens
  <2>3. ASSUME phase = "assemble" PROVE DomainsGate \/ Cardinality(domains) < 2
    BY <2>1, <2>3, DomainsGateOpens
  <2>4. ASSUME phase = "assembled", Files # {} PROVE NonZero \/ edges = {}
    <3>1. PICK f : f \in Files
      BY <2>4
    <3>2. layers # {}
      BY <2>1, <2>4, <3>1 DEF FilesInOneLayer
    <3>3. domains # {}
      BY <2>4, <3>2 DEF DomainsInv, LayersInOneDomain, LayerIdSet
    <3>4. FileNode(f) \in nodes
      BY <2>4, <3>1 DEF GraphIsAssembled, Nodes
    <3> QED BY <3>2, <3>3, <3>4 DEF NonZero
  <2>5. ASSUME phase = "done" PROVE TourGate \/ Len(tour) < MinSteps
    <3>1. accepted \in Seq([order : Orders, primaryNodeIds : ListsOfNodes]) /\ tour = Numbered
      BY <2>5 DEF TourInv, StepsAscend, TourIsNumbered
    <3>2. Len(tour) \in Nat
      <4>1. DOMAIN accepted = 1..Len(accepted) /\ Len(accepted) \in Nat
        BY <3>1
      <4> QED BY <3>1, <4>1 DEF Numbered
    <3>3. TourStepsPopulated
      BY <2>5 DEF StepsAreAccounted, TourStepsPopulated
    <3> QED BY <3>2, <3>3, GatesAssumption DEF TourGate
  <2> QED BY <2>2, <2>3, <2>4, <2>5, CodeGateOnTwo DEF GatesAreExact
<1> QED
  BY SynthesisLayers, SynthesisDomains, SynthesisGraph, SynthesisTour, SynthesisStepsAccounted,
     <1>1, PTL
=============================================================================
