------------------------------ MODULE Domains ------------------------------
(***************************************************************************)
(* runDomainAnalyzer's check of its input and normalizeDomains,            *)
(* packages/understand/src/llm/domain-analyzer.ts: from the domains a      *)
(* model replied with to a partition of the layers.  It mirrors            *)
(* normalizeLayers, except that a claim is repeated at most once within a  *)
(* domain, that an entry whose id is a layer's is dropped, and that a      *)
(* domain's layers are a bag and no set: nobody reads the order of the     *)
(* list, but the assembler throws on a repetition in it.                   *)
(***************************************************************************)
EXTENDS Layers, Bags, Functions

CONSTANTS
  DomainIds,     (* ids a model may think of                          *)
  DomainShared   (* "domain:shared"                                   *)

ASSUME DomainsAssumption ==
  /\ DomainShared \in DomainIds
  /\ NoId \notin DomainIds

VARIABLES
  domain,             (* id of the entry the outer loop is at, or NoId    *)
  acceptedLayerIds,   (* acceptedLayers, the bag that entry got           *)
  acceptedDomains,    (* [id, layerIds] in order of first acceptance      *)
  assignedLayer,      (* layer -> id of the domain that claimed it first  *)
  layerIdCollisions,  (* anomaly: ids of dropped entries                  *)
  domains             (* the result: a set of [id, layerIds, fileIds]     *)

domainLocals == <<domain, acceptedLayerIds, acceptedDomains, assignedLayer, layerIdCollisions>>
domainVars == <<phase, entries, domains, domainLocals>>

LayerIdSet == {l.id : l \in layers}

DomainsInit ==
  /\ domain = NoId
  /\ acceptedLayerIds = EmptyBag
  /\ acceptedDomains = <<>>
  /\ assignedLayer = <<>>
  /\ layerIdCollisions = {}
  /\ domains = {}

\* The loop that throws on a layer id it has seen, and the throw on no layers.
BadLayers == layers = {} \/ Cardinality(layers) # Cardinality(LayerIdSet)

\* runDomainAnalyzer up to its session.  normalizeLayers has returned: its
\* locals are gone, and its anomalies were printed and are read by nobody.
BeginDomains ==
  /\ phase = "layered"
  /\ phase' = IF BadLayers THEN "failed" ELSE "domains"
  /\ entries' = 0
  /\ assignedLayer' = [id \in LayerIdSet |-> NoId]
  /\ acceptedLayers' = <<>> /\ assignedGroup' = [g \in Groups |-> NoId]
  /\ unknownGroups' = {} /\ duplicateGroups' = {} /\ groupClaims' = {}
  /\ UNCHANGED <<layer, acceptedGroups, layers, domain, acceptedLayerIds,
                 acceptedDomains, layerIdCollisions, domains>>

\* The next well-formed entry; one whose id is a layer's is dropped.
NextDomain(id) ==
  /\ phase = "domains"
  /\ domain = NoId
  /\ entries < MaxEntries
  /\ entries' = entries + 1
  /\ \/ /\ id \in LayerIdSet
        /\ layerIdCollisions' = layerIdCollisions \cup {id}
        /\ UNCHANGED <<domain, acceptedLayerIds>>
     \/ /\ id \notin LayerIdSet
        /\ domain' = id
        /\ acceptedLayerIds' = EmptyBag
        /\ UNCHANGED layerIdCollisions
  /\ UNCHANGED <<phase, layers, layerLocals, acceptedDomains, assignedLayer, domains>>

\* Without claimedThisDomain, the state before the exact-once repair.
BugClaimLayerAgain(id) ==
  /\ phase = "domains"
  /\ domain # NoId
  /\ id \in LayerIdSet
  /\ BagIn(id, acceptedLayerIds) => acceptedLayerIds[id] < 2
  /\ assignedLayer[id] \in {NoId, domain}
  /\ assignedLayer' = [assignedLayer EXCEPT ![id] = domain]
  /\ acceptedLayerIds' = acceptedLayerIds (+) SetToBag({id})
  /\ UNCHANGED <<phase, entries, layers, layerLocals, domain, acceptedDomains,
                 layerIdCollisions, domains>>

\* One turn of the inner loop that assigns a layer.  The turns that skip an
\* unknown layer, one claimed in this domain already or one of another domain
\* change nothing but anomalies.
ClaimLayer(id) ==
  /\ phase = "domains"
  /\ domain # NoId
  /\ id \in LayerIdSet
  /\ ~BagIn(id, acceptedLayerIds)
  /\ assignedLayer[id] \in {NoId, domain}
  /\ assignedLayer' = [assignedLayer EXCEPT ![id] = domain]
  /\ acceptedLayerIds' = acceptedLayerIds (+) SetToBag({id})
  /\ UNCHANGED <<phase, entries, layers, layerLocals, domain, acceptedDomains,
                 layerIdCollisions, domains>>

\* Merging without the test whether the first occurrence has the layer.
BugWithLayersAppends(ids, more) == ids (+) more

\* Pushes onto the list what it does not have.
WithLayers(ids, more) == ids (+) SetToBag(BagToSet(more) \ BagToSet(ids))

\* The end of the outer loop's body: an entry that got nothing is no domain,
\* an id that comes again is merged into its first occurrence.
EndDomain ==
  /\ phase = "domains"
  /\ domain # NoId
  /\ acceptedDomains' =
       IF acceptedLayerIds = EmptyBag THEN acceptedDomains
       ELSE IF \E i \in DOMAIN acceptedDomains : acceptedDomains[i].id = domain
         THEN [i \in DOMAIN acceptedDomains |->
                 IF acceptedDomains[i].id = domain
                   THEN [acceptedDomains[i] EXCEPT !.layerIds = WithLayers(@, acceptedLayerIds)]
                   ELSE acceptedDomains[i]]
         ELSE Append(acceptedDomains, [id |-> domain, layerIds |-> acceptedLayerIds])
  /\ domain' = NoId
  /\ acceptedLayerIds' = EmptyBag
  /\ UNCHANGED <<phase, entries, layers, layerLocals, assignedLayer, layerIdCollisions, domains>>

-----------------------------------------------------------------------------
UnassignedLayers == {id \in LayerIdSet : assignedLayer[id] = NoId}

\* Layers of no domain go to domain:shared, an accepted one or a new one.
SweptDomains ==
  IF UnassignedLayers = {} THEN acceptedDomains
  ELSE IF \E i \in DOMAIN acceptedDomains : acceptedDomains[i].id = DomainShared
    THEN [i \in DOMAIN acceptedDomains |->
            IF acceptedDomains[i].id = DomainShared
              THEN [acceptedDomains[i] EXCEPT !.layerIds = WithLayers(@, SetToBag(UnassignedLayers))]
              ELSE acceptedDomains[i]]
    ELSE Append(acceptedDomains, [id |-> DomainShared, layerIds |-> SetToBag(UnassignedLayers)])

\* expandLayerIdsToFileIds
FilesOfLayers(ids) == UNION {l.fileIds : l \in {m \in layers : m.id \in BagToSet(ids)}}

\* What follows the loop; parseDomains throws on a reply without an entry.
AssignLayers ==
  /\ phase = "domains"
  /\ domain = NoId
  /\ entries > 0
  /\ domains' = {[id |-> d.id, layerIds |-> d.layerIds, fileIds |-> FilesOfLayers(d.layerIds)] :
                   d \in {e \in Range(SweptDomains) : e.layerIds # EmptyBag}}
  /\ phase' = "assemble"
  /\ UNCHANGED <<entries, layers, layerLocals, domainLocals>>

ReplyWithoutDomains ==
  /\ phase = "domains"
  /\ entries = 0
  /\ phase' = "failed"
  /\ UNCHANGED <<entries, layers, layerLocals, domains, domainLocals>>

DomainsNext ==
  \/ BeginDomains
  \/ \E id \in DomainIds : NextDomain(id)
  \/ \E id \in LayerIds : ClaimLayer(id)
  \/ EndDomain
  \/ AssignLayers
  \/ ReplyWithoutDomains

-----------------------------------------------------------------------------
\* A list of members of S without a repetition.
IsSetOf(S, ids) == BagToSet(ids) \subseteq S /\ \A id \in BagToSet(ids) : ids[id] = 1

\* Every layer is in exactly one domain and once in its list, no id names two
\* domains and no domain is empty, whatever the model replied
\* (domain-analyzer.ts:459-461).  And no id names a domain and a layer, so that a
\* reader of the graph never takes one for the other (domain-analyzer.ts:483-488):
\* but the check covers the ids of the reply only; the domain:shared of the sweep
\* may meet a layer that a model called so, an id normalizeLayers flags and keeps.
LayersInOneDomain ==
  phase \in {"assemble", "assembled"} =>
    /\ \A id \in LayerIdSet : \E d \in domains : BagIn(id, d.layerIds)
    /\ \A d, e \in domains :
         BagToSet(d.layerIds) \cap BagToSet(e.layerIds) # {} \/ d.id = e.id => d = e
    /\ \A d \in domains : d.layerIds # EmptyBag /\ IsSetOf(LayerIdSet, d.layerIds)
    /\ {d.id : d \in domains} \cap LayerIdSet \subseteq {DomainShared}

\* Inductive, and the reason for LayersInOneDomain.  As with the layers: what a
\* domain has accepted, assignedLayer has under its id, ids are accepted once,
\* and what assignedLayer promises to an id is held for it.  Nothing is there
\* before the domains begin.
ListsOfLayers == {SetToBag(S) : S \in SUBSET LayerIdSet}

NoDomainsYet ==
  phase \in {"start", "layers", "layered"} =>
    domain = NoId /\ acceptedDomains = <<>> /\ acceptedLayerIds = EmptyBag

DomainTypes ==
  /\ domain \in DomainIds \cup {NoId}
  /\ acceptedLayerIds \in ListsOfLayers
  /\ acceptedDomains \in Seq([id : DomainIds, layerIds : ListsOfLayers])
  /\ assignedLayer \in [LayerIdSet -> DomainIds \cup {NoId}]

LayersAreHeld ==
  /\ \A id \in BagToSet(acceptedLayerIds) : assignedLayer[id] = domain
  /\ \A i \in DOMAIN acceptedDomains : \A id \in BagToSet(acceptedDomains[i].layerIds) :
       assignedLayer[id] = acceptedDomains[i].id
  /\ \A id \in LayerIdSet : assignedLayer[id] # NoId =>
       \/ assignedLayer[id] = domain /\ BagIn(id, acceptedLayerIds)
       \/ \E i \in DOMAIN acceptedDomains :
            acceptedDomains[i].id = assignedLayer[id] /\ BagIn(id, acceptedDomains[i].layerIds)

DomainsAreNamedApart ==
  /\ domain \notin LayerIdSet \/ domain = NoId
  /\ \A i, j \in DOMAIN acceptedDomains : acceptedDomains[i].id = acceptedDomains[j].id => i = j
  /\ \A i \in DOMAIN acceptedDomains : acceptedDomains[i].id \notin LayerIdSet

DomainsAreExpanded ==
  phase \in {"assemble", "assembled"} =>
    \A d \in domains : d.layerIds \in ListsOfLayers /\ d.fileIds = FilesOfLayers(d.layerIds)

DomainsInv ==
  /\ NoDomainsYet
  /\ phase = "domains" => DomainTypes /\ LayersAreHeld /\ DomainsAreNamedApart
  /\ LayersInOneDomain
  /\ DomainsAreExpanded
=============================================================================
