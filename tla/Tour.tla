-------------------------------- MODULE Tour --------------------------------
(***************************************************************************)
(* runTourBuilder and normalizeTourSteps,                                  *)
(* packages/understand/src/llm/tour-builder.ts: the steps a model replied  *)
(* with, sorted by their `order`, filtered, de-duplicated and numbered.    *)
(* relatedNodeIds, filtered in the same way, are left out; primaryNodeIds  *)
(* is a bag, because the code compares it sorted.                          *)
(***************************************************************************)
EXTENDS Assembler

CONSTANTS
  Orders,     (* `order` after Math.trunc, at least 1                    *)
  MaxPrimary  (* bound: entries of one primaryNodeIds                    *)

ASSUME TourAssumption == Orders \subseteq Nat \ {0} /\ MaxPrimary \in Nat

VARIABLES
  lastOrder,   (* the order of the last step taken from `ordered`            *)
  accepted,    (* accepted steps, [order, primaryNodeIds]                    *)
  duplicates,  (* anomaly: duplicateOrders                                   *)
  dropped,     (* anomaly: orders of droppedSteps                            *)
  offered,     (* history: the reply's steps, [order, primaryNodeIds]        *)
  tour         (* the result, [stepNumber, primaryNodeIds]                   *)

tourLocals == <<lastOrder, accepted, duplicates, dropped, offered>>
tourVars == <<tour, tourLocals>>

TourInit ==
  /\ lastOrder = 0
  /\ accepted = <<>>
  /\ duplicates = {}
  /\ dropped = {}
  /\ offered = {}
  /\ tour = <<>>

\* The tour builder reads the graph's nodes and nothing else of what came
\* before, which the specification forgets here.
BeginTour ==
  /\ phase = "assembled"
  /\ phase' = "tour"
  /\ entries' = 0
  /\ layers' = {} /\ domains' = {} /\ edges' = {}
  /\ acceptedDomains' = <<>> /\ assignedLayer' = <<>> /\ layerIdCollisions' = {}
  /\ UNCHANGED <<layerLocals, domain, acceptedLayerIds, nodes, tourVars>>

\* A dropped step uses up its order.
BugSeenOrderOfDropped(order) ==
  order \in dropped \/ \E i \in DOMAIN accepted : accepted[i].order = order

SeenOrder(order) == \E i \in DOMAIN accepted : accepted[i].order = order

\* primaryKey is JSON.stringify of the sorted list: equal for two lists that hold
\* every id equally often.
SeenPrimary(ids) == \E i \in DOMAIN accepted : accepted[i].primaryNodeIds = ids

FilterKnown(ids) == [n \in BagToSet(ids) \cap nodes |-> ids[n]]

\* One turn of the loop over the steps sorted by order.
TakeStep(order, ids) ==
  /\ phase = "tour"
  /\ entries < MaxEntries
  /\ order >= lastOrder
  /\ entries' = entries + 1
  /\ lastOrder' = order
  /\ offered' = offered \cup {[order |-> order, primaryNodeIds |-> ids]}
  /\ LET primary == FilterKnown(ids) IN
     \/ /\ SeenOrder(order)
        /\ duplicates' = duplicates \cup {order}
        /\ UNCHANGED <<accepted, dropped>>
     \/ /\ ~SeenOrder(order) /\ (primary = EmptyBag \/ SeenPrimary(primary))
        /\ dropped' = dropped \cup {order}
        /\ UNCHANGED <<accepted, duplicates>>
     \/ /\ ~SeenOrder(order) /\ primary # EmptyBag /\ ~SeenPrimary(primary)
        /\ accepted' = Append(accepted, [order |-> order, primaryNodeIds |-> primary])
        /\ UNCHANGED <<dropped, duplicates>>
  /\ UNCHANGED <<phase, layers, layerLocals, domains, domainLocals, graphVars, tour>>

Numbered ==
  [i \in DOMAIN accepted |-> [stepNumber |-> i, primaryNodeIds |-> accepted[i].primaryNodeIds]]

\* What follows the loop; parseTourSteps throws on a reply without a step.  A
\* tour may be empty: only a warning and the reviewers are left to say so.
NumberSteps ==
  /\ phase = "tour"
  /\ entries > 0
  /\ tour' = Numbered
  /\ phase' = "done"
  /\ UNCHANGED <<entries, layers, layerLocals, domains, domainLocals, graphVars, tourLocals>>

ReplyWithoutSteps ==
  /\ phase = "tour"
  /\ entries = 0
  /\ phase' = "failed"
  /\ UNCHANGED <<entries, layers, layerLocals, domains, domainLocals, graphVars, tourVars>>

\* What a model may write: ids of the graph's files, and one that is no node.
OtherNode == [kind |-> "file", path |-> <<>>, name |-> "", nth |-> 1]

PrimaryLists ==
  {ids \in UNION {[S -> 1..MaxPrimary] : S \in SUBSET ({FileNode(f) : f \in Files} \cup {OtherNode})} :
     BagCardinality(ids) <= MaxPrimary}

TourNext ==
  \/ BeginTour
  \/ \E order \in Orders, ids \in PrimaryLists : TakeStep(order, ids)
  \/ NumberSteps
  \/ ReplyWithoutSteps

-----------------------------------------------------------------------------
\* Whatever the model replied, the tour is numbered without gaps, each step has
\* something to show, all of it in the graph, and the steps are in the model's
\* order.  And a step that has something new to show is lost to another step of
\* its order only: one that is dropped, for want of known nodes or as a
\* repetition, does not use up its order, and is reported.
StepsAreAccounted ==
  phase = "done" =>
    /\ \A i \in DOMAIN tour :
         /\ tour[i].stepNumber = i
         /\ tour[i].primaryNodeIds # EmptyBag
         /\ BagToSet(tour[i].primaryNodeIds) \subseteq nodes
    /\ \A i, j \in DOMAIN accepted : i < j => accepted[i].order < accepted[j].order
    /\ \A s \in offered :
         LET primary == FilterKnown(s.primaryNodeIds)
         IN \/ \E i \in DOMAIN accepted : accepted[i].order = s.order
            \/ s.order \in dropped /\ (primary = EmptyBag \/ SeenPrimary(primary))

\* Inductive, and the reason for StepsAreAccounted: accepted steps are of nodes
\* of the graph, ascend, and have not passed the step the loop is at.
ListsOfNodes == UNION {[S -> Nat] : S \in SUBSET nodes}

NoStepsYet ==
  phase \in {"start", "layers", "layered", "domains", "assemble", "assembled"} =>
    lastOrder = 0 /\ accepted = <<>> /\ offered = {}

StepsAscend ==
  phase \in {"tour", "done"} =>
    /\ lastOrder \in Orders \cup {0}
    /\ accepted \in Seq([order : Orders, primaryNodeIds : ListsOfNodes])
    /\ \A i \in DOMAIN accepted :
         accepted[i].order <= lastOrder /\ accepted[i].primaryNodeIds # EmptyBag
    /\ \A i, j \in DOMAIN accepted : i < j => accepted[i].order < accepted[j].order

OffersAreAccounted ==
  phase \in {"tour", "done"} =>
    \A s \in offered :
      \/ SeenOrder(s.order)
      \/ /\ s.order \in dropped
         /\ FilterKnown(s.primaryNodeIds) = EmptyBag \/ SeenPrimary(FilterKnown(s.primaryNodeIds))

TourIsNumbered == phase = "done" => tour = Numbered

TourInv == NoStepsYet /\ StepsAscend /\ OffersAreAccounted /\ TourIsNumbered
=============================================================================
