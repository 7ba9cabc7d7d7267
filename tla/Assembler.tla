----------------------------- MODULE Assembler -----------------------------
(***************************************************************************)
(* assembleKnowledgeGraph, packages/understand/src/assembler.ts: checks    *)
(* what the normalizers promise, throws on the first thing amiss, and      *)
(* builds the nodes and edges of the graph.  Node ids are records here:    *)
(* escapeIdField makes the strings of the code injective in the fields.    *)
(***************************************************************************)
EXTENDS Domains

CONSTANTS
  Symbols,  (* Symbols[f]: the functions and classes of f in the order the   *)
            (* analysis lists them                                           *)
  Imports   (* the import map, pairs of paths                                *)

ASSUME AssemblerAssumption ==
  Symbols \in [Files -> Seq([kind : {"function", "class"}, name : STRING])]

VARIABLES
  nodes,  (* the ids of graph.nodes                      *)
  edges   (* graph.edges, [from, to, type]               *)

graphVars == <<nodes, edges>>

AssemblerInit ==
  /\ nodes = {}
  /\ edges = {}

FileNode(f) == [kind |-> "file", path |-> f, name |-> "", nth |-> 1]

\* buildSymbolNodeId: the nth symbol of one kind and name in a file gets #n.
SymbolNode(f, i) ==
  [kind |-> Symbols[f][i].kind, path |-> f, name |-> Symbols[f][i].name,
   nth |-> Cardinality({j \in 1..i : Symbols[f][j] = Symbols[f][i]})]

\* Sections 2 and 3, and the recomputation of fileIds in section 7: the
\* conditions that throw.
LayersAreBad ==
  \/ \E l \in layers : l.fileIds = {} \/ ~ l.fileIds \subseteq Files
  \/ \E l, m \in layers : l # m /\ l.fileIds \cap m.fileIds # {}
  \/ ~ Files \subseteq UNION {l.fileIds : l \in layers}

DomainsAreBad ==
  \/ \E d \in domains : ~ IsSetOf(LayerIdSet, d.layerIds)
  \/ \E d, e \in domains : d # e /\ BagToSet(d.layerIds) \cap BagToSet(e.layerIds) # {}
  \/ ~ LayerIdSet \subseteq UNION {BagToSet(d.layerIds) : d \in domains}
  \/ \E d \in domains : d.fileIds # FilesOfLayers(d.layerIds)

\* Only the files of batches that did not fail have an analysis.
Nodes(analysed) ==
  {FileNode(f) : f \in Files} \cup
  UNION {{SymbolNode(f, i) : i \in DOMAIN Symbols[f]} : f \in analysed}

\* Imports of files outside the scan, and of a file by itself, are no edges.
Edges(analysed) ==
  {[from |-> FileNode(e[1]), to |-> FileNode(e[2]), type |-> "imports"] :
     e \in {p \in Imports : p[1] # p[2] /\ {p[1], p[2]} \subseteq Files}}
  \cup
  UNION {{[from |-> FileNode(f), to |-> SymbolNode(f, i), type |-> "contains"] :
            i \in DOMAIN Symbols[f]} : f \in analysed}

Assemble(analysed) ==
  /\ phase = "assemble"
  /\ IF LayersAreBad \/ DomainsAreBad
       THEN phase' = "failed" /\ UNCHANGED graphVars
       ELSE phase' = "assembled" /\ nodes' = Nodes(analysed) /\ edges' = Edges(analysed)
  /\ UNCHANGED <<entries, layers, layerLocals, domains, domainLocals>>

-----------------------------------------------------------------------------
\* The assembler finds nothing amiss in what the normalizers hand it, whatever
\* the model replied: each of its throws would mean that "an upstream phase's
\* normalizer regressed" (assembler.ts:87-89).  And it loses no symbol: each is
\* a node of its own, overloads included, contained in the node of its file.
AssemblySucceeds ==
  /\ phase = "assemble" => ~LayersAreBad /\ ~DomainsAreBad
  /\ phase = "assembled" =>
       /\ \A e \in edges : {e.from, e.to} \subseteq nodes
       /\ \A f \in Files :
            LET own == {n \in nodes : n.path = f /\ n.kind # "file"}
            IN /\ Cardinality(own) \in {0, Len(Symbols[f])}
               /\ \A n \in own : [from |-> FileNode(f), to |-> n, type |-> "contains"] \in edges

\* Inductive: an assembled graph is made from the analyses of some of the files.
GraphIsAssembled ==
  phase = "assembled" =>
    \E analysed \in SUBSET Files : nodes = Nodes(analysed) /\ edges = Edges(analysed)
=============================================================================
