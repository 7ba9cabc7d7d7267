--------------------------- MODULE CommandsProofs ---------------------------
(***************************************************************************)
(* Proofs about Pipeline and Commands, for any commands on any number of   *)
(* processes and any roster of reviewers.  First the pipeline: that        *)
(* knowledge-graph.json attests to what happened (GraphAttests) whatever   *)
(* processes share the directory, and that a failure keeps what was        *)
(* written when they take turns.  Then its command lines: what is proved   *)
(* of the pipeline holds of them, no command asks for a fan-out without a  *)
(* worker, and an exit with 0 is earned.                                   *)
(***************************************************************************)
EXTENDS Commands, TLAPS


\* Which contents are whole.
LEMMA Shapes ==
  /\ \A g \in Graph : IsWhole(g)
  /\ Absent \in Plain /\ ~IsWhole(Absent)
  /\ ~IsWhole(Torn)
  /\ \A c \in Plain \cup {Torn} : IsWhole(c) => c \in Plain
BY PipelineAssumption DEF Plain, Torn, Graph, IsWhole, Absent, Runs

\* The phases, spelled out for the provers.
LEMMA PhaseNames ==
  {Phases[i] : i \in 1..Len(Phases)} =
    {"scanning", "importing", "batching", "batched", "narrating", "merging",
     "analyzing", "layering", "domaining", "assembling", "assembled", "touring", "toured"}
<1>1. Len(Phases) = 13
  BY DEF Phases
<1>2. 1..13 = {1, 2, 3, 4, 5, 6, 7, 8, 9, 10, 11, 12, 13}
  OBVIOUS
<1> QED
  BY <1>1, <1>2 DEF Phases

\* Before a process starts it holds nothing, and nothing is on disk.
LEMMA InitPipelineInv == Init => PipelineInv
<1> SUFFICES ASSUME Init PROVE PipelineInv
  OBVIOUS
<1>1. EmptyMem \in Memory
  BY Shapes DEF EmptyMem, Memory
<1>2. NoVerdicts \in [Reviewers -> Verdict]
  BY DEF NoVerdicts, Verdict
<1>3. TypeOK
  <2>1. disk \in [Artifacts -> Plain \cup {Torn} \cup Graph]
    BY Shapes DEF Init
  <2>2. phase \in [Runs -> {Phases[i] : i \in 1..Len(Phases)}]
    BY PhaseNames DEF Init
  <2>3. edits \in 0..MaxEdits /\ status \in [Runs -> {"idle", "running"} \cup Ended]
    BY PipelineAssumption DEF Init
  <2>4. mem \in [Runs -> Memory] /\ verdicts \in [Runs -> [Reviewers -> Verdict]]
    BY <1>1, <1>2 DEF Init
  <2> QED
    BY <2>1, <2>2, <2>3, <2>4, Shapes DEF Init, TypeOK, Artifacts
<1>4. ~IsWhole(disk["graph"])
  BY Shapes DEF Init, Artifacts
<1> QED
  BY <1>3, <1>4 DEF Init, PipelineInv, GraphAttests, Attests, HoldsRightGraph, In

\* A step of r leaves the other processes alone.
Alone(r) ==
  \A q \in Runs \ {r} : /\ status'[q] = status[q] /\ phase'[q] = phase[q]
                        /\ mem'[q] = mem[q] /\ verdicts'[q] = verdicts[q]

\* It leaves the graph on disk alone too, and r holds no graph after it.
Quiet(r) ==
  /\ Alone(r)
  /\ disk'["graph"] = disk["graph"]
  /\ \/ status'[r] \in Ended
     \/ status'[r] = "running" /\ phase'[r] \notin {"assembled", "touring", "toured"}

\* What r holds is all there is to show of a step of r.
LEMMA OthersHold ==
  ASSUME PipelineInv, NEW r \in Runs, Alone(r), NEW q \in Runs \ {r}
  PROVE  HoldsRightGraph(q)'
BY DEF PipelineInv, HoldsRightGraph, Holds, In, Collects, Judged, Alone

\* A step that changes no artifact.
LEMMA QuietStep ==
  ASSUME PipelineInv, TypeOK', NEW r \in Runs, Quiet(r)
  PROVE  PipelineInv'
<1> USE DEF Quiet
<1>1. GraphAttests'
  BY DEF PipelineInv, GraphAttests
<1>2. HoldsRightGraph(r)'
  BY DEF HoldsRightGraph, In, Ended
<1> QED
  BY <1>1, <1>2, OthersHold DEF PipelineInv

\* A process that ends, and what its memory and its verdicts become.
LEMMA EndsKeepsTypes ==
  ASSUME TypeOK, NEW r \in Runs, NEW how \in Ended, Ends(r, how)
  PROVE  /\ project' = project /\ edits' = edits /\ phase' = phase
         /\ status' \in [Runs -> {"idle", "running"} \cup Ended]
         /\ mem' \in [Runs -> Memory]
         /\ verdicts' \in [Runs -> [Reviewers -> Verdict]]
         /\ status'[r] = how
         /\ \A q \in Runs \ {r} : /\ status'[q] = status[q] /\ phase'[q] = phase[q]
                                  /\ mem'[q] = mem[q] /\ verdicts'[q] = verdicts[q]
<1>1. EmptyMem \in Memory
  BY Shapes DEF EmptyMem, Memory
<1>2. NoVerdicts \in [Reviewers -> Verdict]
  BY DEF NoVerdicts, Verdict
<1> QED
  BY <1>1, <1>2 DEF Ends, TypeOK, Ended

\* A process that goes on to another phase.
LEMMA GoToKeepsTypes ==
  ASSUME TypeOK, NEW r \in Runs, NEW p \in {Phases[i] : i \in 1..Len(Phases)}, GoTo(r, p)
  PROVE  /\ project' = project /\ edits' = edits /\ status' = status
         /\ phase' \in [Runs -> {Phases[i] : i \in 1..Len(Phases)}]
         /\ phase'[r] = p
         /\ \A q \in Runs \ {r} : status'[q] = status[q] /\ phase'[q] = phase[q]
BY DEF GoTo, TypeOK

\* Before it assembles a graph that is a quiet step.
LEMMA GoToIsQuiet ==
  ASSUME TypeOK, NEW r \in Runs,
         NEW p \in {"importing", "batching", "batched", "narrating", "merging",
                    "analyzing", "layering", "domaining", "assembling"},
         status[r] = "running", GoTo(r, p), verdicts' = verdicts, disk'["graph"] = disk["graph"],
         \A q \in Runs \ {r} : mem'[q] = mem[q]
  PROVE  Quiet(r)
<1>1. p \in {Phases[i] : i \in 1..Len(Phases)}
  BY PhaseNames
<1> QED
  BY <1>1, GoToKeepsTypes DEF Quiet, Alone

\* Contents that fit where they are written.
LEMMA WriteKeepsTypes ==
  ASSUME TypeOK, NEW a \in Artifacts \ {"graph"}, NEW c \in Plain, Write(a, c)
  PROVE  /\ disk' \in [Artifacts -> Plain \cup {Torn} \cup Graph]
         /\ \A b \in Artifacts \ {"graph"} : disk'[b] \in Plain \cup {Torn}
         /\ disk'["graph"] = disk["graph"]
         /\ disk'["graph"] \in Graph \cup {Absent, Torn}
BY DEF TypeOK, Write, Artifacts

\* The scan: phases up to the merged scan-result.json.
LEMMA ScanPreservesInv ==
  ASSUME PipelineInv, NEW r \in Runs,
         \/ ScanProject(r) \/ WriteScanResult(r) \/ ComputeBatches(r)
         \/ ReadBatches(r) \/ ReadScanResult(r) \/ MergeNarrative(r)
  PROVE  PipelineInv'
<1> USE PhaseNames
<1>0. TypeOK /\ mem[r] \in Memory
  BY DEF PipelineInv, TypeOK
<1>1. CASE ScanProject(r)
  <2>1. TypeOK'
    <3>1. mem' \in [Runs -> Memory]
      BY <1>0, <1>1 DEF ScanProject, TypeOK, Memory
    <3> QED
      BY <1>0, <1>1, <3>1, GoToKeepsTypes DEF ScanProject, TypeOK
  <2>2. /\ status[r] = "running"
        /\ GoTo(r, "importing") /\ verdicts' = verdicts
        /\ disk'["graph"] = disk["graph"]
        /\ \A q \in Runs \ {r} : mem'[q] = mem[q]
    BY <1>0, <1>1, <2>1 DEF ScanProject, In, TypeOK, Artifacts, Write
  <2> QED
    BY <1>0, <2>1, <2>2, GoToIsQuiet, QuietStep
<1>2. CASE WriteScanResult(r)
  <2>1. Content(r, mem[r].scan) \in Plain
    BY <1>0 DEF Content, Plain, Memory, Runs
  <2>2. /\ disk' \in [Artifacts -> Plain \cup {Torn} \cup Graph]
        /\ \A b \in Artifacts \ {"graph"} : disk'[b] \in Plain \cup {Torn}
        /\ disk'["graph"] = disk["graph"]
    BY <1>0, <1>2, <2>1, Shapes DEF WriteScanResult, TypeOK, Artifacts
  <2>3. TypeOK'
    BY <1>0, <1>2, <2>2, GoToKeepsTypes DEF WriteScanResult, TypeOK
  <2>4. /\ status[r] = "running"
        /\ GoTo(r, "batching") /\ verdicts' = verdicts
        /\ disk'["graph"] = disk["graph"]
        /\ \A q \in Runs \ {r} : mem'[q] = mem[q]
    BY <1>0, <1>2, <2>3 DEF WriteScanResult, In, TypeOK, Artifacts, Write
  <2> QED
    BY <1>0, <2>3, <2>4, GoToIsQuiet, QuietStep
<1>3. CASE ComputeBatches(r)
  <2>1. Content(r, disk["scan"].files) \in Plain
    <3>1. disk["scan"] \in Plain
      BY <1>0, <1>3, Shapes DEF ComputeBatches, TypeOK, Artifacts
    <3> QED
      BY <3>1 DEF Content, Plain, Runs
  <2>2. Write("batches", Content(r, disk["scan"].files)) /\ GoTo(r, "batched")
        /\ UNCHANGED <<mem, verdicts>>
    BY <1>3 DEF ComputeBatches
  <2>3. TypeOK' /\ disk'["graph"] = disk["graph"]
    BY <1>0, <2>1, <2>2, GoToKeepsTypes, WriteKeepsTypes DEF TypeOK, Artifacts
  <2>4. /\ status[r] = "running"
        /\ GoTo(r, "batched") /\ verdicts' = verdicts
        /\ disk'["graph"] = disk["graph"]
        /\ \A q \in Runs \ {r} : mem'[q] = mem[q]
    BY <1>0, <1>3, <2>3 DEF ComputeBatches, In, TypeOK, Artifacts, Write
  <2> QED
    BY <1>0, <2>3, <2>4, GoToIsQuiet, QuietStep
<1>4. CASE ReadBatches(r)
  <2>1. disk["batches"] \in Plain
    BY <1>0, <1>4, Shapes DEF ReadBatches, TypeOK, Artifacts
  <2>2. mem' \in [Runs -> Memory]
    BY <1>0, <1>4, <2>1 DEF ReadBatches, TypeOK, Memory, Plain
  <2>3. TypeOK'
    BY <1>0, <1>4, <2>2, GoToKeepsTypes DEF ReadBatches, TypeOK
  <2>4. /\ status[r] = "running"
        /\ GoTo(r, "narrating") /\ verdicts' = verdicts
        /\ disk'["graph"] = disk["graph"]
        /\ \A q \in Runs \ {r} : mem'[q] = mem[q]
    BY <1>0, <1>4, <2>3 DEF ReadBatches, In, TypeOK, Artifacts, Write
  <2> QED
    BY <1>0, <2>3, <2>4, GoToIsQuiet, QuietStep
<1>5. CASE ReadScanResult(r)
  <2>1. disk["scan"] \in Plain
    BY <1>0, <1>5, Shapes DEF ReadScanResult, TypeOK, Artifacts
  <2>2. mem' \in [Runs -> Memory]
    BY <1>0, <1>5, <2>1 DEF ReadScanResult, TypeOK, Memory
  <2>3. TypeOK'
    BY <1>0, <1>5, <2>2, GoToKeepsTypes DEF ReadScanResult, TypeOK
  <2>4. /\ status[r] = "running"
        /\ GoTo(r, "merging") /\ verdicts' = verdicts
        /\ disk'["graph"] = disk["graph"]
        /\ \A q \in Runs \ {r} : mem'[q] = mem[q]
    BY <1>0, <1>5, <2>3 DEF ReadScanResult, In, TypeOK, Artifacts, Write
  <2> QED
    BY <1>0, <2>3, <2>4, GoToIsQuiet, QuietStep
<1>6. CASE MergeNarrative(r)
  <2>1. mem[r].read \in Plain /\ Content(r, mem[r].read.files) \in Plain
    BY <1>0 DEF Content, Plain, Memory, Runs
  <2>2. /\ disk' \in [Artifacts -> Plain \cup {Torn} \cup Graph]
        /\ \A b \in Artifacts \ {"graph"} : disk'[b] \in Plain \cup {Torn}
        /\ disk'["graph"] = disk["graph"]
    BY <1>0, <1>6, <2>1 DEF MergeNarrative, TypeOK, Artifacts
  <2>3. TypeOK'
    BY <1>0, <1>6, <2>2, GoToKeepsTypes DEF MergeNarrative, TypeOK
  <2>4. /\ status[r] = "running"
        /\ GoTo(r, "analyzing") /\ verdicts' = verdicts
        /\ disk'["graph"] = disk["graph"]
        /\ \A q \in Runs \ {r} : mem'[q] = mem[q]
    BY <1>0, <1>6, <2>3 DEF MergeNarrative, In, TypeOK, Artifacts, Write
  <2> QED
    BY <1>0, <2>3, <2>4, GoToIsQuiet, QuietStep
<1> QED
  BY <1>1, <1>2, <1>3, <1>4, <1>5, <1>6

\* The syntheses, up to the domains.
LEMMA SynthesisPreservesInv ==
  ASSUME PipelineInv, NEW r \in Runs,
         AnalyzeFiles(r) \/ WriteArchitecture(r) \/ WriteDomains(r)
  PROVE  PipelineInv'
<1>0. TypeOK /\ mem[r] \in Memory
  BY DEF PipelineInv, TypeOK
<1>1. CASE AnalyzeFiles(r)
  <2>1. PICK S \in SUBSET mem[r].batches :
          /\ mem' = [mem EXCEPT ![r].analyses = S]
          /\ Write("analyses", Content(r, S))
    BY <1>1 DEF AnalyzeFiles
  <2>2. Content(r, S) \in Plain /\ mem' \in [Runs -> Memory]
    BY <1>0, <2>1 DEF Content, Plain, Memory, Runs, TypeOK
  <2>3. TypeOK' /\ disk'["graph"] = disk["graph"]
    BY <1>0, <1>1, <2>1, <2>2, PhaseNames, GoToKeepsTypes, WriteKeepsTypes
       DEF AnalyzeFiles, TypeOK, Artifacts
  <2>4. /\ status[r] = "running"
        /\ GoTo(r, "layering") /\ verdicts' = verdicts
        /\ \A q \in Runs \ {r} : mem'[q] = mem[q]
    BY <1>0, <1>1, <2>1 DEF AnalyzeFiles, In, TypeOK
  <2> QED
    BY <1>0, <2>3, <2>4, GoToIsQuiet, QuietStep
<1>2. ASSUME NEW a \in {"layers", "domains"}, NEW p \in {"domaining", "assembling"},
             status[r] = "running", Write(a, Content(r, mem[r].scan)), GoTo(r, p),
             UNCHANGED <<mem, verdicts>>
      PROVE  PipelineInv'
  <2>1. Content(r, mem[r].scan) \in Plain
    BY <1>0 DEF Content, Plain, Memory, Runs
  <2>2. TypeOK' /\ disk'["graph"] = disk["graph"]
    BY <1>0, <1>2, <2>1, PhaseNames, GoToKeepsTypes, WriteKeepsTypes DEF TypeOK, Artifacts
  <2> QED
    BY <1>0, <1>2, <2>2, GoToIsQuiet, QuietStep
<1> QED
  BY <1>1, <1>2 DEF WriteArchitecture, WriteDomains, In

\* A process that throws or is killed.  A torn graph attests to nothing.
LEMMA FailurePreservesInv ==
  ASSUME PipelineInv, NEW r \in Runs, Throws(r) \/ Crash(r)
  PROVE  PipelineInv'
<1>0. TypeOK
  BY DEF PipelineInv
<1>1. PICK how \in Ended : Ends(r, how)
  BY DEF Throws, Crash, Ended
<1>2. Alone(r) /\ status'[r] \in Ended
  BY <1>0, <1>1, EndsKeepsTypes DEF Alone
<1>3. /\ disk' \in [Artifacts -> Plain \cup {Torn} \cup Graph]
      /\ \A a \in Artifacts \ {"graph"} : disk'[a] \in Plain \cup {Torn}
      /\ disk'["graph"] \in {disk["graph"], Torn}
  <2>1. CASE disk' = disk
    BY <1>0, <2>1 DEF TypeOK
  <2>2. CASE disk' = [a \in Artifacts |->
               CASE a = Written[phase[r]] -> Torn
                 [] a = "narrative" /\ Written[phase[r]] = "scan" -> Absent
                 [] OTHER -> disk[a]]
    BY <1>0, <2>2, Shapes DEF TypeOK, Artifacts
  <2> QED
    BY <2>1, <2>2 DEF Throws, Crash
<1>4. TypeOK'
  BY <1>0, <1>1, <1>3, EndsKeepsTypes DEF TypeOK
<1>5. CASE disk'["graph"] = disk["graph"]
  BY <1>2, <1>4, <1>5, QuietStep DEF Quiet
<1>6. CASE disk'["graph"] = Torn
  <2>1. GraphAttests'
    BY <1>6, Shapes DEF GraphAttests, Attests
  <2>2. HoldsRightGraph(r)'
    BY <1>2 DEF HoldsRightGraph, In, Ended
  <2> QED
    BY <1>2, <1>4, <2>1, <2>2, OthersHold DEF PipelineInv
<1> QED
  BY <1>3, <1>5, <1>6

\* Starting a process, and editing the sources.
LEMMA StartPreservesInv ==
  ASSUME PipelineInv, NEW r \in Runs, Start(r)
  PROVE  PipelineInv'
<1>1. TypeOK'
  BY DEF PipelineInv, TypeOK, Start
<1>2. Quiet(r)
  BY DEF PipelineInv, TypeOK, Start, MayStart, HoldsRightGraph, Quiet, Alone
<1> QED
  BY <1>1, <1>2, QuietStep

\* The source tree changes under the pipeline.
LEMMA EditPreservesInv == PipelineInv /\ (Edit \/ UNCHANGED vars) => PipelineInv'
<1> SUFFICES ASSUME PipelineInv, Edit \/ UNCHANGED vars PROVE PipelineInv'
  OBVIOUS
<1>1. UNCHANGED <<status, phase, mem, verdicts, disk>>
  BY DEF Edit, vars
<1>2. TypeOK'
  BY <1>1, PipelineAssumption DEF PipelineInv, TypeOK, Edit, vars
<1>3. GraphAttests'
  BY <1>1 DEF PipelineInv, GraphAttests
<1>4. \A r \in Runs : HoldsRightGraph(r)'
  BY <1>1 DEF PipelineInv, HoldsRightGraph, Holds, In, Collects
<1> QED
  BY <1>2, <1>3, <1>4 DEF PipelineInv

\* The assembled graph carries nothing yet, and no verdict is in.
LEMMA AssemblePreservesInv ==
  ASSUME PipelineInv, NEW r \in Runs, Assemble(r)
  PROVE  PipelineInv'
<1>0. TypeOK /\ mem[r] \in Memory
  BY DEF PipelineInv, TypeOK
<1>1. NoVerdicts \in [Reviewers -> Verdict]
  BY DEF NoVerdicts, Verdict
<1>2. AssembledGraph(r) \in Graph
  BY <1>0, <1>1 DEF AssembledGraph, Graph, Memory
<1>3. mem' \in [Runs -> Memory] /\ mem'[r].graph = AssembledGraph(r)
      /\ verdicts' \in [Runs -> [Reviewers -> Verdict]] /\ verdicts'[r] = NoVerdicts
  BY <1>0, <1>1, <1>2 DEF Assemble, TypeOK, Memory
<1>4. status' = status /\ phase'[r] = "assembled" /\ Alone(r)
  BY <1>0, PhaseNames, GoToKeepsTypes DEF Assemble, Alone, TypeOK
<1>5. TypeOK'
  BY <1>0, <1>3, PhaseNames, GoToKeepsTypes DEF Assemble, TypeOK
<1>6. HoldsRightGraph(r)'
  <2>1. Holds(r, FALSE)'
    BY <1>2, <1>3 DEF Holds, AssembledGraph
  <2>2. Collects(r, mem[r].graph)'
    BY <1>3 DEF Collects, NoVerdicts
  <2> QED
    BY <1>4, <2>1, <2>2 DEF HoldsRightGraph, In, Assemble
<1>7. GraphAttests'
  BY DEF PipelineInv, GraphAttests, Assemble
<1> QED
  BY <1>4, <1>5, <1>6, <1>7, OthersHold DEF PipelineInv

\* A verdict is on the graph its process holds, and fails closed.
LEMMA ReviewerEndsPreservesInv ==
  ASSUME PipelineInv, NEW r \in Runs, NEW v \in Reviewers, NEW reply \in Replies,
         ReviewerEnds(r, v, reply)
  PROVE  PipelineInv'
<1> DEFINE new == [verdict |-> VerdictOf(reply), notes |-> reply,
                   brief |-> Brief(mem[r].graph)]
<1>0. TypeOK /\ UNCHANGED <<project, edits, status, phase, mem, disk>>
  BY DEF PipelineInv, ReviewerEnds
<1>1. \E tour \in BOOLEAN : Holds(r, tour)
  BY DEF PipelineInv, HoldsRightGraph, ReviewerEnds
<1>2. Brief(mem[r].graph) \in [of : Runs, tour : BOOLEAN]
  BY <1>1 DEF Holds, Brief, Graph
<1>3. new \in Verdict /\ (new.verdict = "approve" => new.notes = "approve")
  BY <1>2 DEF Verdict, VerdictOf, Replies
<1>4. /\ verdicts' \in [Runs -> [Reviewers -> Verdict]]
      /\ verdicts'[r] = [verdicts[r] EXCEPT ![v] = new]
      /\ \A q \in Runs \ {r} : verdicts'[q] = verdicts[q]
  BY <1>0, <1>3 DEF ReviewerEnds, TypeOK
<1>5. TypeOK'
  BY <1>0, <1>4 DEF TypeOK
<1>6. Collects(r, mem[r].graph) => Collects(r, mem[r].graph)'
  BY <1>0, <1>3, <1>4 DEF Collects, TypeOK
<1>7. HoldsRightGraph(r)'
  BY <1>0, <1>6 DEF PipelineInv, HoldsRightGraph, Holds, In, Judged
<1>8. GraphAttests'
  BY <1>0 DEF PipelineInv, GraphAttests
<1> QED
  BY <1>0, <1>4, <1>5, <1>7, <1>8, OthersHold DEF PipelineInv, Alone

\* When the pair is through, what was collected is a judgement in full.
LEMMA ThroughIsJudged ==
  ASSUME NEW r, NEW g, Collects(r, g), PairIsThrough(r)
  PROVE  Judged(verdicts[r], g, g.tour)
BY DEF Collects, PairIsThrough, Judged, Brief

\* The two writes of knowledge-graph.json, and the tour between them.
LEMMA WriteAssembledGraphPreservesInv ==
  ASSUME PipelineInv, NEW r \in Runs, WriteAssembledGraph(r)
  PROVE  PipelineInv'
<1> DEFINE g == mem[r].graph
           h == [g EXCEPT !.assemble = verdicts[r]]
<1>0. TypeOK /\ mem[r] \in Memory /\ verdicts[r] \in [Reviewers -> Verdict]
  BY DEF PipelineInv, TypeOK
<1>1. Holds(r, FALSE) /\ Judged(verdicts[r], g, FALSE)
  <2>1. Holds(r, FALSE) /\ Collects(r, g) /\ PairIsThrough(r)
    BY DEF PipelineInv, HoldsRightGraph, WriteAssembledGraph
  <2>2. g.tour = FALSE
    BY <2>1 DEF Holds
  <2>3. Judged(verdicts[r], g, g.tour)
    BY <2>1, ThroughIsJudged
  <2> QED
    BY <2>1, <2>2, <2>3
<1>2. h \in Graph /\ h.by = r /\ ~h.tour /\ h.review = NoVerdicts /\ h.assemble = verdicts[r]
  BY <1>0, <1>1 DEF Holds, Graph
<1>3. Judged(h.assemble, h, FALSE)
  BY <1>1, <1>2 DEF Judged, Holds
<1>4. /\ mem' \in [Runs -> Memory] /\ mem'[r].graph = h
      /\ disk' = [disk EXCEPT !["graph"] = h]
      /\ UNCHANGED verdicts
  BY <1>0, <1>2 DEF WriteAssembledGraph, Write, TypeOK, Memory
<1>5. status' = status /\ phase'[r] = "touring" /\ Alone(r)
  BY <1>0, PhaseNames, GoToKeepsTypes DEF WriteAssembledGraph, Alone, TypeOK
<1>6. TypeOK'
  <2>1. /\ disk' \in [Artifacts -> Plain \cup {Torn} \cup Graph]
        /\ \A a \in Artifacts \ {"graph"} : disk'[a] \in Plain \cup {Torn}
        /\ disk'["graph"] = h
    BY <1>0, <1>2, <1>4 DEF TypeOK, Artifacts
  <2> QED
    BY <1>0, <1>2, <1>4, <2>1, PhaseNames, GoToKeepsTypes DEF WriteAssembledGraph, TypeOK
<1>7. HoldsRightGraph(r)'
  <2>1. Holds(r, FALSE)'
    BY <1>2, <1>4 DEF Holds
  <2>2. Judged(mem[r].graph.assemble, mem[r].graph, FALSE)'
    BY <1>3, <1>4 DEF Judged
  <2> QED
    BY <1>5, <2>1, <2>2 DEF HoldsRightGraph, In, WriteAssembledGraph
<1>8. GraphAttests'
  <2>1. disk'["graph"] = h
    BY <1>0, <1>4 DEF TypeOK, Artifacts
  <2> QED
    BY <1>2, <1>3, <2>1 DEF GraphAttests, Attests
<1> QED
  BY <1>5, <1>6, <1>7, <1>8, OthersHold DEF PipelineInv

\* The tour is stamped on the graph.
LEMMA StampTourPreservesInv ==
  ASSUME PipelineInv, NEW r \in Runs, StampTour(r)
  PROVE  PipelineInv'
<1> DEFINE g == mem[r].graph
           h == [g EXCEPT !.tour = TRUE]
<1>0. TypeOK /\ mem[r] \in Memory
  BY DEF PipelineInv, TypeOK
<1>1. Holds(r, FALSE) /\ Judged(g.assemble, g, FALSE)
  BY DEF PipelineInv, HoldsRightGraph, StampTour
<1>2. h \in Graph /\ h.by = r /\ h.tour /\ h.review = NoVerdicts /\ h.assemble = g.assemble
  BY <1>0, <1>1 DEF Holds, Graph
<1>3. Judged(h.assemble, h, FALSE)
  BY <1>1, <1>2 DEF Judged, Holds
<1>4. NoVerdicts \in [Reviewers -> Verdict]
  BY DEF NoVerdicts, Verdict
<1>5. /\ mem' \in [Runs -> Memory] /\ mem'[r].graph = h
      /\ verdicts' \in [Runs -> [Reviewers -> Verdict]] /\ verdicts'[r] = NoVerdicts
      /\ UNCHANGED disk
  BY <1>0, <1>2, <1>4 DEF StampTour, TypeOK, Memory
<1>6. status' = status /\ phase'[r] = "toured" /\ Alone(r)
  BY <1>0, PhaseNames, GoToKeepsTypes DEF StampTour, Alone, TypeOK
<1>7. TypeOK'
  BY <1>0, <1>5, PhaseNames, GoToKeepsTypes DEF StampTour, TypeOK
<1>8. HoldsRightGraph(r)'
  <2>1. Holds(r, TRUE)' /\ Judged(mem[r].graph.assemble, mem[r].graph, FALSE)'
    BY <1>2, <1>3, <1>5 DEF Holds, Judged
  <2>2. Collects(r, mem[r].graph)'
    BY <1>5 DEF Collects, NoVerdicts
  <2> QED
    BY <1>6, <2>1, <2>2 DEF HoldsRightGraph, In, StampTour
<1>9. GraphAttests'
  BY <1>5 DEF PipelineInv, GraphAttests
<1> QED
  BY <1>6, <1>7, <1>8, <1>9, OthersHold DEF PipelineInv

\* The graph is rewritten, with a verdict or with less in it.
LEMMA RewriteGraphPreservesInv ==
  ASSUME PipelineInv, NEW r \in Runs, RewriteGraph(r)
  PROVE  PipelineInv'
<1> DEFINE g == mem[r].graph
           h == [g EXCEPT !.review = verdicts[r]]
<1>0. TypeOK /\ mem[r] \in Memory /\ verdicts[r] \in [Reviewers -> Verdict]
  BY DEF PipelineInv, TypeOK
<1>1. /\ Holds(r, TRUE) /\ Judged(g.assemble, g, FALSE)
      /\ Judged(verdicts[r], g, TRUE)
  BY ThroughIsJudged DEF PipelineInv, HoldsRightGraph, RewriteGraph, Holds
<1>2. /\ h \in Graph /\ h.by = r /\ h.tour
      /\ h.review = verdicts[r] /\ h.assemble = g.assemble
  BY <1>0, <1>1 DEF Holds, Graph
<1>3. Judged(h.assemble, h, FALSE) /\ Judged(h.review, h, TRUE)
  BY <1>1, <1>2 DEF Judged, Holds
<1>4. Alone(r) /\ status'[r] = "done"
  BY <1>0, EndsKeepsTypes DEF RewriteGraph, Alone, Ended
<1>5. /\ disk' \in [Artifacts -> Plain \cup {Torn} \cup Graph]
      /\ \A a \in Artifacts \ {"graph"} : disk'[a] \in Plain \cup {Torn}
      /\ disk'["graph"] = h
  BY <1>0, <1>2 DEF RewriteGraph, Write, TypeOK, Artifacts
<1>6. TypeOK'
  BY <1>0, <1>2, <1>5, EndsKeepsTypes DEF RewriteGraph, TypeOK, Ended
<1>7. HoldsRightGraph(r)'
  BY <1>4 DEF HoldsRightGraph, In
<1>8. GraphAttests'
  BY <1>2, <1>3, <1>5 DEF GraphAttests, Attests
<1> QED
  BY <1>4, <1>6, <1>7, <1>8, OthersHold DEF PipelineInv

\* Every step preserves the invariant.
LEMMA NextPreservesPipelineInv == PipelineInv /\ [Next]_vars => PipelineInv'
<1> SUFFICES ASSUME PipelineInv, [Next]_vars PROVE PipelineInv'
  OBVIOUS
<1>1. CASE Edit \/ UNCHANGED vars
  BY <1>1, EditPreservesInv
<1>2. ASSUME NEW r \in Runs, Start(r) \/ Step(r) \/ Crash(r) PROVE PipelineInv'
  BY <1>2, StartPreservesInv, ScanPreservesInv, SynthesisPreservesInv,
     FailurePreservesInv, AssemblePreservesInv, ReviewerEndsPreservesInv,
     WriteAssembledGraphPreservesInv, StampTourPreservesInv, RewriteGraphPreservesInv
     DEF Step
<1> QED
  BY <1>1, <1>2 DEF Next

\* The invariant holds of every state of the pipeline.
THEOREM PipelineInvariant == Spec => []PipelineInv
<1> QED
  BY InitPipelineInv, NextPreservesPipelineInv, PTL DEF Spec

\* No process ever takes a file that is not there, or half of one, for content.
THEOREM PipelineTypeCorrect == Spec => []TypeOK
<1>1. PipelineInv => TypeOK
  BY DEF PipelineInv
<1> QED
  BY <1>1, PipelineInvariant, PTL

\* Whatever processes do to one directory, the graph on disk carries full pairs
\* of verdicts on itself, and approvals only where a reviewer approved
\* (orchestrator.ts:609-702, face-off-reviewer.ts:136-386).
THEOREM PipelineGraphAttests == Spec => []GraphAttests
<1>1. PipelineInv => GraphAttests
  BY DEF PipelineInv
<1> QED
  BY <1>1, PipelineInvariant, PTL

-----------------------------------------------------------------------------
(* That a failure keeps the artifacts, for processes that do not overlap.  *)

\* The phases in their order, for the provers.
LEMMA PhaseIndex ==
  /\ Index("scanning") = 1 /\ Index("importing") = 2 /\ Index("batching") = 3
  /\ Index("batched") = 4 /\ Index("narrating") = 5 /\ Index("merging") = 6
  /\ Index("analyzing") = 7 /\ Index("layering") = 8 /\ Index("domaining") = 9
  /\ Index("assembling") = 10 /\ Index("assembled") = 11 /\ Index("touring") = 12
  /\ Index("toured") = 13
<1>1. Len(Phases) = 13
  BY DEF Phases
<1>2. ASSUME NEW i \in 1..13, NEW p, Phases[i] = p,
             \A j \in 1..13 : Phases[j] = p => j = i
      PROVE  Index(p) = i
  BY <1>1, <1>2 DEF Index
<1>3. \A i, j \in 1..13 : Phases[i] = Phases[j] => i = j
  BY DEF Phases
<1>4. \A i \in 1..13 : Index(Phases[i]) = i
  BY <1>2, <1>3
<1> QED
  BY <1>4 DEF Phases

\* What is left at each phase: every phase adds the artifact of the one before it.
LEMMA LeftAt ==
  /\ Left("scanning") = {} /\ Left("importing") = {}
  /\ Left("batching") = {"scan"}
  /\ \A p \in {"batched", "narrating", "merging"} : Left(p) = {"scan", "batches"}
  /\ Left("analyzing") = {"scan", "batches", "narrative"}
  /\ Left("layering") = {"scan", "batches", "narrative", "analyses"}
  /\ Left("domaining") = {"scan", "batches", "narrative", "analyses", "layers"}
  /\ \A p \in {"assembling", "assembled"} :
       Left(p) = {"scan", "batches", "narrative", "analyses", "layers", "domains"}
  /\ Left("touring") = Artifacts
  /\ Left("toured") = Artifacts
<1>1. /\ DOMAIN Written = {"importing", "batching", "merging", "analyzing", "layering",
                           "domaining", "assembled", "toured"}
      /\ Written["importing"] = "scan" /\ Written["batching"] = "batches"
      /\ Written["merging"] = "scan" /\ Written["analyzing"] = "analyses"
      /\ Written["layering"] = "layers" /\ Written["domaining"] = "domains"
      /\ Written["assembled"] = "graph" /\ Written["toured"] = "graph"
  BY DEF Written
<1>2. ASSUME NEW p, Index(p) \in 1..13
      PROVE  \A a : a \in Left(p) <=>
               \/ a = "scan" /\ Index(p) > 2
               \/ a = "batches" /\ Index(p) > 3
               \/ a = "narrative" /\ Index(p) > 6
               \/ a = "analyses" /\ Index(p) > 7
               \/ a = "layers" /\ Index(p) > 8
               \/ a = "domains" /\ Index(p) > 9
               \/ a = "graph" /\ Index(p) > 11
  BY <1>1, <1>2, PhaseIndex DEF Left, Before
<1>3. Left("scanning") = {} /\ Left("importing") = {} /\ Left("batching") = {"scan"}
  BY <1>2, PhaseIndex
<1>4. \A p \in {"batched", "narrating", "merging"} : Left(p) = {"scan", "batches"}
  BY <1>2, PhaseIndex
<1>5. /\ Left("analyzing") = {"scan", "batches", "narrative"}
      /\ Left("layering") = {"scan", "batches", "narrative", "analyses"}
      /\ Left("domaining") = {"scan", "batches", "narrative", "analyses", "layers"}
  BY <1>2, PhaseIndex
<1>6. \A p \in {"assembling", "assembled"} :
        Left(p) = {"scan", "batches", "narrative", "analyses", "layers", "domains"}
  BY <1>2, PhaseIndex
<1>7. \A p \in {"touring", "toured"} : Left(p) = Artifacts
  BY <1>2, PhaseIndex DEF Artifacts
<1> QED
  BY <1>3, <1>4, <1>5, <1>6, <1>7

\* What a step writes is of its own run, or no run's.
WritesOwn(r) == \A a \in Artifacts : disk'[a].by \in {disk[a].by, r, 0, -1}

\* Processes that do not overlap: the one that steps is the last to be started, and
\* what it writes is no other's.
LEMMA OthersLeave ==
  ASSUME PipelineInv, WorkInv, ~Overlapping, NEW r \in Runs,
         status[r] = "running" \/ MayStart(r), status'[r] # "idle", Alone(r), WritesOwn(r)
  PROVE  /\ OneAtATime'
         /\ \A q \in Runs \ {r} : /\ status'[q] # "running"
                                  /\ status'[q] # "crashed" /\ Latest(q)' => LeavesItsWork(q)'
<1>0. /\ TypeOK /\ OneAtATime /\ status[r] \notin Ended
      /\ \A q \in Runs : status[q] \in {"idle", "running"} \cup Ended
  BY DEF PipelineInv, WorkInv, TypeOK, MayStart, Ended
<1>1. \A q \in Runs : q < r => status[q] \in Ended
  BY <1>0 DEF OneAtATime, MayStart
<1>2. \A q \in Runs : q > r => status[q] = "idle"
  BY <1>0 DEF OneAtATime
<1>3. \A q \in Runs \ {r} : q < r \/ q > r
  BY DEF Runs
<1>4. OneAtATime'
  <2> SUFFICES ASSUME NEW p \in Runs, NEW q \in Runs, p < q, status'[q] # "idle"
               PROVE  status'[p] \in Ended
    BY DEF OneAtATime
  <2>1. p # r
    BY <1>2 DEF Alone, Runs
  <2>2. q = r \/ status[q] # "idle"
    BY DEF Alone
  <2>3. status[p] \in Ended
    BY <1>0, <1>1, <2>2 DEF OneAtATime
  <2> QED
    BY <2>1, <2>3 DEF Alone
<1>5. ASSUME NEW q \in Runs \ {r}, Latest(q)'
      PROVE  LeavesItsWork(q)'
  <2>1. q > r /\ status[q] = "idle"
    BY <1>2, <1>3, <1>5 DEF Latest
  <2>2. Latest(q)
    BY <1>2, <2>1 DEF Latest, Runs
  <2>3. phase[q] = "scanning"
    BY <2>1 DEF PipelineInv, HoldsRightGraph
  <2>4. \A a \in Artifacts : disk[a].by # q
    BY <2>1, <2>2, <2>3, LeftAt DEF WorkInv, LeavesItsWork
  <2>5. \A a \in Artifacts : disk'[a].by # q
    BY <2>4 DEF WritesOwn, Runs
  <2> QED
    BY <2>3, <2>5, LeftAt DEF LeavesItsWork, Alone
<1> QED
  BY <1>1, <1>2, <1>3, <1>4, <1>5 DEF Alone, Ended

\* A step of the one run under way, which writes what is its own.
LEMMA WorkStep ==
  ASSUME PipelineInv, WorkInv, ~Overlapping, NEW r \in Runs,
         status[r] = "running" \/ MayStart(r), status'[r] # "idle", Alone(r), WritesOwn(r),
         status'[r] # "crashed" => LeavesItsWork(r)',
         status'[r] = "running" => RemembersItsWork(r)'
  PROVE  WorkInv'
<1>1. /\ OneAtATime'
      /\ \A q \in Runs \ {r} : /\ status'[q] # "running"
                               /\ status'[q] # "crashed" /\ Latest(q)' => LeavesItsWork(q)'
  BY OthersLeave
<1>2. ASSUME NEW q \in Runs, status'[q] # "crashed", Latest(q)' PROVE LeavesItsWork(q)'
  <2>1. CASE q = r
    BY <1>2, <2>1 DEF LeavesItsWork
  <2> QED
    BY <1>1, <1>2, <2>1
<1>3. ASSUME NEW q \in Runs, status'[q] = "running" PROVE RemembersItsWork(q)'
  <2>1. CASE q = r
    BY <1>3, <2>1 DEF RemembersItsWork
  <2> QED
    BY <1>1, <1>3, <2>1
<1> QED
  BY <1>1, <1>2, <1>3 DEF WorkInv

\* A running process is the latest, and its work is on disk.
LEMMA RunningIsLatest ==
  ASSUME PipelineInv, WorkInv, NEW r \in Runs, status[r] = "running"
  PROVE  Latest(r) /\ LeavesItsWork(r) /\ RemembersItsWork(r)
<1>1. Latest(r)
  BY DEF WorkInv, OneAtATime, Latest, Ended
<1> QED
  BY <1>1 DEF WorkInv

\* No run has started.
LEMMA InitWorkInv == Init => WorkInv
<1> SUFFICES ASSUME Init PROVE WorkInv
  OBVIOUS
<1>1. \A a \in Artifacts : disk[a].by = 0
  BY DEF Init, Absent
<1>2. \A r \in Runs : status[r] = "idle" /\ phase[r] = "scanning"
  BY DEF Init
<1>3. \A r \in Runs : LeavesItsWork(r)
  BY <1>1, <1>2, LeftAt DEF LeavesItsWork, Runs
<1> QED
  BY <1>2, <1>3 DEF WorkInv, OneAtATime

\* Starting leaves the disk to the run before.
LEMMA StartKeepsWork ==
  ASSUME PipelineInv, WorkInv, ~Overlapping, NEW r \in Runs, MayStart(r),
         UNCHANGED <<disk, phase>>, Alone(r), status'[r] \in {"running", "failed"}
  PROVE  WorkInv'
<1>1. status[r] = "idle" /\ phase'[r] = "scanning"
  BY DEF MayStart, PipelineInv, HoldsRightGraph
<1>2. Latest(r)
  <2>1. \A q \in Runs : q > r /\ status[q] # "idle" => status[r] \in Ended
    BY DEF WorkInv, OneAtATime
  <2> QED
    BY <1>1, <2>1 DEF Latest, Ended
<1>3. LeavesItsWork(r)
  BY <1>1, <1>2 DEF WorkInv
<1>4. LeavesItsWork(r)'
  BY <1>1, <1>3, LeftAt DEF LeavesItsWork
<1>5. RemembersItsWork(r)'
  BY <1>1, LeftAt, PhaseIndex DEF RemembersItsWork, Before
<1> QED
  BY <1>4, <1>5, WorkStep DEF WritesOwn

\* So does ending, before the tour is in.
LEMMA EndsKeepsWork ==
  ASSUME PipelineInv, WorkInv, ~Overlapping, NEW r \in Runs, NEW how \in {"failed", "done"},
         status[r] = "running", Ends(r, how), UNCHANGED disk,
         how = "done" => phase[r] # "toured"
  PROVE  WorkInv'
<1>1. Alone(r) /\ status'[r] = how /\ phase' = phase
  BY EndsKeepsTypes DEF PipelineInv, Alone, Ended
<1>2. LeavesItsWork(r)
  BY RunningIsLatest
<1>3. LeavesItsWork(r)'
  BY <1>1, <1>2 DEF LeavesItsWork
<1> QED
  BY <1>1, <1>3, WorkStep DEF WritesOwn

\* A run that dies leaves what it wrote.
LEMMA CrashKeepsWork ==
  ASSUME PipelineInv, WorkInv, ~Overlapping, NEW r \in Runs, Crash(r)
  PROVE  WorkInv'
<1>1. Alone(r) /\ status'[r] = "crashed" /\ status[r] = "running"
  BY EndsKeepsTypes DEF PipelineInv, Alone, Ended, Crash
<1>2. WritesOwn(r)
  <2>1. CASE disk' = disk
    BY <2>1 DEF WritesOwn
  <2>2. CASE disk' = [a \in Artifacts |->
               CASE a = Written[phase[r]] -> Torn
                 [] a = "narrative" /\ Written[phase[r]] = "scan" -> Absent
                 [] OTHER -> disk[a]]
    BY <2>2 DEF WritesOwn, Torn, Absent
  <2> QED
    BY <2>1, <2>2 DEF Crash
<1> QED
  BY <1>1, <1>2, WorkStep

\* A step of the scan, of the syntheses or of the graph's is one process's.
LEMMA StepIsAlone ==
  ASSUME TypeOK, NEW r \in Runs,
         \/ ScanProject(r) \/ WriteScanResult(r) \/ ComputeBatches(r) \/ ReadBatches(r)
         \/ ReadScanResult(r) \/ MergeNarrative(r) \/ AnalyzeFiles(r)
         \/ WriteArchitecture(r) \/ WriteDomains(r) \/ Assemble(r)
         \/ WriteAssembledGraph(r) \/ StampTour(r)
         \/ \E v \in Reviewers, reply \in Replies : ReviewerEnds(r, v, reply)
  PROVE  Alone(r) /\ status[r] = "running" /\ status'[r] = "running"
<1> USE DEF TypeOK, Alone, In, GoTo
<1>1. CASE ScanProject(r) \/ WriteScanResult(r) \/ ComputeBatches(r)
  BY <1>1 DEF ScanProject, WriteScanResult, ComputeBatches
<1>2. CASE ReadBatches(r) \/ ReadScanResult(r) \/ MergeNarrative(r)
  BY <1>2 DEF ReadBatches, ReadScanResult, MergeNarrative
<1>3. CASE AnalyzeFiles(r) \/ WriteArchitecture(r) \/ WriteDomains(r)
  BY <1>3 DEF AnalyzeFiles, WriteArchitecture, WriteDomains
<1>4. CASE Assemble(r) \/ WriteAssembledGraph(r) \/ StampTour(r)
  BY <1>4 DEF Assemble, WriteAssembledGraph, StampTour
<1>5. CASE \E v \in Reviewers, reply \in Replies : ReviewerEnds(r, v, reply)
  BY <1>5 DEF ReviewerEnds
<1> QED
  BY <1>1, <1>2, <1>3, <1>4, <1>5

\* What is left when the scan is under way, artifact by artifact.
LEMMA ScanKeepsWork ==
  ASSUME PipelineInv, WorkInv, ~Overlapping, NEW r \in Runs,
         \/ ScanProject(r) \/ WriteScanResult(r) \/ ComputeBatches(r)
         \/ ReadBatches(r) \/ ReadScanResult(r) \/ MergeNarrative(r)
  PROVE  WorkInv'
<1>0. /\ TypeOK /\ mem[r] \in Memory /\ r # 0 /\ r # -1 /\ "scan" \in Artifacts
      /\ Alone(r) /\ status[r] = "running" /\ status'[r] = "running"
  BY StepIsAlone DEF PipelineInv, TypeOK, Runs, Artifacts
<1>a. LeavesItsWork(r) /\ RemembersItsWork(r)
  BY <1>0, RunningIsLatest
<1> SUFFICES LeavesItsWork(r)' /\ RemembersItsWork(r)' /\ WritesOwn(r)
  BY <1>0, WorkStep
<1> USE LeftAt, PhaseIndex DEF Before
<1>1. CASE ScanProject(r)
  <2>1. /\ phase[r] = "scanning" /\ phase'[r] = "importing" /\ disk' = disk
    BY <1>0, <1>1 DEF ScanProject, In, GoTo, TypeOK
  <2>2. LeavesItsWork(r)' /\ WritesOwn(r)
    BY <1>a, <2>1 DEF LeavesItsWork, WritesOwn
  <2>3. RemembersItsWork(r)'
    BY <2>1 DEF RemembersItsWork
  <2> QED
    BY <2>2, <2>3
<1>2. CASE WriteScanResult(r)
  <2>1. /\ phase[r] = "importing" /\ phase'[r] = "batching" /\ mem' = mem
        /\ disk' = [disk EXCEPT !["scan"] = Content(r, mem[r].scan), !["narrative"] = Absent]
    BY <1>0, <1>2 DEF WriteScanResult, In, GoTo, TypeOK
  <2>2. /\ disk'["scan"] = Content(r, mem[r].scan) /\ disk'["narrative"] = Absent
        /\ \A a \in Artifacts \ {"scan", "narrative"} : disk'[a] = disk[a]
    BY <1>0, <2>1 DEF TypeOK, Artifacts
  <2>3. LeavesItsWork(r)' /\ WritesOwn(r)
    <3>1. disk'["scan"].by = r /\ disk'["narrative"].by = 0
      BY <2>2 DEF Content, Absent
    <3>2. \A a \in Artifacts \ {"scan"} : disk'[a].by # r
      <4>1. \A a \in Artifacts : disk[a].by # r
        BY <1>a, <2>1 DEF LeavesItsWork
      <4> QED
        BY <1>0, <2>2, <3>1, <4>1
    <3>3. LeavesItsWork(r)'
      BY <1>0, <2>1, <3>1, <3>2 DEF LeavesItsWork
    <3>4. WritesOwn(r)
      BY <2>2, <3>1 DEF WritesOwn
    <3> QED
      BY <3>3, <3>4
  <2>4. RemembersItsWork(r)'
    BY <1>0, <2>1, <2>2 DEF RemembersItsWork, Content
  <2> QED
    BY <2>3, <2>4
<1>3. CASE ComputeBatches(r)
  <2>1. /\ phase[r] = "batching" /\ phase'[r] = "batched" /\ mem' = mem
        /\ disk' = [disk EXCEPT !["batches"] = Content(r, disk["scan"].files)]
    BY <1>0, <1>3 DEF ComputeBatches, In, GoTo, TypeOK, Write
  <2>2. /\ disk'["batches"] = Content(r, disk["scan"].files)
        /\ \A a \in Artifacts \ {"batches"} : disk'[a] = disk[a]
    BY <1>0, <2>1 DEF TypeOK, Artifacts
  <2>3. LeavesItsWork(r)' /\ WritesOwn(r)
    BY <1>0, <1>a, <2>1, <2>2 DEF LeavesItsWork, WritesOwn, Content
  <2>4. RemembersItsWork(r)'
    BY <1>0, <1>a, <2>1, <2>2 DEF RemembersItsWork, Content
  <2> QED
    BY <2>3, <2>4
<1>4. CASE ReadBatches(r)
  <2>1. /\ phase[r] = "batched" /\ phase'[r] = "narrating" /\ disk' = disk
        /\ mem'[r] = [mem[r] EXCEPT !.batches = disk["batches"].files]
    BY <1>0, <1>4 DEF ReadBatches, In, GoTo, TypeOK
  <2>2. LeavesItsWork(r)' /\ WritesOwn(r)
    BY <1>a, <2>1 DEF LeavesItsWork, WritesOwn
  <2>3. mem'[r].batches = disk["batches"].files /\ mem'[r].scan = mem[r].scan
    BY <1>0, <2>1 DEF Memory
  <2>4. RemembersItsWork(r)'
    BY <1>a, <2>1, <2>3 DEF RemembersItsWork, LeavesItsWork
  <2> QED
    BY <2>2, <2>4
<1>5. CASE ReadScanResult(r)
  <2>1. /\ phase[r] = "narrating" /\ phase'[r] = "merging" /\ disk' = disk
        /\ mem'[r] = [mem[r] EXCEPT !.read = disk["scan"]]
    BY <1>0, <1>5 DEF ReadScanResult, In, GoTo, TypeOK
  <2>2. LeavesItsWork(r)' /\ WritesOwn(r)
    BY <1>a, <2>1 DEF LeavesItsWork, WritesOwn
  <2>3. /\ mem'[r].batches = mem[r].batches /\ mem'[r].scan = mem[r].scan
        /\ mem'[r].read = disk["scan"]
    BY <1>0, <2>1 DEF Memory
  <2>4. RemembersItsWork(r)'
    BY <1>a, <2>1, <2>3 DEF RemembersItsWork
  <2> QED
    BY <2>2, <2>4
<1>6. CASE MergeNarrative(r)
  <2>1. /\ phase[r] = "merging" /\ phase'[r] = "analyzing" /\ mem' = mem
        /\ disk' = [disk EXCEPT !["scan"] = mem[r].read,
                                !["narrative"] = Content(r, mem[r].read.files)]
    BY <1>0, <1>6 DEF MergeNarrative, In, GoTo, TypeOK
  <2>2. mem[r].read = disk["scan"] /\ disk["scan"].by = r
    BY <1>0, <1>a, <2>1 DEF RemembersItsWork, LeavesItsWork
  <2>3. /\ disk'["scan"] = disk["scan"] /\ disk'["narrative"] = Content(r, disk["scan"].files)
        /\ \A a \in Artifacts \ {"scan", "narrative"} : disk'[a] = disk[a]
    BY <1>0, <2>1, <2>2 DEF TypeOK, Artifacts
  <2>4. LeavesItsWork(r)' /\ WritesOwn(r)
    <3>1. disk'["narrative"].by = r /\ disk'["narrative"].files = disk'["scan"].files
      BY <2>3 DEF Content
    <3>0. /\ \A a \in Artifacts : disk[a].by = r <=> a \in {"scan", "batches"}
          /\ disk["batches"].files = disk["scan"].files
      BY <1>a, <2>1 DEF LeavesItsWork
    <3>2. \A a \in Artifacts : disk'[a].by = r <=> a \in {"scan", "batches", "narrative"}
      BY <1>0, <2>3, <3>0, <3>1
    <3>3. \A a \in {"scan", "batches", "narrative"} : disk'[a].files = disk'["scan"].files
      <4>1. disk'["batches"].files = disk'["scan"].files
        BY <2>3, <3>0 DEF Artifacts
      <4> QED
        BY <3>1, <4>1
    <3>4. LeavesItsWork(r)'
      BY <2>1, <3>2, <3>3 DEF LeavesItsWork
    <3>5. WritesOwn(r)
      BY <2>3, <3>1 DEF WritesOwn
    <3> QED
      BY <3>4, <3>5
  <2>5. RemembersItsWork(r)'
    BY <1>0, <1>a, <2>1, <2>3 DEF RemembersItsWork
  <2> QED
    BY <2>4, <2>5
<1> QED
  BY <1>1, <1>2, <1>3, <1>4, <1>5, <1>6

\* The artifacts made on the way to the graph.
LEMMA SynthesisKeepsWork ==
  ASSUME PipelineInv, WorkInv, ~Overlapping, NEW r \in Runs,
         AnalyzeFiles(r) \/ WriteArchitecture(r) \/ WriteDomains(r)
  PROVE  WorkInv'
<1>0. /\ TypeOK /\ mem[r] \in Memory /\ r # 0 /\ r # -1
      /\ Alone(r) /\ status[r] = "running" /\ status'[r] = "running"
  BY StepIsAlone DEF PipelineInv, TypeOK, Runs
<1>a. LeavesItsWork(r) /\ RemembersItsWork(r)
  BY <1>0, RunningIsLatest
<1> SUFFICES LeavesItsWork(r)' /\ RemembersItsWork(r)' /\ WritesOwn(r)
  BY <1>0, WorkStep
<1> USE LeftAt, PhaseIndex DEF Before
<1>1. CASE AnalyzeFiles(r)
  <2>1. PICK S \in SUBSET mem[r].batches :
          /\ mem' = [mem EXCEPT ![r].analyses = S]
          /\ Write("analyses", Content(r, S))
    BY <1>1 DEF AnalyzeFiles
  <2>2. /\ phase[r] = "analyzing" /\ phase'[r] = "layering"
        /\ mem'[r] = [mem[r] EXCEPT !.analyses = S]
        /\ disk' = [disk EXCEPT !["analyses"] = Content(r, S)]
    BY <1>0, <1>1, <2>1 DEF AnalyzeFiles, In, GoTo, TypeOK, Write
  <2>3. /\ disk'["analyses"].by = r /\ disk'["analyses"].files = S
        /\ \A a \in Artifacts \ {"analyses"} : disk'[a] = disk[a]
    BY <1>0, <2>2 DEF TypeOK, Artifacts, Content
  <2>4. /\ \A a \in Artifacts : disk[a].by = r <=> a \in {"scan", "batches", "narrative"}
        /\ disk["batches"].files = disk["scan"].files
        /\ disk["narrative"].files = disk["scan"].files
        /\ mem[r].scan = disk["scan"].files /\ mem[r].batches = mem[r].scan
    BY <1>a, <2>2 DEF LeavesItsWork, RemembersItsWork
  <2>5. \A a \in Artifacts :
          disk'[a].by = r <=> a \in {"scan", "batches", "narrative", "analyses"}
    BY <1>0, <2>3, <2>4
  <2>6. LeavesItsWork(r)'
    BY <2>2, <2>3, <2>4, <2>5 DEF LeavesItsWork, Artifacts
  <2>7. /\ mem'[r].scan = mem[r].scan /\ mem'[r].batches = mem[r].batches
        /\ mem'[r].analyses = S /\ disk'["scan"] = disk["scan"]
    BY <1>0, <2>2, <2>3 DEF Memory, Artifacts
  <2>8. RemembersItsWork(r)'
    BY <2>2, <2>3, <2>4, <2>7 DEF RemembersItsWork
  <2>9. WritesOwn(r)
    BY <2>3 DEF WritesOwn
  <2> QED
    BY <2>6, <2>8, <2>9
<1>2. CASE WriteArchitecture(r)
  <2>2. /\ phase[r] = "layering" /\ phase'[r] = "domaining" /\ mem' = mem
        /\ disk' = [disk EXCEPT !["layers"] = Content(r, mem[r].scan)]
    BY <1>0, <1>2 DEF WriteArchitecture, In, GoTo, TypeOK, Write
  <2>3. /\ disk'["layers"].by = r /\ disk'["layers"].files = mem[r].scan
        /\ \A a \in Artifacts \ {"layers"} : disk'[a] = disk[a]
    BY <1>0, <2>2 DEF TypeOK, Artifacts, Content
  <2>4. /\ \A a \in Artifacts :
             disk[a].by = r <=> a \in {"scan", "batches", "narrative", "analyses"}
        /\ disk["batches"].files = disk["scan"].files
        /\ disk["narrative"].files = disk["scan"].files
        /\ disk["analyses"].files \subseteq disk["scan"].files
        /\ mem[r].scan = disk["scan"].files
    BY <1>a, <2>2 DEF LeavesItsWork, RemembersItsWork
  <2>5. \A a \in Artifacts :
          disk'[a].by = r <=> a \in {"scan", "batches", "narrative", "analyses", "layers"}
    BY <1>0, <2>3, <2>4
  <2>6. LeavesItsWork(r)'
    BY <2>2, <2>3, <2>4, <2>5 DEF LeavesItsWork, Artifacts
  <2>8. RemembersItsWork(r)'
    BY <1>a, <2>2, <2>3 DEF RemembersItsWork, Artifacts
  <2>9. WritesOwn(r)
    BY <2>3 DEF WritesOwn
  <2> QED
    BY <2>6, <2>8, <2>9
<1>3. CASE WriteDomains(r)
  <2>2. /\ phase[r] = "domaining" /\ phase'[r] = "assembling" /\ mem' = mem
        /\ disk' = [disk EXCEPT !["domains"] = Content(r, mem[r].scan)]
        /\ mem[r].scan # {}
    BY <1>0, <1>3 DEF WriteDomains, In, GoTo, TypeOK, Write
  <2>3. /\ disk'["domains"].by = r /\ disk'["domains"].files = mem[r].scan
        /\ \A a \in Artifacts \ {"domains"} : disk'[a] = disk[a]
    BY <1>0, <2>2 DEF TypeOK, Artifacts, Content
  <2>4. /\ \A a \in Artifacts :
             disk[a].by = r <=> a \in {"scan", "batches", "narrative", "analyses", "layers"}
        /\ disk["batches"].files = disk["scan"].files
        /\ disk["narrative"].files = disk["scan"].files
        /\ disk["layers"].files = disk["scan"].files
        /\ disk["analyses"].files \subseteq disk["scan"].files
        /\ mem[r].scan = disk["scan"].files
    BY <1>a, <2>2 DEF LeavesItsWork, RemembersItsWork
  <2>5. \A a \in Artifacts :
          disk'[a].by = r <=>
            a \in {"scan", "batches", "narrative", "analyses", "layers", "domains"}
    BY <1>0, <2>3, <2>4
  <2>6. LeavesItsWork(r)'
    BY <2>2, <2>3, <2>4, <2>5 DEF LeavesItsWork, Artifacts
  <2>8. RemembersItsWork(r)'
    BY <1>a, <2>2, <2>3 DEF RemembersItsWork, Artifacts
  <2>9. WritesOwn(r)
    BY <2>3 DEF WritesOwn
  <2> QED
    BY <2>6, <2>8, <2>9
<1> QED
  BY <1>1, <1>2, <1>3

\* The graph: assembled from what the process remembers, judged, written, stamped
\* and rewritten.
LEMMA GraphKeepsWork ==
  ASSUME PipelineInv, WorkInv, ~Overlapping, NEW r \in Runs,
         \/ Assemble(r) \/ WriteAssembledGraph(r) \/ StampTour(r)
         \/ \E v \in Reviewers, reply \in Replies : ReviewerEnds(r, v, reply)
  PROVE  WorkInv'
<1>0. /\ TypeOK /\ mem[r] \in Memory /\ r # 0 /\ r # -1 /\ "graph" \in Artifacts
      /\ Alone(r) /\ status[r] = "running" /\ status'[r] = "running"
  BY StepIsAlone DEF PipelineInv, TypeOK, Runs, Artifacts
<1>a. LeavesItsWork(r) /\ RemembersItsWork(r)
  BY <1>0, RunningIsLatest
<1> SUFFICES LeavesItsWork(r)' /\ RemembersItsWork(r)' /\ WritesOwn(r)
  BY <1>0, WorkStep
<1> USE LeftAt, PhaseIndex DEF Before
<1>1. CASE Assemble(r)
  <2>1. /\ phase[r] = "assembling" /\ phase'[r] = "assembled" /\ disk' = disk
        /\ mem'[r] = [mem[r] EXCEPT !.graph = AssembledGraph(r)]
    BY <1>0, <1>1 DEF Assemble, In, GoTo, TypeOK
  <2>2. LeavesItsWork(r)' /\ WritesOwn(r)
    BY <1>a, <2>1 DEF LeavesItsWork, WritesOwn
  <2>3. /\ mem'[r].scan = mem[r].scan /\ mem'[r].batches = mem[r].batches
        /\ mem'[r].analyses = mem[r].analyses /\ mem'[r].graph = AssembledGraph(r)
    BY <1>0, <2>1 DEF Memory
  <2>4. mem[r].analyses \subseteq mem[r].scan
    BY <1>a, <2>1 DEF LeavesItsWork, RemembersItsWork
  <2>5. /\ AssembledGraph(r).files = mem[r].scan
        /\ AssembledGraph(r).analysed = mem[r].analyses
    BY <2>4 DEF AssembledGraph
  <2>6. RemembersItsWork(r)'
    BY <1>a, <2>1, <2>3, <2>5 DEF RemembersItsWork
  <2> QED
    BY <2>2, <2>6
<1>2. CASE WriteAssembledGraph(r)
  <2> DEFINE g == mem[r].graph
             h == [g EXCEPT !.assemble = verdicts[r]]
  <2>1. /\ phase[r] = "assembled" /\ phase'[r] = "touring"
        /\ mem'[r] = [mem[r] EXCEPT !.graph = h]
        /\ disk' = [disk EXCEPT !["graph"] = h]
    BY <1>0, <1>2 DEF WriteAssembledGraph, In, GoTo, TypeOK, Write
  <2>2. g \in Graph /\ g.by = r /\ g.tour = FALSE
    BY <1>0, <2>1 DEF PipelineInv, HoldsRightGraph, Holds, In
  <2>3. h.by = r /\ h.tour = FALSE /\ h.files = g.files /\ h.analysed = g.analysed
    BY <2>2 DEF Graph
  <2> HIDE DEF h
  <2>4. disk'["graph"] = h /\ \A a \in Artifacts \ {"graph"} : disk'[a] = disk[a]
    BY <1>0, <2>1 DEF TypeOK, Artifacts
  <2>5. /\ \A a \in Artifacts : disk[a].by = r <=> a # "graph"
        /\ \A a \in Artifacts \ {"graph", "analyses"} : disk[a].files = disk["scan"].files
        /\ disk["analyses"].files \subseteq disk["scan"].files
        /\ mem[r].scan = disk["scan"].files /\ mem[r].analyses = disk["analyses"].files
        /\ g.files = mem[r].scan /\ g.analysed = mem[r].analyses
    BY <1>a, <2>1 DEF LeavesItsWork, RemembersItsWork, Artifacts
  <2>6. \A a \in Artifacts : disk'[a].by = r
    BY <2>3, <2>4, <2>5
  <2>7. /\ \A a \in Artifacts \ {"analyses"} : disk'[a].files = disk'["scan"].files
        /\ disk'["analyses"].files \subseteq disk'["scan"].files
        /\ disk'["graph"].analysed = disk'["analyses"].files
        /\ disk'["graph"].tour = FALSE
    BY <2>3, <2>4, <2>5 DEF Artifacts
  <2>8. LeavesItsWork(r)'
    BY <2>1, <2>6, <2>7 DEF LeavesItsWork
  <2>9. /\ mem'[r].scan = mem[r].scan /\ mem'[r].batches = mem[r].batches
        /\ mem'[r].analyses = mem[r].analyses /\ mem'[r].graph = h
    BY <1>0, <2>1 DEF Memory
  <2>10. disk'["scan"] = disk["scan"] /\ disk'["analyses"] = disk["analyses"]
    BY <2>4 DEF Artifacts
  <2>11. RemembersItsWork(r)'
    BY <1>a, <2>1, <2>3, <2>5, <2>9, <2>10 DEF RemembersItsWork, Artifacts
  <2>12. WritesOwn(r)
    BY <2>3, <2>4 DEF WritesOwn
  <2> QED
    BY <2>8, <2>11, <2>12
<1>3. CASE StampTour(r)
  <2> DEFINE g == mem[r].graph
  <2>1. /\ phase[r] = "touring" /\ phase'[r] = "toured" /\ disk' = disk
        /\ mem'[r] = [mem[r] EXCEPT !.graph = [g EXCEPT !.tour = TRUE]]
    BY <1>0, <1>3 DEF StampTour, In, GoTo, TypeOK
  <2>2. g \in Graph
    BY <1>0, <2>1 DEF PipelineInv, HoldsRightGraph, Holds, In
  <2>3. /\ mem'[r].scan = mem[r].scan /\ mem'[r].batches = mem[r].batches
        /\ mem'[r].analyses = mem[r].analyses /\ mem'[r].graph.files = g.files
        /\ mem'[r].graph.analysed = g.analysed
    BY <1>0, <2>1, <2>2 DEF Memory, Graph
  <2>4. LeavesItsWork(r)' /\ WritesOwn(r)
    BY <1>0, <1>a, <2>1 DEF LeavesItsWork, WritesOwn
  <2>5. RemembersItsWork(r)'
    BY <1>a, <2>1, <2>3 DEF RemembersItsWork, Artifacts
  <2> QED
    BY <2>4, <2>5
<1>4. CASE \E v \in Reviewers, reply \in Replies : ReviewerEnds(r, v, reply)
  <2>1. UNCHANGED <<status, phase, mem, disk>>
    BY <1>4 DEF ReviewerEnds
  <2> QED
    BY <1>a, <2>1 DEF LeavesItsWork, RemembersItsWork, WritesOwn
<1> QED
  BY <1>1, <1>2, <1>3, <1>4

\* What knowledge-graph.json is when its tour is in.
LEMMA RewriteGraphShape ==
  ASSUME PipelineInv, NEW r \in Runs, RewriteGraph(r)
  PROVE  /\ phase[r] = "toured" /\ phase' = phase /\ status[r] = "running"
         /\ status'[r] = "done" /\ Alone(r)
         /\ \A a \in Artifacts \ {"graph"} : disk'[a] = disk[a]
         /\ disk'["graph"].by = r /\ disk'["graph"].tour = TRUE
         /\ disk'["graph"].files = mem[r].graph.files
         /\ disk'["graph"].analysed = mem[r].graph.analysed
<1> DEFINE g == mem[r].graph
           h == [g EXCEPT !.review = verdicts[r]]
<1>0. TypeOK
  BY DEF PipelineInv
<1>1. phase[r] = "toured" /\ status[r] = "running" /\ disk' = [disk EXCEPT !["graph"] = h]
  BY DEF RewriteGraph, In, Write
<1>2. g \in Graph /\ g.by = r /\ g.tour = TRUE
  BY <1>1 DEF PipelineInv, HoldsRightGraph, Holds, In
<1>3. h.by = r /\ h.tour = TRUE /\ h.files = g.files /\ h.analysed = g.analysed
  BY <1>2 DEF Graph
<1>4. disk'["graph"] = h /\ \A a \in Artifacts \ {"graph"} : disk'[a] = disk[a]
  BY <1>0, <1>1 DEF TypeOK, Artifacts
<1>5. Alone(r) /\ status'[r] = "done" /\ phase' = phase
  BY <1>0, EndsKeepsTypes DEF RewriteGraph, Alone, Ended
<1> QED
  BY <1>1, <1>3, <1>4, <1>5

\* The graph is rewritten by the run that wrote it, or over that of another.
LEMMA RewriteGraphKeepsWork ==
  ASSUME PipelineInv, WorkInv, ~Overlapping, NEW r \in Runs, RewriteGraph(r)
  PROVE  WorkInv'
<1>1. /\ phase[r] = "toured" /\ phase'[r] = "toured" /\ status[r] = "running"
      /\ status'[r] = "done" /\ Alone(r)
      /\ \A a \in Artifacts \ {"graph"} : disk'[a] = disk[a]
      /\ disk'["graph"].by = r /\ disk'["graph"].tour = TRUE
      /\ disk'["graph"].files = mem[r].graph.files
      /\ disk'["graph"].analysed = mem[r].graph.analysed
  BY RewriteGraphShape
<1>2. /\ \A a \in Artifacts : disk[a].by = r
      /\ \A a \in Artifacts \ {"analyses"} : disk[a].files = disk["scan"].files
      /\ disk["analyses"].files \subseteq disk["scan"].files
      /\ mem[r].graph.files = disk["scan"].files
      /\ mem[r].graph.analysed = disk["analyses"].files
  BY <1>1, RunningIsLatest, LeftAt DEF LeavesItsWork, RemembersItsWork, Artifacts
<1>3. /\ \A a \in Artifacts : disk'[a].by = r
      /\ \A a \in Artifacts \ {"analyses"} : disk'[a].files = disk'["scan"].files
      /\ disk'["analyses"].files \subseteq disk'["scan"].files
      /\ disk'["graph"].analysed = disk'["analyses"].files
  BY <1>1, <1>2 DEF Artifacts
<1>4. LeavesItsWork(r)'
  BY <1>1, <1>3, LeftAt DEF LeavesItsWork
<1>5. WritesOwn(r)
  BY <1>1 DEF WritesOwn
<1> QED
  BY <1>1, <1>4, <1>5, WorkStep

\* Every step of processes that do not overlap.
LEMMA NextPreservesWorkInv ==
  ASSUME PipelineInv, WorkInv, ~Overlapping, [Next]_vars
  PROVE  WorkInv'
<1>1. CASE Edit \/ UNCHANGED vars
  <2>1. UNCHANGED <<status, phase, mem, disk>>
    BY <1>1 DEF Edit, vars
  <2> QED
    BY <2>1 DEF WorkInv, OneAtATime, Latest, LeavesItsWork, RemembersItsWork
<1>2. ASSUME NEW r \in Runs, Start(r) PROVE WorkInv'
  <2>1. MayStart(r) /\ UNCHANGED <<disk, phase>> /\ Alone(r) /\ status'[r] = "running"
    BY <1>2 DEF Start, PipelineInv, TypeOK, Alone
  <2> QED
    BY <2>1, StartKeepsWork
<1>3. ASSUME NEW r \in Runs, Throws(r) PROVE WorkInv'
  BY <1>3, EndsKeepsWork DEF Throws
<1>4. ASSUME NEW r \in Runs, Step(r) PROVE WorkInv'
  BY <1>3, <1>4, ScanKeepsWork, SynthesisKeepsWork, GraphKeepsWork, RewriteGraphKeepsWork
     DEF Step
<1> QED
  BY <1>1, <1>2, <1>4, CrashKeepsWork DEF Next

\* The inductive invariant of processes that do not overlap.
THEOREM PipelineWork == ASSUME ~Overlapping PROVE Spec => []WorkInv
<1>1. PipelineInv /\ WorkInv /\ [Next]_vars => WorkInv'
  BY NextPreservesWorkInv
<1> QED
  BY <1>1, InitWorkInv, PipelineInvariant, PTL DEF Spec

\* What a failure leaves, from the invariant.
LEMMA WorkIsKept == WorkInv => FailureKeepsArtifacts
<1> SUFFICES ASSUME WorkInv, NEW r \in Runs, status[r] = "failed", Latest(r),
                    NEW p \in DOMAIN Written, Before(p, phase[r])
             PROVE  IsOf(Written[p], r)
  BY DEF FailureKeepsArtifacts
<1>1. Written[p] \in Left(phase[r])
  BY DEF Left
<1>2. Written[p] \in Artifacts
  BY DEF Written, Artifacts
<1>3. disk[Written[p]].by = r
  BY <1>1, <1>2 DEF WorkInv, LeavesItsWork
<1> QED
  BY <1>3 DEF IsOf, IsWhole, Runs

\* Whatever throws, and whatever crashed before it, what the phases before have
\* written stays on disk, whole and of this run (orchestrator.ts:384-385, 484-486,
\* 669-670), as long as processes do not overlap.
THEOREM PipelineKeepsArtifacts == ASSUME ~Overlapping PROVE Spec => []FailureKeepsArtifacts
  BY WorkIsKept, PipelineWork, PTL

-----------------------------------------------------------------------------
(* The command lines                                                       *)


\* A command does to the pipeline's state what the pipeline does, or ends its
\* process earlier, with the artifacts as they are.
LEMMA CommandIsPipeline ==
  ASSUME [CommandNext]_cvars
  PROVE  \/ [Next]_vars
         \/ \E r \in Runs, how \in Ended : Ends(r, how) /\ UNCHANGED disk
<1>1. CASE UNCHANGED cvars
  BY <1>1 DEF cvars
<1>2. CASE Edit /\ UNCHANGED <<command, limit, shown>>
  BY <1>2 DEF Next
<1>3. ASSUME NEW r \in Runs, NEW c \in Bins,
             UsageError(r, c) \/ \E arg \in ConcurrencyArgs : Invoke(r, c, arg)
      PROVE  Next \/ (Ends(r, "failed") /\ UNCHANGED disk)
  BY <1>3 DEF UsageError, Exit, Invoke, Next
<1>4. ASSUME NEW r \in Runs, GoesOn(r) \/ FansOut(r) \/ Fails(r) \/ Killed(r)
      PROVE  Next
  BY <1>4 DEF GoesOn, FansOut, Fails, Killed, Next, Step
<1>5. ASSUME NEW r \in Runs, Returns(r)
      PROVE  Next \/ (Ends(r, "done") /\ UNCHANGED disk)
  BY <1>5 DEF Returns, Exit, Next, Step
<1> QED
  BY <1>1, <1>2, <1>3, <1>4, <1>5 DEF CommandNext, CommandStep, Ended

\* A process that ends disturbs no graph.
LEMMA EndPreservesInv ==
  ASSUME PipelineInv, NEW r \in Runs, NEW how \in Ended, Ends(r, how), UNCHANGED disk
  PROVE  PipelineInv'
<1>0. TypeOK
  BY DEF PipelineInv
<1>1. Quiet(r)
  BY <1>0, EndsKeepsTypes DEF Quiet, Alone
<1>2. TypeOK'
  BY <1>0, EndsKeepsTypes DEF TypeOK
<1> QED
  BY <1>1, <1>2, QuietStep

\* The steps of the commands keep the invariant of the pipeline.
LEMMA CommandPreservesInv == PipelineInv /\ [CommandNext]_cvars => PipelineInv'
  BY CommandIsPipeline, NextPreservesPipelineInv, EndPreservesInv

\* The inductive invariant of the pipeline holds under its command lines.
THEOREM CommandInvariant == CommandSpec => []PipelineInv
<1>1. CommandInit => PipelineInv
  BY InitPipelineInv DEF CommandInit
<1> QED
  BY <1>1, CommandPreservesInv, PTL DEF CommandSpec

\* No command ever takes a file that is not there, or half of one, for content.
THEOREM CommandPipelineTypes == CommandSpec => []TypeOK
<1>1. PipelineInv => TypeOK
  BY DEF PipelineInv
<1> QED
  BY <1>1, CommandInvariant, PTL

\* Whatever commands are run on one directory, in whatever order and overlap, the
\* graph on disk carries full pairs of verdicts on itself and fails closed
\* (orchestrator.ts:609-702, face-off-reviewer.ts:136-386).
THEOREM CommandGraphAttests == CommandSpec => []GraphAttests
<1>1. PipelineInv => GraphAttests
  BY DEF PipelineInv
<1> QED
  BY <1>1, CommandInvariant, PTL

-----------------------------------------------------------------------------
\* What Math.max is for (scan-with-graph.ts:42-45).
LEMMA WidthIsPositive ==
  ASSUME NEW c, NEW arg \in ConcurrencyArgs
  PROVE  /\ Width(c, arg) \in Nat
         /\ c.fanOut => Width(c, arg) >= 1
<1>1. arg # "absent" => ParseInt[arg] \in Int
  BY CommandsAssumption DEF ParseInt
<1> QED
  BY <1>1, CommandsAssumption DEF Width, Concurrency

\* No process was started.
LEMMA InitCommandTypes == CommandInit => CommandTypeOK
BY CommandsAssumption DEF CommandInit, CommandTypeOK, NoCommand, NoExit

\* A process that exits leaves the others as they are.
LEMMA ExitKeepsCommandTypes ==
  ASSUME TypeOK, CommandTypeOK, NEW r \in Runs, NEW c \in Bins \cup {NoCommand},
         NEW how \in Ended, NEW n \in 0..2, Exit(r, c, how, n)
  PROVE  CommandTypeOK'
BY DEF Exit, Ends, TypeOK, CommandTypeOK, NoCommand

\* A step that keeps the commands and the widths, and takes no process back
\* before the fan-out.
LEMMA StaysKeepsCommandTypes ==
  ASSUME CommandTypeOK, UNCHANGED <<command, limit, shown, status>>,
         \A r \in Runs : phase'[r] \in UntilFanOut => phase[r] \in UntilFanOut
  PROVE  CommandTypeOK'
BY DEF CommandTypeOK

\* A process that goes on.
LEMMA GoesOnKeepsCommandTypes ==
  ASSUME TypeOK, CommandTypeOK, NEW r \in Runs, GoesOn(r)
  PROVE  CommandTypeOK'
<1>1. UNCHANGED <<command, limit, shown, status>>
  BY DEF GoesOn, ScanProject, WriteScanResult, ComputeBatches, ReadBatches, ReadScanResult,
         MergeNarrative, WriteArchitecture, WriteDomains, Assemble, ReviewerEnds,
         WriteAssembledGraph, StampTour, GoTo
<1>2. \A q \in Runs \ {r} : phase'[q] = phase[q]
  BY DEF GoesOn, ScanProject, WriteScanResult, ComputeBatches, ReadBatches, ReadScanResult,
         MergeNarrative, WriteArchitecture, WriteDomains, Assemble, ReviewerEnds,
         WriteAssembledGraph, StampTour, GoTo, TypeOK
<1>3. phase'[r] \in UntilFanOut => phase[r] \in UntilFanOut
  BY DEF GoesOn, ScanProject, WriteScanResult, ComputeBatches, ReadBatches, ReadScanResult,
         MergeNarrative, WriteArchitecture, WriteDomains, Assemble, ReviewerEnds,
         WriteAssembledGraph, StampTour, GoTo, TypeOK, In, UntilFanOut
<1> QED
  BY <1>1, <1>2, <1>3, StaysKeepsCommandTypes

\* A process that fans out.
LEMMA FansOutKeepsCommandTypes ==
  ASSUME TypeOK, CommandTypeOK, NEW r \in Runs, FansOut(r)
  PROVE  CommandTypeOK'
<1>1. /\ UNCHANGED <<command, shown, status>>
      /\ limit' = [limit EXCEPT ![r] = 0]
      /\ phase' = [phase EXCEPT ![r] = "layering"]
  BY DEF FansOut, AnalyzeFiles, GoTo
<1> QED
  BY <1>1 DEF TypeOK, CommandTypeOK, UntilFanOut

\* A process that is started.
LEMMA InvokeKeepsCommandTypes ==
  ASSUME TypeOK, CommandTypeOK, NEW r \in Runs, NEW c \in Bins, NEW arg \in ConcurrencyArgs,
         Invoke(r, c, arg)
  PROVE  CommandTypeOK'
<1>1. /\ command' = [command EXCEPT ![r] = c] /\ shown' = NoExit
      /\ limit' = [limit EXCEPT ![r] = Width(c, arg)]
      /\ phase' = phase /\ status' = [status EXCEPT ![r] = "running"]
  BY DEF Invoke, Start
<1>2. NoExit \in [run : Runs \cup {0}, command : Bins \cup {NoCommand}, code : 0..2]
  BY DEF NoExit
<1> QED
  BY <1>1, <1>2, WidthIsPositive DEF TypeOK, CommandTypeOK

\* Every step keeps the types of the command lines.
LEMMA NextKeepsCommandTypes ==
  ASSUME TypeOK, CommandTypeOK, [CommandNext]_cvars
  PROVE  CommandTypeOK'
<1>1. CASE UNCHANGED cvars \/ (Edit /\ UNCHANGED <<command, limit, shown>>)
  BY <1>1, StaysKeepsCommandTypes DEF cvars, vars, Edit
<1>2. ASSUME NEW r \in Runs, NEW c \in Bins, UsageError(r, c) PROVE CommandTypeOK'
  <2>1. PICK n \in 0..2 : Exit(r, c, "failed", n)
    BY <1>2 DEF UsageError
  <2> QED
    BY <2>1, ExitKeepsCommandTypes DEF Ended
<1>3. ASSUME NEW r \in Runs, Returns(r) PROVE CommandTypeOK'
  <2>1. PICK n \in 0..2 : Exit(r, command[r], "done", n)
    BY <1>3 DEF Returns, Gate
  <2> QED
    BY <2>1, ExitKeepsCommandTypes DEF CommandTypeOK, Ended
<1>4. ASSUME NEW r \in Runs, Fails(r) PROVE CommandTypeOK'
  BY <1>4, ExitKeepsCommandTypes DEF Fails, CommandTypeOK, Ended
<1>5. ASSUME NEW r \in Runs, Killed(r) PROVE CommandTypeOK'
  <2>1. status' = [status EXCEPT ![r] = "crashed"] /\ phase' = phase
    BY <1>5 DEF Killed, Crash, Ends
  <2> QED
    BY <1>5, <2>1 DEF Killed, TypeOK, CommandTypeOK, NoCommand
<1> QED
  BY <1>1, <1>2, <1>3, <1>4, <1>5, GoesOnKeepsCommandTypes, FansOutKeepsCommandTypes,
     InvokeKeepsCommandTypes DEF CommandNext, CommandStep

\* Whatever its arguments, a command that gets as far as the fan-out asks for at
\* least one worker, as runWithConcurrency needs (WorkerPool): a width of 0 or
\* less never leaves the command line (understand.ts:57-63, and Math.max in the
\* other commands).
THEOREM CommandTypeCorrect == CommandSpec => []CommandTypeOK
<1>1. PipelineInv => TypeOK
  BY DEF PipelineInv
<1>2. CommandTypeOK /\ PipelineInv /\ [CommandNext]_cvars => CommandTypeOK'
  BY <1>1, NextKeepsCommandTypes
<1> QED
  BY <1>2, InitCommandTypes, CommandInvariant, PTL DEF CommandSpec

-----------------------------------------------------------------------------
(* What a command that returned leaves behind, and what its exit status    *)
(* says, for processes that do not overlap.                                *)

\* Where the commands stop: nowhere in the middle of the tour's review.
LEMMA Stops ==
  ASSUME NEW c \in Bins \cup {NoCommand}
  PROVE  c.stops \in {"narrating", "analyzing", "layering", "domaining", "assembling",
                      "touring", "ended"}
<1>1. c \in CommandLines \cup {NoCommand}
  BY CommandsAssumption
<1>2. /\ DeterministicScan.stops = "narrating" /\ ScanWithNarrative.stops = "analyzing"
      /\ ScanWithFileAnalyses.stops = "layering" /\ ScanWithArchitecture.stops = "domaining"
      /\ ScanWithDomains.stops = "assembling" /\ ScanWithAssembler.stops = "touring"
      /\ ScanWithGraph.stops = "ended" /\ Understand.stops = "ended"
      /\ NoCommand.stops = "ended"
  BY DEF NoCommand, DeterministicScan, ScanWithNarrative, ScanWithFileAnalyses,
         ScanWithArchitecture, ScanWithDomains, ScanWithAssembler, ScanWithGraph, Understand
<1> QED
  BY <1>1, <1>2 DEF CommandLines

\* The command that checks what it reports: it ends by itself, and needs a file
\* analysed.
LEMMA UnderstandEnds == Understand.stops = "ended" /\ "a file" \in Understand.needs
BY DEF Understand

\* What a command does to the artifacts, the pipeline does, or ending without a
\* tour.
LEMMA CommandPreservesWork ==
  ASSUME PipelineInv, WorkInv, CommandTypeOK, ~Overlapping, [CommandNext]_cvars
  PROVE  WorkInv'
<1>1. CASE UNCHANGED cvars
  BY <1>1, NextPreservesWorkInv DEF cvars
<1>2. CASE Edit
  BY <1>2, NextPreservesWorkInv DEF Next
<1>3. ASSUME NEW r \in Runs, NEW c \in Bins, UsageError(r, c) PROVE WorkInv'
  <2>1. MayStart(r) /\ Ends(r, "failed") /\ UNCHANGED disk
    BY <1>3 DEF UsageError, Exit
  <2>2. Alone(r) /\ status'[r] = "failed" /\ phase' = phase
    BY <2>1, EndsKeepsTypes DEF PipelineInv, Alone, Ended
  <2> QED
    BY <2>1, <2>2, StartKeepsWork
<1>4. ASSUME NEW r \in Runs, NEW c \in Bins, NEW arg \in ConcurrencyArgs, Invoke(r, c, arg)
      PROVE  WorkInv'
  BY <1>4, NextPreservesWorkInv DEF Invoke, Next
<1>5. ASSUME NEW r \in Runs, GoesOn(r) \/ FansOut(r) \/ Fails(r) \/ Killed(r)
      PROVE  WorkInv'
  BY <1>5, NextPreservesWorkInv DEF GoesOn, FansOut, Fails, Killed, Next, Step
<1>6. ASSUME NEW r \in Runs, Returns(r) PROVE WorkInv'
  <2>1. CASE RewriteGraph(r)
    BY <2>1, RewriteGraphKeepsWork
  <2>2. CASE In(r, command[r].stops) /\ UNCHANGED disk
    <3>1. phase[r] # "toured" /\ status[r] = "running"
      BY <2>2, Stops DEF CommandTypeOK, In
    <3>2. Ends(r, "done")
      BY <1>6 DEF Returns, Exit
    <3> QED
      BY <2>2, <3>1, <3>2, EndsKeepsWork
  <2> QED
    BY <1>6, <2>1, <2>2 DEF Returns
<1> QED
  BY <1>1, <1>2, <1>3, <1>4, <1>5, <1>6 DEF CommandNext, CommandStep

\* The inductive invariant of the artifacts holds under the command lines too.
THEOREM CommandWork == ASSUME ~Overlapping PROVE CommandSpec => []WorkInv
<1>1. CommandInit => WorkInv
  BY InitWorkInv DEF CommandInit
<1>2. PipelineInv /\ CommandTypeOK /\ WorkInv /\ [CommandNext]_cvars => WorkInv'
  BY CommandPreservesWork
<1> QED
  BY <1>1, <1>2, CommandInvariant, CommandTypeCorrect, PTL DEF CommandSpec

\* Whatever throws under a command, what the phases before have written stays on
\* disk, whole and of this run (orchestrator.ts:384-385, 484-486, 669-670).
THEOREM CommandKeepsArtifacts ==
  ASSUME ~Overlapping PROVE CommandSpec => []FailureKeepsArtifacts
  BY WorkIsKept, CommandWork, PTL

\* A step of process r that leaves shown alone.
CommandAlone(r) ==
  /\ Alone(r)
  /\ status[r] = "running" \/ MayStart(r)
  /\ status'[r] # "idle"
  /\ \A q \in Runs \ {r} : command'[q] = command[q]

\* A process that goes on goes one phase further, or stays to collect verdicts.
LEMMA GoesOnAdvances ==
  ASSUME TypeOK, CommandTypeOK, NEW r \in Runs, GoesOn(r) \/ FansOut(r)
  PROVE  /\ CommandAlone(r) /\ UNCHANGED <<command, shown>>
         /\ phase[r] # command[r].stops /\ status[r] = "running" /\ status'[r] = "running"
         /\ phase'[r] = phase[r] \/ Index(phase'[r]) = Index(phase[r]) + 1
<1> USE DEF TypeOK, In, GoTo
<1>1. /\ Alone(r) /\ status[r] = "running" /\ status'[r] = "running"
      /\ phase[r] # command[r].stops /\ UNCHANGED <<command, shown>>
  BY StepIsAlone DEF GoesOn, FansOut
<1>2. CASE ScanProject(r) \/ WriteScanResult(r) \/ ComputeBatches(r) \/ ReadBatches(r)
  BY <1>1, <1>2, PhaseIndex DEF CommandAlone, ScanProject, WriteScanResult, ComputeBatches, ReadBatches
<1>3. CASE ReadScanResult(r) \/ MergeNarrative(r) \/ AnalyzeFiles(r)
  BY <1>1, <1>3, PhaseIndex DEF CommandAlone, ReadScanResult, MergeNarrative, AnalyzeFiles
<1>4. CASE WriteArchitecture(r) \/ WriteDomains(r) \/ Assemble(r)
  BY <1>1, <1>4, PhaseIndex DEF CommandAlone, WriteArchitecture, WriteDomains, Assemble
<1>5. CASE WriteAssembledGraph(r) \/ StampTour(r)
  BY <1>1, <1>5, PhaseIndex DEF CommandAlone, WriteAssembledGraph, StampTour
<1>6. CASE \E v \in Reviewers, reply \in Replies : ReviewerEnds(r, v, reply)
  BY <1>1, <1>6 DEF CommandAlone, ReviewerEnds
<1> QED
  BY <1>2, <1>3, <1>4, <1>5, <1>6 DEF GoesOn, FansOut

\* The phases are told apart by their index.
LEMMA IndexIsOne ==
  ASSUME NEW p \in {Phases[i] : i \in 1..Len(Phases)},
         NEW q \in {Phases[i] : i \in 1..Len(Phases)}
  PROVE  Index(p) \in 1..13 /\ (Index(p) = Index(q) => p = q)
<1>1. PICK i \in 1..13, j \in 1..13 : p = Phases[i] /\ q = Phases[j]
  <2>1. Len(Phases) = 13
    BY DEF Phases
  <2> QED
    BY <2>1
<1>2. \A k \in 1..13 : Index(Phases[k]) = k
  BY PhaseIndex DEF Phases
<1> QED
  BY <1>1, <1>2

\* Nothing is changed of the process that exited last by another's step.
LEMMA OthersStepShown ==
  ASSUME ExitInv, PipelineInv, WorkInv, CommandTypeOK, ~Overlapping,
         NEW r \in Runs, CommandAlone(r), UNCHANGED shown
  PROVE  ShownIsOver' /\ ShownIsEarned'
<1>1. CASE shown.run = 0
  BY <1>1 DEF ShownIsOver, ShownIsEarned
<1>2. CASE shown.run # 0
  <2> DEFINE s == shown.run
  <2>1. s \in Runs /\ status[s] \in Ended
    BY <1>2 DEF ExitInv, ShownIsOver, CommandTypeOK
  <2>2. s # r /\ status'[s] = status[s] /\ phase'[s] = phase[s]
    BY <2>1 DEF CommandAlone, MayStart, Alone, Ended
  <2>3. ShownIsOver'
    BY <2>2 DEF ExitInv, ShownIsOver
  <2>4. ~Latest(s)'
    <3>1. status[r] \notin Ended
      BY DEF CommandAlone, MayStart, Ended
    <3>2. r > s
      BY <2>1, <2>2, <3>1 DEF WorkInv, OneAtATime, Ended, Runs
    <3> QED
      BY <3>2 DEF Latest, CommandAlone
  <2>5. ShownIsEarned'
    BY <2>4 DEF ShownIsEarned
  <2> QED
    BY <2>3, <2>5
<1> QED
  BY <1>1, <1>2

\* A process that runs to a phase or to its end, alone.
LEMMA GoesOnKeepsExit ==
  ASSUME ExitInv, PipelineInv, WorkInv, CommandTypeOK, ~Overlapping,
         NEW r \in Runs, GoesOn(r) \/ FansOut(r)
  PROVE  ExitInv'
<1>0. TypeOK /\ TypeOK'
  BY CommandIsPipeline, CommandPreservesInv DEF PipelineInv, CommandNext, CommandStep
<1>1. /\ CommandAlone(r) /\ UNCHANGED <<command, shown>>
      /\ phase[r] # command[r].stops /\ status[r] = "running" /\ status'[r] = "running"
      /\ phase'[r] = phase[r] \/ Index(phase'[r]) = Index(phase[r]) + 1
  BY <1>0, GoesOnAdvances
<1>2. StaysWithin'
  <2> SUFFICES ASSUME NEW q \in Runs, status'[q] = "running", command[q].stops # "ended"
               PROVE  ~Before(command[q].stops, phase'[q])
    BY <1>1 DEF StaysWithin
  <2>1. CASE q # r
    BY <1>1, <2>1 DEF ExitInv, StaysWithin, CommandAlone, Alone
  <2>2. CASE q = r
    <3>1. ~Before(command[r].stops, phase[r])
      BY <1>1, <2>2 DEF ExitInv, StaysWithin
    <3>2. command[r].stops \in {Phases[i] : i \in 1..Len(Phases)}
      BY <2>2, Stops, PhaseNames DEF CommandTypeOK
    <3>3. phase[r] \in {Phases[i] : i \in 1..Len(Phases)}
      BY <1>0 DEF TypeOK
    <3>4. /\ Index(command[r].stops) \in 1..13 /\ Index(phase[r]) \in 1..13
          /\ Index(command[r].stops) # Index(phase[r])
      BY <1>1, <3>2, <3>3, IndexIsOne
    <3> QED
      BY <1>1, <2>2, <3>1, <3>4 DEF Before
  <2> QED
    BY <2>1, <2>2
<1> QED
  BY <1>1, <1>2, OthersStepShown DEF ExitInv

\* The other steps of a process that are no exit.
LEMMA InvokeKeepsExit ==
  ASSUME ExitInv, PipelineInv, NEW r \in Runs, NEW c \in Bins, NEW arg \in ConcurrencyArgs,
         CommandTypeOK, Invoke(r, c, arg)
  PROVE  ExitInv'
<1>1. /\ status[r] = "idle" /\ phase[r] = "scanning" /\ phase' = phase
      /\ status' = [status EXCEPT ![r] = "running"]
      /\ command' = [command EXCEPT ![r] = c] /\ shown'.run = 0
  BY DEF Invoke, Start, MayStart, PipelineInv, HoldsRightGraph, NoExit
<1>2. StaysWithin'
  <2> SUFFICES ASSUME NEW q \in Runs, status'[q] = "running", command'[q].stops # "ended"
               PROVE  ~Before(command'[q].stops, phase[q])
    BY <1>1 DEF StaysWithin
  <2>1. CASE q # r
    BY <1>1, <2>1 DEF ExitInv, StaysWithin, PipelineInv, TypeOK, CommandTypeOK
  <2>2. CASE q = r
    <3>1. command'[q] = c /\ c \in Bins
      BY <1>1, <2>2 DEF CommandTypeOK
    <3>2. c.stops \in {"narrating", "analyzing", "layering", "domaining", "assembling", "touring"}
      BY <3>1, Stops
    <3> QED
      BY <1>1, <2>2, <3>1, <3>2, PhaseIndex DEF Before
  <2> QED
    BY <2>1, <2>2
<1> QED
  BY <1>1, <1>2 DEF ExitInv, ShownIsOver, ShownIsEarned

\* A process that is killed, alone.
LEMMA KilledKeepsExit ==
  ASSUME ExitInv, PipelineInv, WorkInv, CommandTypeOK, ~Overlapping,
         NEW r \in Runs, Killed(r)
  PROVE  ExitInv'
<1>1. /\ status[r] = "running" /\ status'[r] = "crashed" /\ Alone(r)
      /\ command' = [command EXCEPT ![r] = NoCommand] /\ UNCHANGED shown
  BY EndsKeepsTypes DEF Killed, Crash, PipelineInv, Alone, Ended
<1>2. CommandAlone(r)
  BY <1>1 DEF CommandAlone, CommandTypeOK
<1>3. StaysWithin'
  BY <1>1, <1>2 DEF ExitInv, StaysWithin, CommandAlone, Alone
<1> QED
  BY <1>2, <1>1, <1>3, OthersStepShown DEF ExitInv

\* An exit, with what its status has to say.
LEMMA ExitKeepsExit ==
  ASSUME ExitInv, PipelineInv, CommandTypeOK, NEW r \in Runs, NEW c \in Bins \cup {NoCommand},
         NEW how \in Ended, NEW n \in 0..2, Exit(r, c, how, n),
         n = 0 => how = "done",
         how = "done" => phase[r] = IF c.stops = "ended" THEN "toured" ELSE c.stops,
         n = 0 /\ c = Understand => disk'["graph"].analysed # {}
  PROVE  ExitInv'
<1>1. /\ Alone(r) /\ status'[r] = how /\ phase' = phase
      /\ command' = [command EXCEPT ![r] = NoCommand]
      /\ shown'.run = r /\ shown'.command = c /\ shown'.code = n
  BY EndsKeepsTypes DEF Exit, PipelineInv, Alone
<1>2. StaysWithin'
  BY <1>1 DEF ExitInv, StaysWithin, Alone, CommandTypeOK, Ended
<1>3. ShownIsOver'
  BY <1>1 DEF ShownIsOver
<1>4. ShownIsEarned'
  BY <1>1 DEF ShownIsEarned
<1> QED
  BY <1>2, <1>3, <1>4 DEF ExitInv

\* Where a command that returns has come to; and Understand finds an analysed file
\* in its graph before it exits with 0.
LEMMA ReturnsKeepsExit ==
  ASSUME ExitInv, PipelineInv, WorkInv, CommandTypeOK, NEW r \in Runs, Returns(r)
  PROVE  ExitInv'
<1> DEFINE c == command[r]
<1>1. PICK counts \in BOOLEAN, batch \in BOOLEAN : Exit(r, c, "done", Gate(r, counts, batch))
  BY DEF Returns
<1>2. Gate(r, counts, batch) \in 0..2 /\ c \in Bins \cup {NoCommand}
  BY DEF Gate, CommandTypeOK
<1>3. phase[r] \in {Phases[i] : i \in 1..Len(Phases)}
  BY DEF PipelineInv, TypeOK
<1>4. CASE In(r, c.stops) /\ UNCHANGED disk
  <2>1. c.stops # "ended" /\ phase[r] = c.stops
    BY <1>3, <1>4, PhaseNames DEF In
  <2>2. c # Understand
    BY <2>1, UnderstandEnds
  <2> HIDE DEF c
  <2> QED
    BY <1>1, <1>2, <2>1, <2>2, ExitKeepsExit DEF Ended
<1>5. CASE RewriteGraph(r)
  <2>1. /\ phase[r] = "toured" /\ status[r] = "running"
        /\ disk'["graph"].analysed = mem[r].graph.analysed
    BY <1>5, RewriteGraphShape
  <2>2. c.stops = "ended"
    <3> SUFFICES ASSUME c.stops # "ended" PROVE FALSE
      OBVIOUS
    <3>1. ~Before(c.stops, phase[r])
      BY <2>1 DEF ExitInv, StaysWithin
    <3>2. c.stops \in {"narrating", "analyzing", "layering", "domaining", "assembling", "touring"}
      BY <1>2, Stops
    <3> QED
      BY <2>1, <3>1, <3>2, PhaseIndex DEF Before
  <2>3. ASSUME Gate(r, counts, batch) = 0, c = Understand
        PROVE  disk'["graph"].analysed # {}
    <3>1. "a file" \in c.needs
      BY <2>3, UnderstandEnds
    <3>2. \A need \in c.needs : Meets(r, need, counts, batch)
      BY <2>3 DEF Gate
    <3>3. mem[r].analyses # {} \/ mem[r].batches = {}
      BY <3>1, <3>2 DEF Meets
    <3>4. mem[r].batches = mem[r].scan /\ mem[r].scan # {}
          /\ mem[r].graph.analysed = mem[r].analyses
      BY <2>1, RunningIsLatest, LeftAt, PhaseIndex DEF RemembersItsWork, Before, Artifacts
    <3> QED
      BY <2>1, <3>3, <3>4
  <2> HIDE DEF c
  <2> QED
    BY <1>1, <1>2, <2>1, <2>2, <2>3, ExitKeepsExit DEF Ended
<1> QED
  BY <1>4, <1>5 DEF Returns

\* Every step keeps what an exit status was earned by.
LEMMA NextPreservesExitInv ==
  ASSUME ExitInv, PipelineInv, WorkInv, CommandTypeOK, ~Overlapping, [CommandNext]_cvars
  PROVE  ExitInv'
<1>1. CASE UNCHANGED cvars \/ (Edit /\ UNCHANGED <<command, limit, shown>>)
  <2>1. UNCHANGED <<status, phase, disk, command, shown>>
    BY <1>1 DEF Edit, cvars, vars
  <2> QED
    BY <2>1 DEF ExitInv, StaysWithin, ShownIsOver, ShownIsEarned, Latest
<1>2. ASSUME NEW r \in Runs, NEW c \in Bins, UsageError(r, c) PROVE ExitInv'
  <2>1. PICK n \in {1, 2} : Exit(r, c, "failed", n)
    BY <1>2 DEF UsageError
  <2> QED
    BY <2>1, ExitKeepsExit DEF Ended
<1>3. ASSUME NEW r \in Runs, Fails(r) PROVE ExitInv'
  <2>1. Exit(r, command[r], "failed", 1) /\ command[r] \in Bins \cup {NoCommand}
    BY <1>3 DEF Fails, CommandTypeOK
  <2> QED
    BY <2>1, ExitKeepsExit DEF Ended
<1> QED
  BY <1>1, <1>2, <1>3, GoesOnKeepsExit, InvokeKeepsExit, KilledKeepsExit, ReturnsKeepsExit
     DEF CommandNext, CommandStep

\* Nothing was earned.
LEMMA InitExitInv == CommandInit => ExitInv
BY DEF CommandInit, Init, NoExit, NoCommand, ExitInv, StaysWithin, ShownIsOver, ShownIsEarned

\* The inductive invariant of the exits.
THEOREM CommandExits == ASSUME ~Overlapping PROVE CommandSpec => []ExitInv
<1>1. /\ PipelineInv /\ CommandTypeOK /\ WorkInv /\ ExitInv /\ [CommandNext]_cvars => ExitInv'
  BY NextPreservesExitInv
<1> QED
  BY <1>1, InitExitInv, CommandWork, CommandInvariant, CommandTypeCorrect, PTL DEF CommandSpec

\* What a command leaves, from the invariants.
LEMMA ExitIsCoherent == CommandTypeOK /\ WorkInv /\ ExitInv => CommandIsCoherent
<1> SUFFICES ASSUME CommandTypeOK, WorkInv, ExitInv, shown.run # 0,
                    status[shown.run] = "done", Latest(shown.run)
             PROVE  LET r == shown.run  made == Makes(shown.command)
                    IN /\ \A a \in made : IsOf(a, r)
                       /\ \A a \in made \ {"analyses"} : disk[a].files = disk["scan"].files
                       /\ "graph" \in made =>
                            /\ disk["graph"].analysed = disk["analyses"].files
                            /\ disk["graph"].tour <=> shown.command.stops = "ended"
                       /\ \A a \in Artifacts \ made : disk[a].by # r
  BY DEF CommandIsCoherent
<1> DEFINE r == shown.run
           c == shown.command
<1>1. r \in Runs /\ c \in Bins \cup {NoCommand} /\ LeavesItsWork(r)
  BY DEF CommandTypeOK, WorkInv
<1>2. phase[r] = IF c.stops = "ended" THEN "toured" ELSE c.stops
  BY DEF ExitInv, ShownIsOver
<1>3. Makes(c) = Left(phase[r]) /\ (phase[r] = "toured" <=> c.stops = "ended")
  BY <1>1, <1>2, LeftAt, Stops DEF Makes
<1>4. Left(phase[r]) \subseteq Artifacts
  BY <1>1, <1>2, LeftAt, Stops DEF Artifacts
<1> HIDE DEF r, c
<1>5. /\ \A a \in Artifacts : disk[a].by = r <=> a \in Left(phase[r])
      /\ \A a \in Left(phase[r]) \ {"analyses"} : disk[a].files = disk["scan"].files
      /\ "graph" \in Left(phase[r]) =>
           /\ disk["graph"].analysed = disk["analyses"].files
           /\ disk["graph"].tour <=> c.stops = "ended"
  BY <1>1, <1>3 DEF LeavesItsWork, r
<1>6. \A a \in Left(phase[r]) : IsOf(a, r)
  BY <1>1, <1>4, <1>5 DEF IsOf, IsWhole, Runs
<1> QED
  BY <1>3, <1>5, <1>6 DEF r, c

\* A command that returned and was the last to be started leaves the work of one
\* scan in everything it writes, and its own alone, for any commands in any order
\* on any number of processes that do not overlap (packages/understand/src/bin,
\* orchestrator.ts).
THEOREM CommandIsCoherentAlways ==
  ASSUME ~Overlapping PROVE CommandSpec => []CommandIsCoherent
  BY ExitIsCoherent, CommandTypeCorrect, CommandWork, CommandExits, PTL

\* Exit status zero, from the invariants.
LEMMA ExitIsEarned ==
  CommandTypeOK /\ PipelineInv /\ WorkInv /\ ExitInv => ExitZeroIsEarned
<1> SUFFICES ASSUME CommandTypeOK, PipelineInv, WorkInv, ExitInv,
                    shown.run # 0, shown.code = 0
             PROVE  /\ status[shown.run] = "done"
                    /\ shown.command = Understand /\ Latest(shown.run) =>
                         /\ disk["graph"].analysed # {}
                         /\ Judged(disk["graph"].assemble, disk["graph"], FALSE)
                         /\ Judged(disk["graph"].review, disk["graph"], TRUE)
  BY DEF ExitZeroIsEarned
<1> DEFINE r == shown.run
<1>1. status[r] = "done" /\ r \in Runs
  BY DEF ExitInv, ShownIsOver, CommandTypeOK
<1>2. ASSUME shown.command = Understand, Latest(r)
      PROVE  /\ disk["graph"].analysed # {}
             /\ Judged(disk["graph"].assemble, disk["graph"], FALSE)
             /\ Judged(disk["graph"].review, disk["graph"], TRUE)
  <2>1. disk["graph"].analysed # {}
    BY <1>2 DEF ExitInv, ShownIsEarned
  <2>2. phase[r] = "toured"
    BY <1>1, <1>2, UnderstandEnds DEF ExitInv, ShownIsOver
  <2>3. disk["graph"].by = r /\ disk["graph"].tour
    BY <1>1, <1>2, <2>2, LeftAt DEF WorkInv, LeavesItsWork, Artifacts
  <2>4. IsWhole(disk["graph"]) /\ Attests(disk["graph"])
    BY <1>1, <2>3 DEF IsWhole, Runs, PipelineInv, GraphAttests
  <2> QED
    BY <2>1, <2>3, <2>4 DEF Attests
<1> QED
  BY <1>1, <1>2

\* Exit status 0 is no command's that failed; and Understand's means that a file
\* was analysed and that both pairs have judged the graph (understand.ts:165-197).
THEOREM ExitZeroIsEarnedAlways ==
  ASSUME ~Overlapping PROVE CommandSpec => []ExitZeroIsEarned
  BY ExitIsEarned, CommandTypeCorrect, CommandInvariant, CommandWork, CommandExits, PTL
=============================================================================
