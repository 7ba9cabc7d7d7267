------------------------------ MODULE Pipeline ------------------------------
(***************************************************************************)
(* The understand pipeline, packages/understand/src/orchestrator.ts, with  *)
(* the pair of reviewers of llm/face-off-reviewer.ts and                   *)
(* llm/graph-reviewer.ts: scanWithGraph, which calls scanWithAssembler,    *)
(* which calls scanWithDomains, and so on down to deterministicScan, run   *)
(* again and again on one project directory.                               *)
(*                                                                         *)
(* A run is a process.  A step is what it does between two awaits, or, of  *)
(* the reads and writes of the artifacts, the part another process may     *)
(* come before.  Contents are reduced to the project files they cover and  *)
(* the run that made them; the code keeps no such field.                   *)
(***************************************************************************)
EXTENDS Integers, Sequences

CONSTANTS
  Files,        (* project-relative paths                                   *)
  NumRuns,      (* bound: processes started on the project                  *)
  MaxEdits,     (* bound: changes of the source tree between and in runs    *)
  Reviewers,    (* the roster of a face-off pair                            *)
  Overlapping   (* whether a run may start before the previous one ended    *)

ASSUME PipelineAssumption ==
  /\ NumRuns \in Nat
  /\ MaxEdits \in Nat
  /\ Overlapping \in BOOLEAN

VARIABLES
  project,   (* the source files there are                                  *)
  edits,     (* changes made to them so far                                 *)
  status,    (* status[r]: of process r                                     *)
  phase,     (* phase[r]: what process r awaits, or did when it ended       *)
  mem,       (* mem[r]: its scan, batches, read-back, analyses and graph    *)
  verdicts,  (* verdicts[r]: of the pair process r awaits                   *)
  disk       (* the artifacts under .understand-anything/intermediate;      *)
             (* scan-result.json is "scan" and its merged "narrative"       *)

vars == <<project, edits, status, phase, mem, verdicts, disk>>

Runs      == 1..NumRuns
Artifacts == {"scan", "batches", "narrative", "analyses", "layers", "domains", "graph"}
Ended     == {"failed", "crashed", "done"}

\* What the phases are called, in their order.
Phases == <<"scanning", "importing", "batching", "batched", "narrating", "merging",
            "analyzing", "layering", "domaining", "assembling", "assembled", "touring",
            "toured">>

\* The artifact a phase ends with writing, if any.
Written ==
  [importing |-> "scan", batching |-> "batches", merging |-> "scan",
   analyzing |-> "analyses", layering |-> "layers", domaining |-> "domains",
   assembled |-> "graph", toured |-> "graph"]

\* Where the text of a provider, a script or a file can make the process throw:
\* everywhere but in the fan-out, which records failures, and in the reviews,
\* which turn them into verdicts.
MayThrow == {"scanning", "importing", "batching", "batched", "narrating", "layering",
             "domaining", "assembling", "touring"}

Absent        == [by |-> 0, files |-> {}]
Torn          == [by |-> -1, files |-> {}]
Content(r, S) == [by |-> r, files |-> S]
IsWhole(c)    == c.by > 0

NoVerdict  == [verdict |-> "none"]
NoVerdicts == [v \in Reviewers |-> NoVerdict]
EmptyMem   == [scan |-> {}, batches |-> {}, read |-> Absent, analyses |-> {},
               graph |-> Absent]

-----------------------------------------------------------------------------
Init ==
  /\ project \in SUBSET Files
  /\ edits = 0
  /\ status = [r \in Runs |-> "idle"]
  /\ phase = [r \in Runs |-> "scanning"]
  /\ mem = [r \in Runs |-> EmptyMem]
  /\ verdicts = [r \in Runs |-> NoVerdicts]
  /\ disk = [a \in Artifacts |-> Absent]

\* Somebody works on the project.
Edit ==
  /\ edits < MaxEdits
  /\ edits' = edits + 1
  /\ project' \in SUBSET Files
  /\ UNCHANGED <<status, phase, mem, verdicts, disk>>

MayStart(r) ==
  /\ status[r] = "idle"
  /\ \A q \in Runs : q < r => status[q] # "idle"
  /\ Overlapping \/ \A q \in Runs : q < r => status[q] \in Ended

\* A process is started; nothing it finds on disk is looked at.
Start(r) ==
  /\ MayStart(r)
  /\ status' = [status EXCEPT ![r] = "running"]
  /\ UNCHANGED <<project, edits, phase, mem, verdicts, disk>>

In(r, p)     == status[r] = "running" /\ phase[r] = p
GoTo(r, p)   == phase' = [phase EXCEPT ![r] = p] /\ UNCHANGED <<status, project, edits>>

\* The process is gone, and with it what it had in memory.
Ends(r, how) ==
  /\ status' = [status EXCEPT ![r] = how]
  /\ mem' = [mem EXCEPT ![r] = EmptyMem]
  /\ verdicts' = [verdicts EXCEPT ![r] = NoVerdicts]
  /\ UNCHANGED <<project, edits, phase>>

Write(a, c)  == disk' = [disk EXCEPT ![a] = c]

\* scan-project lists the files.
ScanProject(r) ==
  /\ In(r, "scanning")
  /\ mem' = [mem EXCEPT ![r].scan = project]
  /\ GoTo(r, "importing")
  /\ UNCHANGED <<verdicts, disk>>

\* The import map is there: scan-result.json is written without a narrative.
WriteScanResult(r) ==
  /\ In(r, "importing")
  /\ disk' = [disk EXCEPT !["scan"] = Content(r, mem[r].scan), !["narrative"] = Absent]
  /\ GoTo(r, "batching")
  /\ UNCHANGED <<mem, verdicts>>

\* Operators whose names start with Bug are faults the properties are tried
\* against; the specification never uses them.  Here batches.json is kept when
\* there is one.
BugComputeBatchesCached(r) ==
  /\ In(r, "batching")
  /\ IsWhole(disk["scan"])
  /\ IF IsWhole(disk["batches"]) THEN UNCHANGED disk
     ELSE Write("batches", Content(r, disk["scan"].files))
  /\ GoTo(r, "batched")
  /\ UNCHANGED <<mem, verdicts>>

\* compute-batches reads scan-result.json and writes batches.json.
ComputeBatches(r) ==
  /\ In(r, "batching")
  /\ IsWhole(disk["scan"])
  /\ Write("batches", Content(r, disk["scan"].files))
  /\ GoTo(r, "batched")
  /\ UNCHANGED <<mem, verdicts>>

ReadBatches(r) ==
  /\ In(r, "batched")
  /\ IsWhole(disk["batches"])
  /\ mem' = [mem EXCEPT ![r].batches = disk["batches"].files]
  /\ GoTo(r, "narrating")
  /\ UNCHANGED <<verdicts, disk>>

\* The project scanner has its narrative: scan-result.json is read back ...
ReadScanResult(r) ==
  /\ In(r, "narrating")
  /\ IsWhole(disk["scan"])
  /\ mem' = [mem EXCEPT ![r].read = disk["scan"]]
  /\ GoTo(r, "merging")
  /\ UNCHANGED <<verdicts, disk>>

\* ... and written with the narrative merged in.
MergeNarrative(r) ==
  /\ In(r, "merging")
  /\ disk' = [disk EXCEPT !["scan"] = mem[r].read,
                          !["narrative"] = Content(r, mem[r].read.files)]
  /\ GoTo(r, "analyzing")
  /\ UNCHANGED <<mem, verdicts>>

\* Nothing is written when every batch failed.
BugAnalyzeFilesSkipsEmpty(r) ==
  /\ In(r, "analyzing")
  /\ \E S \in SUBSET mem[r].batches :
       /\ mem' = [mem EXCEPT ![r].analyses = S]
       /\ disk' = IF S = {} THEN disk ELSE [disk EXCEPT !["analyses"] = Content(r, S)]
  /\ GoTo(r, "layering")
  /\ UNCHANGED verdicts

\* The fan-out (WorkerPool) has resolved: the files of failed batches, and
\* files a batch dropped, have no analysis.
AnalyzeFiles(r) ==
  /\ In(r, "analyzing")
  /\ \E S \in SUBSET mem[r].batches :
       /\ mem' = [mem EXCEPT ![r].analyses = S]
       /\ Write("analyses", Content(r, S))
  /\ GoTo(r, "layering")
  /\ UNCHANGED verdicts

\* Layers cover the scanned files, whatever the model answered.
WriteArchitecture(r) ==
  /\ In(r, "layering")
  /\ Write("layers", Content(r, mem[r].scan))
  /\ GoTo(r, "domaining")
  /\ UNCHANGED <<mem, verdicts>>

\* Without layers the domain analyzer throws.
WriteDomains(r) ==
  /\ In(r, "domaining")
  /\ mem[r].scan # {}
  /\ Write("domains", Content(r, mem[r].scan))
  /\ GoTo(r, "assembling")
  /\ UNCHANGED <<mem, verdicts>>

\* assembleKnowledgeGraph skips the analyses of files the scan does not know;
\* the face-off members hold nothing yet.
AssembledGraph(r) ==
  [by |-> r, files |-> mem[r].scan, analysed |-> mem[r].analyses \cap mem[r].scan,
   tour |-> FALSE, assemble |-> NoVerdicts, review |-> NoVerdicts]

\* The graph is assembled and the assemble reviewers are sent their brief.
Assemble(r) ==
  /\ In(r, "assembling")
  /\ mem' = [mem EXCEPT ![r].graph = AssembledGraph(r)]
  /\ verdicts' = [verdicts EXCEPT ![r] = NoVerdicts]
  /\ GoTo(r, "assembled")
  /\ UNCHANGED disk

-----------------------------------------------------------------------------
(* Reviews                                                                 *)

\* What comes of a reviewer's session; "nothing" is no session, no verdict in
\* the reply, or a stop before its end.
Replies == {"approve", "block", "nothing"}

\* Whatever is not a block passes.
BugVerdictFailsOpen(reply) == IF reply = "block" THEN "block" ELSE "approve"

\* parseVerdict and the synthetic verdict of a failed session: closed on
\* everything but an approval.
VerdictOf(reply) == IF reply = "approve" THEN "approve" ELSE "block"

\* What reviewers are shown: whose graph, and whether it has a tour.
Brief(g) == [of |-> g.by, tour |-> g.tour]

\* One reviewer of the pair is through; `notes` keep the reply.
ReviewerEnds(r, v, reply) ==
  /\ In(r, "assembled") \/ In(r, "toured")
  /\ verdicts[r][v] = NoVerdict
  /\ verdicts' = [verdicts EXCEPT ![r][v] =
       [verdict |-> VerdictOf(reply), notes |-> reply, brief |-> Brief(mem[r].graph)]]
  /\ UNCHANGED <<project, edits, status, phase, mem, disk>>

\* The run is held up until both approve.
BugPairMustApprove(r) == \A v \in Reviewers : verdicts[r][v].verdict = "approve"

\* Promise.all over the pair; a block holds nothing up.
PairIsThrough(r) == \A v \in Reviewers : verdicts[r][v] # NoVerdict

\* The verdicts are recorded and knowledge-graph.json is written.
WriteAssembledGraph(r) ==
  /\ In(r, "assembled")
  /\ PairIsThrough(r)
  /\ LET g == [mem[r].graph EXCEPT !.assemble = verdicts[r]]
     IN /\ mem' = [mem EXCEPT ![r].graph = g]
        /\ Write("graph", g)
  /\ GoTo(r, "touring")
  /\ UNCHANGED verdicts

\* The tour is stamped on the graph, then the graph reviewers are sent their
\* brief.
StampTour(r) ==
  /\ In(r, "touring")
  /\ mem' = [mem EXCEPT ![r].graph.tour = TRUE]
  /\ verdicts' = [verdicts EXCEPT ![r] = NoVerdicts]
  /\ GoTo(r, "toured")
  /\ UNCHANGED disk

\* knowledge-graph.json is rewritten in place, and the process ends.
RewriteGraph(r) ==
  /\ In(r, "toured")
  /\ PairIsThrough(r)
  /\ Write("graph", [mem[r].graph EXCEPT !.review = verdicts[r]])
  /\ Ends(r, "done")

-----------------------------------------------------------------------------
(* Failures                                                                *)

\* A script or an analyzer throws, and main() exits with 1.
Throws(r) ==
  /\ status[r] = "running"
  /\ phase[r] \in MayThrow
  /\ Ends(r, "failed")
  /\ UNCHANGED disk

\* The process is killed with its script, maybe in the middle of a write; the
\* narrative shares a file with the scan.
Crash(r) ==
  /\ status[r] = "running"
  /\ Ends(r, "crashed")
  /\ \/ UNCHANGED disk
     \/ /\ phase[r] \in DOMAIN Written
        /\ disk' = [a \in Artifacts |->
             CASE a = Written[phase[r]] -> Torn
               [] a = "narrative" /\ Written[phase[r]] = "scan" -> Absent
               [] OTHER -> disk[a]]

-----------------------------------------------------------------------------
Step(r) ==
  \/ ScanProject(r) \/ WriteScanResult(r) \/ ComputeBatches(r) \/ ReadBatches(r)
  \/ ReadScanResult(r) \/ MergeNarrative(r) \/ AnalyzeFiles(r)
  \/ WriteArchitecture(r) \/ WriteDomains(r) \/ Assemble(r)
  \/ \E v \in Reviewers, reply \in Replies : ReviewerEnds(r, v, reply)
  \/ WriteAssembledGraph(r) \/ StampTour(r) \/ RewriteGraph(r)
  \/ Throws(r)

Next == Edit \/ \E r \in Runs : Start(r) \/ Step(r) \/ Crash(r)

\* Scripts end, and analyzers and reviewers come back (AcpClient,
\* CallerReturns).
Fairness == \A r \in Runs : WF_vars(Step(r))

Spec == Init /\ [][Next]_vars /\ Fairness

-----------------------------------------------------------------------------
(* Properties                                                              *)

Verdict ==
  {NoVerdict} \cup [verdict : {"approve", "block"}, notes : Replies,
                    brief : [of : Runs, tour : BOOLEAN]]

Graph ==
  [by : Runs, files : SUBSET Files, analysed : SUBSET Files, tour : BOOLEAN,
   assemble : [Reviewers -> Verdict], review : [Reviewers -> Verdict]]

Plain == [by : 0..NumRuns, files : SUBSET Files]

Memory ==
  [scan : SUBSET Files, batches : SUBSET Files, read : Plain, analyses : SUBSET Files,
   graph : Graph \cup {Absent}]

\* What every state of the pipeline, its processes and its artifacts looks like;
\* no process ever takes half a file for content.
TypeOK ==
  /\ project \in SUBSET Files
  /\ edits \in 0..MaxEdits
  /\ status \in [Runs -> {"idle", "running"} \cup Ended]
  /\ phase \in [Runs -> {Phases[i] : i \in 1..Len(Phases)}]
  /\ mem \in [Runs -> Memory]
  /\ verdicts \in [Runs -> [Reviewers -> Verdict]]
  /\ disk \in [Artifacts -> Plain \cup {Torn} \cup Graph]
  /\ \A a \in Artifacts \ {"graph"} : disk[a] \in Plain \cup {Torn}
  /\ disk["graph"] \in Graph \cup {Absent, Torn}

Index(p) == CHOOSE i \in 1..Len(Phases) : Phases[i] = p

\* Phase p comes before phase q.
Before(p, q) == Index(p) < Index(q)

\* The artifacts there are of a run that has come to phase p.
Left(p) ==
  {Written[q] : q \in {w \in DOMAIN Written : Before(w, p)}} \cup
  {a \in {"narrative"} : Before("merging", p)}

\* What is on disk of artifact a is whole and of run r.
IsOf(a, r) == disk[a].by = r /\ IsWhole(disk[a])

\* A run nobody came after.
Latest(r) == \A q \in Runs : q > r => status[q] = "idle"

\* When an analyzer throws, what the phases before it have written stays on disk,
\* whole and of this run (orchestrator.ts:384-385, 484-486, 669-670: "artifacts
\* already on disk remain valid"); a failed fan-out batch takes nothing with it.
FailureKeepsArtifacts ==
  \A r \in Runs : status[r] = "failed" /\ Latest(r) =>
    \A p \in DOMAIN Written : Before(p, phase[r]) => IsOf(Written[p], r)

\* A full pair has judged graph g, with or without its tour, and fails closed.
Judged(pair, g, tour) ==
  \A v \in Reviewers : /\ pair[v] # NoVerdict
                       /\ pair[v].brief = [of |-> g.by, tour |-> tour]
                       /\ pair[v].verdict = "approve" => pair[v].notes = "approve"

Attests(g) ==
  IsWhole(g) =>
    /\ Judged(g.assemble, g, FALSE)
    /\ IF g.tour THEN Judged(g.review, g, TRUE) ELSE g.review = NoVerdicts

\* knowledge-graph.json attests to what happened, even when two processes work on
\* one project: the assemble pair, in full, has judged this very graph without
\* its tour; a tour is there exactly if the graph pair, in full, has judged this
\* very graph with it; and whatever is not an approval is a block
\* (face-off-reviewer.ts:293-311 "fails CLOSED, never OPEN").
GraphAttests == Attests(disk["graph"])

\* The verdicts process r has so far are on graph g.
Collects(r, g) ==
  \A v \in Reviewers : verdicts[r][v] # NoVerdict =>
    /\ verdicts[r][v].brief = Brief(g)
    /\ verdicts[r][v].verdict = "approve" => verdicts[r][v].notes = "approve"

\* Process r holds the graph it assembled, with or without its tour.
Holds(r, tour) ==
  LET g == mem[r].graph
  IN g \in Graph /\ g.by = r /\ g.tour = tour /\ g.review = NoVerdicts

\* What process r holds from its assembly on, and what the verdicts it collects
\* are on.
HoldsRightGraph(r) ==
  LET g == mem[r].graph
  IN /\ status[r] = "idle" => phase[r] = "scanning"
     /\ In(r, "assembled") => Holds(r, FALSE) /\ Collects(r, g)
     /\ In(r, "touring") => Holds(r, FALSE) /\ Judged(g.assemble, g, FALSE)
     /\ In(r, "toured") =>
          Holds(r, TRUE) /\ Judged(g.assemble, g, FALSE) /\ Collects(r, g)

\* The inductive invariant behind GraphAttests: a process that collects verdicts
\* holds the graph they are on.  Nothing in it speaks of the other artifacts.
PipelineInv ==
  /\ TypeOK
  /\ GraphAttests
  /\ \A r \in Runs : HoldsRightGraph(r)

\* Without overlap a process is started when the ones before it have ended.
OneAtATime ==
  \A q, r \in Runs : q < r /\ status[r] # "idle" => status[q] \in Ended

\* Run r has all and only the artifacts of its phase on disk, and they are of one
\* scan.
LeavesItsWork(r) ==
  LET left == Left(phase[r])  scan == disk["scan"].files
  IN /\ \A a \in Artifacts : disk[a].by = r <=> a \in left
     /\ \A a \in left \ {"analyses"} : disk[a].files = scan
     /\ "analyses" \in left => disk["analyses"].files \subseteq scan
     /\ "graph" \in left =>
          /\ disk["graph"].analysed = disk["analyses"].files
          /\ disk["graph"].tour <=> status[r] = "done" /\ phase[r] = "toured"

\* What process r has in memory is what it has read and what it has written.
RemembersItsWork(r) ==
  LET m == mem[r]  left == Left(phase[r])
  IN /\ "scan" \in left => m.scan = disk["scan"].files
     /\ Before("batched", phase[r]) => m.batches = m.scan
     /\ phase[r] = "merging" => m.read = disk["scan"]
     /\ "analyses" \in left => m.analyses = disk["analyses"].files
     /\ "domains" \in left => m.scan # {}
     /\ phase[r] \in {"assembled", "touring", "toured"} =>
          m.graph.files = m.scan /\ m.graph.analysed = m.analyses

\* The inductive invariant behind FailureKeepsArtifacts, for processes that do not
\* overlap: a crash leaves half a file, and a later run its own artifacts.
WorkInv ==
  /\ OneAtATime
  /\ \A r \in Runs : status[r] # "crashed" /\ Latest(r) => LeavesItsWork(r)
  /\ \A r \in Runs : status[r] = "running" => RemembersItsWork(r)

\* A run that was started ends, whatever providers, scripts and reviewers answer:
\* in particular no verdict holds it up (orchestrator.ts:571-574).
EveryRunEnds == \A r \in Runs : status[r] = "running" ~> status[r] \in Ended
=============================================================================
