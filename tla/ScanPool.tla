------------------------------ MODULE ScanPool ------------------------------
(***************************************************************************)
(* The worker pool every file scan of solsec runs on: ScanFiles and        *)
(* AnalyzeFile of internal/analyzer/analyzer.go, and the same pool in      *)
(* internal/cache/incremental.go and internal/multilang/analyzer.go.       *)
(*                                                                         *)
(* The main goroutine spawns the workers, fills and closes the jobs        *)
(* channel, starts the closer and collects; a worker takes a file, runs    *)
(* AnalyzeFile on it and sends the result; the closer waits for the        *)
(* WaitGroup and closes the results channel.                               *)
(*                                                                         *)
(* Both channels are FIFO and are kept as their whole history with a read  *)
(* cursor: jobs holds the files taken+1..sent of the list 1..NumFiles, and *)
(* results holds outbox[received+1..Len(outbox)].                         *)
(*                                                                         *)
(* The analyzer's inheritanceGraph field is shared by the workers without  *)
(* a lock.  It is kept as the set of files the graph was built from, {}    *)
(* standing for nil.  ScanDirectory builds it before it starts the pool;   *)
(* IncrementalAnalyzer.analyzeFiles does not, and AnalyzeFile then builds  *)
(* a graph of its own file only, tested and assigned in two steps.         *)
(***************************************************************************)
EXTENDS Integers, Sequences, FiniteSets

CONSTANTS NumFiles,      \* len(files)
          NumWorkers,    \* config.Workers, already defaulted to 4 when <= 0
          NumDetectors   \* the detectors OnlyDetectors lets through

ASSUME FilesAssumption     == NumFiles \in Nat
ASSUME WorkersAssumption   == NumWorkers \in Nat \ {0}
ASSUME DetectorsAssumption == NumDetectors \in Nat

ListedFiles == 1..NumFiles
Workers     == 1..NumWorkers
NoFile      == 0

(* A run of a graph-aware detector over a file and the graph it was given. *)
DetectorRun == [detector : 1..NumDetectors, graph : SUBSET ListedFiles]
Result      == [file : ListedFiles, error : BOOLEAN, runs : SUBSET DetectorRun]

VARIABLES
  main,           \* where the main goroutine stands
  sent, taken,    \* jobs: files 1..sent were sent, 1..taken received
  jobsClosed,
  wpc,            \* where each worker stands in its loop and in AnalyzeFile
  wfile,          \* the file it holds
  wdet,           \* the detector its loop over a.detectors is at
  wruns,          \* the detector runs whose findings it gathered so far
  wg,             \* the WaitGroup's counter
  outbox,         \* everything ever sent on results, in order
  received,      \* how much of it the collector received
  resultsClosed,
  graph,          \* a.inheritanceGraph
  prebuilt        \* did ScanDirectory or Run build the project graph first?

mainVars   == <<main, sent, jobsClosed>>
workerVars == <<wpc, wfile, wdet, wruns>>
poolVars == <<main, sent, taken, jobsClosed, wpc, wfile, wdet, wruns, wg, outbox,
          received, resultsClosed, graph, prebuilt>>

PoolTypeOK ==
  /\ main \in {"spawn", "feed", "collect", "done"}
  /\ sent \in 0..NumFiles
  /\ taken \in 0..NumFiles
  /\ jobsClosed \in BOOLEAN
  /\ wpc \in [Workers -> {"unspawned", "range", "read", "check", "build",
                          "detect", "failed", "exited"}]
  /\ wfile \in [Workers -> ListedFiles \cup {NoFile}]
  /\ wdet \in [Workers -> 1..(NumDetectors + 1)]
  /\ wruns \in [Workers -> SUBSET DetectorRun]
  /\ wg \in 0..NumWorkers
  /\ outbox \in Seq(Result)
  /\ received \in Nat
  /\ received <= Len(outbox)
  /\ resultsClosed \in BOOLEAN
  /\ graph \in SUBSET ListedFiles
  /\ prebuilt \in BOOLEAN

PoolInit ==
  /\ main = "spawn"
  /\ sent = 0
  /\ taken = 0
  /\ jobsClosed = FALSE
  /\ wpc = [w \in Workers |-> "unspawned"]
  /\ wfile = [w \in Workers |-> NoFile]
  /\ wdet = [w \in Workers |-> 1]
  /\ wruns = [w \in Workers |-> {}]
  /\ wg = 0
  /\ outbox = <<>>
  /\ received = 0
  /\ resultsClosed = FALSE
  /\ prebuilt \in BOOLEAN
  /\ graph = IF prebuilt THEN ListedFiles ELSE {}

-----------------------------------------------------------------------------
(* The main goroutine. *)

\* wg.Add(1); go func() { ... }()
Spawn(w) ==
  /\ main = "spawn"
  /\ wpc[w] = "unspawned"
  /\ wpc' = [wpc EXCEPT ![w] = "range"]
  /\ wg' = wg + 1
  /\ UNCHANGED <<mainVars, taken, wfile, wdet, wruns, outbox, received,
                 resultsClosed, graph, prebuilt>>

SpawnLoopEnds ==
  /\ main = "spawn"
  /\ \A w \in Workers : wpc[w] # "unspawned"
  /\ main' = "feed"
  /\ UNCHANGED <<sent, taken, jobsClosed, workerVars, wg, outbox, received,
                 resultsClosed, graph, prebuilt>>

\* jobs <- f, blocking while the buffer of len(files) is full
Feed ==
  /\ main = "feed"
  /\ sent < NumFiles
  /\ sent - taken < NumFiles
  /\ sent' = sent + 1
  /\ UNCHANGED <<main, taken, jobsClosed, workerVars, wg, outbox, received,
                 resultsClosed, graph, prebuilt>>

\* close(jobs), then start the closer goroutine and range over results
CloseJobs ==
  /\ main = "feed"
  /\ sent = NumFiles
  /\ jobsClosed' = TRUE
  /\ main' = "collect"
  /\ UNCHANGED <<sent, taken, workerVars, wg, outbox, received,
                 resultsClosed, graph, prebuilt>>

Collect ==
  /\ main = "collect"
  /\ received < Len(outbox)
  /\ received' = received + 1
  /\ UNCHANGED <<mainVars, taken, workerVars, wg, outbox, resultsClosed,
                 graph, prebuilt>>

\* the range over results ends, and ScanFiles returns allResults
Return ==
  /\ main = "collect"
  /\ resultsClosed
  /\ received = Len(outbox)
  /\ main' = "done"
  /\ UNCHANGED <<sent, taken, jobsClosed, workerVars, wg, outbox, received,
                 resultsClosed, graph, prebuilt>>

-----------------------------------------------------------------------------
(* The closer: wg.Wait(); close(results). *)

\* A slip: close(results) without wg.Wait().
CloseResultsUnwaited ==
  /\ main = "collect"
  /\ ~resultsClosed
  /\ resultsClosed' = TRUE
  /\ UNCHANGED <<mainVars, taken, workerVars, wg, outbox, received, graph,
                 prebuilt>>

CloseResults ==
  /\ main = "collect"
  /\ wg = 0
  /\ ~resultsClosed
  /\ resultsClosed' = TRUE
  /\ UNCHANGED <<mainVars, taken, workerVars, wg, outbox, received, graph,
                 prebuilt>>

-----------------------------------------------------------------------------
(* A worker's range over jobs. *)

TakeJob(w) ==
  /\ wpc[w] = "range"
  /\ taken < sent
  /\ taken' = taken + 1
  /\ wpc' = [wpc EXCEPT ![w] = "read"]
  /\ wfile' = [wfile EXCEPT ![w] = taken + 1]
  /\ wdet' = [wdet EXCEPT ![w] = 1]
  /\ wruns' = [wruns EXCEPT ![w] = {}]
  /\ UNCHANGED <<mainVars, wg, outbox, received, resultsClosed, graph,
                 prebuilt>>

\* A slip in leaving: Done is never called.
ExitWithoutDone(w) ==
  /\ wpc[w] = "range"
  /\ jobsClosed
  /\ taken = sent
  /\ wpc' = [wpc EXCEPT ![w] = "exited"]
  /\ UNCHANGED <<mainVars, taken, wfile, wdet, wruns, wg, outbox, received,
                 resultsClosed, graph, prebuilt>>

\* the range over the closed, drained channel ends; defer wg.Done()
Exit(w) ==
  /\ wpc[w] = "range"
  /\ jobsClosed
  /\ taken = sent
  /\ wpc' = [wpc EXCEPT ![w] = "exited"]
  /\ wg' = wg - 1
  /\ UNCHANGED <<mainVars, taken, wfile, wdet, wruns, outbox, received,
                 resultsClosed, graph, prebuilt>>

\* The two ways AnalyzeFile ends: on a read error, or past the last detector.
Finished(w) ==
  \/ wpc[w] = "failed"
  \/ wpc[w] = "detect" /\ wdet[w] = NumDetectors + 1

\* results <- result, blocking while the buffer of len(files) is full
SendResult(w) ==
  /\ Finished(w)
  /\ Len(outbox) - received < NumFiles
  /\ outbox' = Append(outbox, [file  |-> wfile[w],
                               error |-> wpc[w] = "failed",
                               runs  |-> wruns[w]])
  /\ wpc' = [wpc EXCEPT ![w] = "range"]
  /\ UNCHANGED <<mainVars, taken, wfile, wdet, wruns, wg, received,
                 resultsClosed, graph, prebuilt>>

-----------------------------------------------------------------------------
(* AnalyzeFile: read, make sure there is a graph, run every detector. *)

ReadOK(w) ==
  /\ wpc[w] = "read"
  /\ wpc' = [wpc EXCEPT ![w] = "check"]
  /\ UNCHANGED <<mainVars, taken, wfile, wdet, wruns, wg, outbox, received,
                 resultsClosed, graph, prebuilt>>

\* A slip: a read error dropped instead of reported as a result.
ReadErrorSkipsFile(w) ==
  /\ wpc[w] = "read"
  /\ wpc' = [wpc EXCEPT ![w] = "range"]
  /\ UNCHANGED <<mainVars, taken, wfile, wdet, wruns, wg, outbox, received,
                 resultsClosed, graph, prebuilt>>

\* os.ReadFile fails: the file was deleted or made unreadable meanwhile
ReadError(w) ==
  /\ wpc[w] = "read"
  /\ wpc' = [wpc EXCEPT ![w] = "failed"]
  /\ UNCHANGED <<mainVars, taken, wfile, wdet, wruns, wg, outbox, received,
                 resultsClosed, graph, prebuilt>>

\* A slip around the nil test: every file rebuilds the shared graph.
CheckGraphUntested(w) ==
  /\ wpc[w] = "check"
  /\ wpc' = [wpc EXCEPT ![w] = "build"]
  /\ UNCHANGED <<mainVars, taken, wfile, wdet, wruns, wg, outbox, received,
                 resultsClosed, graph, prebuilt>>

\* if a.inheritanceGraph == nil, the unsynchronised test
CheckGraph(w) ==
  /\ wpc[w] = "check"
  /\ wpc' = [wpc EXCEPT ![w] = IF graph = {} THEN "build" ELSE "detect"]
  /\ UNCHANGED <<mainVars, taken, wfile, wdet, wruns, wg, outbox, received,
                 resultsClosed, graph, prebuilt>>

\* a.buildInheritanceGraph(filepath.Dir(f), {f}) and its assignment
BuildGraph(w) ==
  /\ wpc[w] = "build"
  /\ graph' = {wfile[w]}
  /\ wpc' = [wpc EXCEPT ![w] = "detect"]
  /\ UNCHANGED <<mainVars, taken, wfile, wdet, wruns, wg, outbox, received,
                 resultsClosed, prebuilt>>

\* One turn of the loop over detectors.  A detector that returns an error is
\* skipped; otherwise its findings, computed against the graph the field holds
\* at that moment, are gathered.
Detect(w) ==
  /\ wpc[w] = "detect"
  /\ wdet[w] <= NumDetectors
  /\ \/ UNCHANGED wruns
     \/ wruns' = [wruns EXCEPT ![w] =
                    @ \cup {[detector |-> wdet[w], graph |-> graph]}]
  /\ wdet' = [wdet EXCEPT ![w] = @ + 1]
  /\ UNCHANGED <<mainVars, taken, wpc, wfile, wg, outbox, received,
                 resultsClosed, graph, prebuilt>>

-----------------------------------------------------------------------------
WorkerStep(w) ==
  \/ TakeJob(w) \/ Exit(w) \/ SendResult(w)
  \/ ReadOK(w) \/ ReadError(w) \/ CheckGraph(w) \/ BuildGraph(w) \/ Detect(w)

MainStep ==
  \/ \E w \in Workers : Spawn(w)
  \/ SpawnLoopEnds \/ Feed \/ CloseJobs \/ Collect \/ Return

\* ScanFiles has returned: nothing is left to run.
Terminated == main = "done" /\ UNCHANGED poolVars

PoolNext == MainStep \/ CloseResults \/ (\E w \in Workers : WorkerStep(w)) \/ Terminated

\* The Go scheduler runs every runnable goroutine eventually, a channel
\* operation that stays possible is performed, and a detector returns.
Fairness ==
  /\ WF_poolVars(MainStep)
  /\ WF_poolVars(CloseResults)
  /\ \A w \in Workers : WF_poolVars(WorkerStep(w))

Safe == PoolInit /\ [][PoolNext]_poolVars
PoolSpec == Safe /\ Fairness

-----------------------------------------------------------------------------
(* Properties. *)

Holding(w) == wpc[w] \in {"read", "check", "build", "detect", "failed"}
Holders    == {w \in Workers : Holding(w)}
Live       == {w \in Workers : wpc[w] \notin {"unspawned", "exited"}}
InOutbox(f) == \E i \in 1..Len(outbox) : outbox[i].file = f

ReceivedAreKept    == \A f \in 1..taken : InOutbox(f) \/ \E w \in Holders : wfile[w] = f
HeldAreUnreported  == \A w \in Holders : wfile[w] \in 1..taken /\ ~InOutbox(wfile[w])
HoldersAreDisjoint == \A v, w \in Holders : wfile[v] = wfile[w] => v = w
ResultsAreReceived == \A i \in 1..Len(outbox) : outbox[i].file \in 1..taken
ResultsAreDistinct ==
  \A i, j \in 1..Len(outbox) : outbox[i].file = outbox[j].file => i = j

\* Conservation of files through two channels and the workers' hands: a file
\* the workers received is held by one worker or sits in one result, never in
\* both, in two, or in none (analyzer.go ScanFiles: no result lost, none
\* doubled).
FilesConserved ==
  /\ ReceivedAreKept
  /\ HeldAreUnreported
  /\ HoldersAreDisjoint
  /\ ResultsAreReceived
  /\ ResultsAreDistinct

\* When ScanFiles returns, every file of the list has exactly one result and
\* no goroutine of the pool is left behind.
ReturnsEverything ==
  main = "done" =>
    /\ received = Len(outbox)
    /\ \A f \in ListedFiles : \E i \in 1..Len(outbox) :
         /\ outbox[i].file = f
         /\ \A j \in 1..Len(outbox) : outbox[j].file = f => j = i
    /\ \A w \in Workers : wpc[w] = "exited"

\* No file is lost on its way, none is doubled, and none is missing in the end.
NothingLost == FilesConserved /\ ReturnsEverything

\* A worker with a result in hand can always send it: results is still open
\* (a send on a closed channel panics) and its buffer of len(files) has room
\* even if the collector has not received anything yet.
SendNeverPanicsNorBlocks ==
  \A w \in Holders : ~resultsClosed /\ Len(outbox) - received < NumFiles

\* A directory scan computes every finding against the project's graph:
\* AnalyzeFile's lazy build never replaces the graph ScanDirectory built.
ProjectGraphKept ==
  prebuilt =>
    /\ graph = ListedFiles
    /\ \A i \in 1..Len(outbox) : \A r \in outbox[i].runs : r.graph = ListedFiles

\* Without a project graph, detectors never see a nil graph, and what they see
\* is the graph of a single file some worker had already received: the check
\* and the build race, but no detector runs ahead of both.
LazyGraphIsOneFile ==
  ~prebuilt =>
    /\ \A w \in Workers : wpc[w] = "detect" => graph # {}
    /\ \A i \in 1..Len(outbox) : \A r \in outbox[i].runs :
         \E f \in 1..taken : r.graph = {f}

\* A detector sees the project's graph if there is one, or that of one received file.
GraphKept == ProjectGraphKept /\ LazyGraphIsOneFile

\* What a caller of ScanFiles relies on, with the call's return.
Promise == INSTANCE ScanPromise
             WITH Files <- ListedFiles,
                  reported <- {outbox[i].file : i \in 1..received},
                  returned <- main = "done"
PromiseKept == Promise!Spec

-----------------------------------------------------------------------------
(* The inductive invariant the proofs use: how far each goroutine can be   *)
(* from the others.                                                        *)

MainInv ==
  /\ taken <= sent
  /\ main = "spawn" => sent = 0
  /\ main # "spawn" => \A w \in Workers : wpc[w] # "unspawned"
  /\ main \in {"collect", "done"} <=> jobsClosed
  /\ jobsClosed => sent = NumFiles
  /\ \A w \in Workers : wpc[w] = "exited" => jobsClosed /\ taken = NumFiles
  /\ resultsClosed => jobsClosed /\ \A w \in Workers : wpc[w] = "exited"
  /\ main = "done" => resultsClosed /\ received = Len(outbox)

\* The WaitGroup counts the goroutines that are alive; a received file is
\* either held or reported, so the results never outgrow their channel.
CountInv ==
  /\ wg = Cardinality(Live)
  /\ Len(outbox) + Cardinality(Holders) = taken

GraphInv ==
  /\ \A w \in Workers : wpc[w] = "detect" => graph # {}
  /\ prebuilt =>
       /\ graph = ListedFiles
       /\ \A w \in Workers : wpc[w] # "build"
       /\ \A w \in Workers : \A r \in wruns[w] : r.graph = ListedFiles
       /\ \A i \in 1..Len(outbox) : \A r \in outbox[i].runs : r.graph = ListedFiles
  /\ ~prebuilt =>
       /\ graph = {} \/ \E f \in 1..taken : graph = {f}
       /\ \A w \in Workers : \A r \in wruns[w] : \E f \in 1..taken : r.graph = {f}
       /\ \A i \in 1..Len(outbox) : \A r \in outbox[i].runs :
            \E f \in 1..taken : r.graph = {f}

IInv == PoolTypeOK /\ MainInv /\ FilesConserved /\ CountInv /\ GraphInv
=============================================================================
