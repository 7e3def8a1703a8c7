# TLA+ verification of solsec

solsec is a static analyzer for Solidity: a Go command-line tool that reads
contract files, runs some thirty detectors over each of them in a worker pool,
and turns the findings into a report and an exit code for CI.  This directory
holds TLA+ models of the parts of it that have state, order and failure, TLC
configurations that check them on small instances, and TLAPS proofs.

Paths below are relative to the repository's root (`src/` here).

## 1. Inventory

| component | code | state it keeps | operations | what is hard about it | correct when |
|---|---|---|---|---|---|
| scan worker pool | `internal/analyzer/analyzer.go` | two channels, a WaitGroup, worker goroutines, the shared `inheritanceGraph` field | `ScanDirectory`, `ScanFiles`, `AnalyzeFile` | interleaving of n workers, the closer and the collector; unsynchronised check-then-act on the graph; read errors, detector errors | every file gets exactly one result; the call returns; no send panics; findings are computed against the right graph |
| result cache | `internal/cache/cache.go` | one JSON entry per path: content hash, tool version, time, findings | `Get`, `Set`, `Clear`, `Invalidate`, `Stats` | several processes and versions on one directory; kills; edits between analysis and write; aging | an entry's findings are those of the content it is stamped with; readers never see half an entry |
| incremental scan | `internal/cache/incremental.go`, `git.go` | the selection (analyse, reuse, skip), results | `ScanDirectory`, `ScanFile`, `selectFilesForAnalysis` | git failing, untracked files, stale reuse | every file is accounted for; nothing changed is skipped; reports are current |
| scan command | `cmd/solsec/main.go` | options, results, exit code | `scan` | order of overrides, suppression, baseline, errors | exit codes mean what CI takes them to mean |
| baselines, fingerprints | `cmd/solsec/baseline_cmd.go`, `internal/baseline`, `internal/fingerprint` | the baseline file | `create`, `update`, `remove`, gated `scan` | fingerprints must agree across commands and routes; in-place writes; collisions | only new findings break the build; no new finding passes |
| suppression | `internal/suppression` | inline directives per file, ignore entries | `RegisterFile`, `IsSuppressed`, `FilterResults` | block directives that repeat, overlap or never end; over-long lines; expiry; the file read twice | a line is suppressed exactly when a directive says so |
| configuration | `internal/config`, `main.go` | what the reader keeps from line to line, the settings | `Load`, `applyConfigDefaults`, `configuredDetectors`, `collectSolFiles` | a hand-written reader of a YAML subset; flags over configuration over defaults; exclusions relative to the target | a file's lines mean what they say; the detectors asked for run; the report has exactly what is neither filtered nor excluded |
| call graph | `internal/callgraph` | nodes, edges, transitive flags, cycles | `Build`, traversals | names resolved through overloads, bases and libraries; recursion: memoised depth-first search over cycles; map iteration order | calls are the calls of the text; no flag is a false alarm, flags are lost in recursion only; marking, components and callees are exact |
| interprocedural taint | `internal/taint/summary.go`, `interprocedural.go` | function summaries, a map of labels per analysed call, flows | `BuildAll`, `Analyze` | recursion over cyclic call graphs in map order; branch joins; callees analysed again and again | no sink made up, none lost outside recursion; every flow has its source; no direct chain lost; the analysis ends |
| symbol table | `internal/symboltable` | scopes, symbols, uses, the scope and call index of the walk | `Build`, look-ups, the storage tracker and detectors behind it | state kept from function to function; shadowing; names resolved twice | what detectors miss or report has a reason in the text |
| intraprocedural taint | `internal/taint/engine.go`, `propagation_ordered.go`, `is_tainted_by.go`, `storage.go` | tainted symbols with source chains, worklist | `Analyze` | order independence, three relations between symbols | the least set that has the sources and is closed; every chain is a derivation |
| inter-contract | `internal/intercontract` | project, cross-contract graph, flags | pipeline of loader, graph builder, taint, detectors | maps met in any order; names that collide; fixpoint of transitive flags; bounded searches; slices that share arrays | flags, flows, cycles and unprotected calls are those of the graph's paths; the pipeline ends |
| inheritance graph | `internal/inheritancegraph` | contracts, parents, children, override chains | build, queries, override tracking, the line parser, the order of calls and writes | resolution by import and by name, diamonds and cycles, map order; brace depth over heads of every layout | regressions do not depend on the order; three opinions on one override agree up to named differences; the depth is the true one |
| on-chain | `internal/onchain` | token bucket, HTTP client, per-address results | `AnalyzeAddresses`, `AnalyzeContract`, proxy detection | a ticker and a blocking client; replies lost one by one; filters that keep two lists | the rate is bounded; answers depend on their own address; the scan ends |
| formal bridge | `internal/formal` | targets, tool results, files in the project | `Generate`, `Run` | missing tools, timeouts, crashes; a copy of the contract written into the project | the most severe targets are checked; only an answer becomes a finding; nothing is left behind |
| multi-language analyzer | `internal/multilang` | as the pool | `ScanFiles` | as the pool | as the pool |
| path tracker, detectors | `internal/pathtracker`, `internal/detectors` | none beyond a call | guards, mutexes, both reentrancy detectors, access control, unchecked calls, detectors of upgradeable contracts | windows of lines; two readers of one file that cut it into functions differently | a finding is a call before a write in the file; what is missed has a reason in the layout |
| parsers, rules, reporters, traces, bench | the other packages under `internal/` | none beyond a call | | subprocesses, AST decoding, text | |

Components interact by calls within one process (command -> analyzer or
incremental analyzer -> detectors -> graph), through channels inside the pools,
and across processes through two kinds of files: the cache directory and the
baseline.

## 2. Plan

The order follows what a wrong answer would cost: a finding lost, a finding made
up, a build let through.

| step | module | what it models | status |
|---|---|---|---|
| 1 | `ScanPromise`, `ScanPool` | the worker pool and the abstract promise it refines | done, proved |
| 2 | `IncrementalScan` | the result cache, git, several sessions | done, proved |
| 3 | `BaselineGate` | baselines, fingerprints, exit codes, over cached and fresh findings | done, proved |
| 4 | `CallGraph` | transitive flags, marking, components | done, proved |
| 5 | `Suppression` | inline directives, ignore entries | done, proved |
| 6 | `TaintSummaries`, `InterproceduralTaint` | function summaries in map order; the walk of the entry points with joins, callees and flows | done, summaries proved |
| 7 | `CrossContractGraph`, `CrossContractTaint` | the cross-contract graph and its flags; the searches for flows, cycles and unprotected calls | done, proved |
| 8 | `SymbolTable`, `TaintEngine` | both passes of the symbol table, its detectors, the storage tracker; the taint engine with its three relations | done, proved |
| 9 | `Inheritance` | parents by import and name, override chains, access-control regressions, the detector without the graph | done, model-checked |
| 10 | `ContractParser`, `PathTracker`, `LineDetectors`, `SourceDetectors` | the line readers, guards and mutexes; on them unchecked calls, four detectors of upgradeable contracts, reentrancy and access control | done, proved but for the last two |
| 11 | `Selections`, `OnChainScan`, `FormalVerification`, `OptionalStages` | two loops over slices; the token bucket and the address pipeline; targets, tools and files; both as stages of a scan that may be killed | done, proved |
| 12 | `ScanConfig` | the reader of `.solsec.yml`, settings, file collection, overrides, exclusions | done, proved |
| 13 | `CallGraphBuild` | passes 1 and 2 in front of `CallGraph`, and the queries behind it | done, proved |

Modules compose by EXTENDS: `CallGraphBuild` runs `CallGraph`'s searches on the
graph it made; `TaintEngine` reads the table `SymbolTable` built;
`InterproceduralTaint` uses the summaries of `TaintSummaries`;
`CrossContractTaint` searches the graph of `CrossContractGraph`;
`LineDetectors` and `SourceDetectors` ask `PathTracker` about what
`ContractParser` read;
`OptionalStages` is one scan whose findings `OnChainScan` adds to and
`FormalVerification` consumes.  `IncrementalScan` takes an analysis apart into
reads, and leaves the pool they run on to `ScanPool`; `BaselineGate` takes a
whole analysis for one step and leaves its interleavings to these two.

What is left: the flows of `InterproceduralTaint`, the resolution in `Inheritance`
and what is reported as reentrancy and access control have no proof (section 7).

## 3. Modules

### ScanPromise, ScanPool (AnalyzerProofs)

`ScanPromise` is what a caller of `ScanFiles` relies on: each file is reported
once, and the call returns when all are.  `ScanPool` is `ScanFiles` and
`AnalyzeFile`.

| code | model |
|---|---|
| `jobs`, `results` | histories with a read cursor: `sent`/`taken`, `outbox`/`received` |
| the loop that spawns, the feeding loop, `close(jobs)`, the collector | `main`; `Spawn`, `SpawnLoopEnds`, `Feed`, `CloseJobs`, `Collect`, `Return` |
| a worker's loop and `AnalyzeFile` in it: read, graph check, graph build, detectors, send | `wpc[w]` and one action per step |
| `wg.Wait(); close(results)` | `CloseResults` |
| `a.inheritanceGraph` | `graph`, the files it was built from; nil is `{}` |

The check of `inheritanceGraph == nil` and its assignment are two steps, as they
are in the code, which has no lock there.  A data race may make a read return
the old or the new pointer; a pointer is read whole on the platforms Go runs on,
so the interleaving of the two steps is all there is to it.

### IncrementalScan (AnalyzerProofs)

A session is one process.  `disk` and `entry` are shared.  `ScanDirectory` or
`ScanFile` starts it; `AskGit` is `GetChangedFiles`; the `Select...` actions are
the loop of `selectFilesForAnalysis` with `Get` in it; `Analyze` is a worker
reading a file; `WriteTemp` and `Rename` are `Set`.  The content of a file
stands for its hash, and a finding list is what it was computed from.  Around
the sessions: writes, deletions, commits, aging, damage, clearing and kills.

### BaselineGate (ReadingAndGateProofs)

A finding is an issue of the code with the way it names its rule; its
fingerprint is the issue's print with the path as the command spells it.
`create` and `update` write the baseline in two steps (`os.WriteFile` truncates
first).  `scan` goes through overrides, ignore entries, the baseline's diff and
the exit code in the order of `cmd/solsec/main.go`.

### CallGraph, CallGraphBuild (CallGraphAndSuppressionProofs)

In `CallGraph` the graph is any graph; the searches of `computeNodeProperties`,
`markReachable` and `tarjanDFS` are one recursion each, kept as a stack of frames.  Where the code
ranges over a Go map the model takes any order.  The reference definitions
(`Reached`, `Together`, `Certain`) are set-theoretic and know nothing of
searches.

`CallGraphBuild` makes that graph from a source unit.  A node is a slot: `declared`
lists the identifiers in the order of the declarations, and `Node(id)` is the last
slot of that identifier, as `AddNode` overwrites the map's entry while `EntryPoints`
keeps the earlier pointer.  The actions of pass 2 are the cases of
`processFunctionCall`: `LowLevelCall`, `IdentifierCall` and `MemberAccessCall`, and
`UnseenCall` for the calls the walk does not go to or does not recognise.
`resolveInheritedFunction` takes any node of that name, as Go's map does.
The reachability matrix is built by `Visit`, one call of `transitiveCalleesHelper`
each: which node is visited next does not change what is visited.

### Suppression (CallGraphAndSuppressionProofs)

A scan of one file: `Analyze` reads it; `NewEngine` reads the clock;
`ReadSource` reads the file again; one action per kind of line is `Parse`;
`EndOfSource` closes what is open; `Filter` is `FilterResults`.  A line is what
the three patterns make of it, its kind and its words; a line over the
scanner's 64 KB ends the parse.  A next-line directive that `nextLinePattern`
does not take (an empty list, or words outside its character class) reads as a
block of the id `-next-line`, which is no rule's, and does nothing.
`Covered` is the meaning of the directives without a parser.  Some of that
meaning is surprising, and the model keeps it: a second `solsec-disable` of an
open block discards the first one's start, so that the lines between the two are
reported after all; an `enable` without ids ends only a block of all rules.

### TaintSummaries, InterproceduralTaint (InterproceduralProofs)

`TaintSummaries` is `SummaryBuilder.BuildAll`: a depth-first search over the
resolved calls, begun at the nodes in any order because Go's map gives them so.
`Visit` is the loop of `BuildAll`, `Descend` a turn of `buildSummary`'s loop over
`Callees`, `Summarise` its end, with `Flow` for `computeFunctionSummary`.
`EndsIn` and `LeadsTo` say what parameters and functions lead to without a search.

`InterproceduralTaint` extends it with `InterproceduralEngine.Analyze`.  A source
unit is data: per function its parameters, its call sites and its statements, of
the kinds `analyzeStatement` tells apart.

| code | model |
|---|---|
| the Go stack of `analyzeFunction` and `analyzeStatement` | `frames`: one for an entry point, a call, a branch, a loop |
| `functionTaintState` | `locals` and `ret` of a frame |
| `copyState`, `mergeStates` | `WalkFrame`; `Merged` in `Join` |
| one case of the two `switch` statements | one action: `Declare`, `Assign`, `Return`, `Branch`/`Else`, `Loop`, and for calls `CallOut`, `CallSkipped`, `CallIn`, `Unlisted` |
| `e.flows` | `flows`, as a set |
| the goroutine's stack limit | `MaxCalls`, and `Overflow` |

An expression is two things: the identifiers `containsIdentifier` finds in it
(for summaries) and the leaves `exprTaintLabel` tries, in its order (for labels);
the two differ, for instance at an index, of which only the base is read.

### CrossContractGraph, CrossContractTaint (InterproceduralProofs)

`CrossContractGraph` is `Build` of the graph builder.  `OpenFile` and `AddNode`
are the pass over functions, `OpenFile`, `AddCall` and `NoCall` the pass over
calls, `NextSweep` and `Sweep` the loop of `ComputeTransitiveFlags`.  The files
and the nodes are Go maps, so their order is any order, a new one each time they
are ranged over.  A function is its contract, its name, its visibility, whether
it writes state, whether it has an access-control modifier, and its calls by
kind and name; nothing else of it is read.  Functions of one identity share a
node: `nodes` says which of them is behind it, `entries` keeps those that were
replaced, as the code's pointers do (`Live`).

`CrossContractTaint` extends it with `InterContractPipeline.Analyze`.

| code | model |
|---|---|
| the Go stack of `propagateFromNode`, `findReentrancyCycles` | `stack`, a frame per open call |
| `crossings`, `append`, `copy` | slices: an array of `heap` and a length; `Appended` writes in place if there is room; `Copied` |
| `findFunction` | `Found`: the first file with the contract; never a nameless function |
| `visited` | the path without its first node |
| `e.flows`, the findings of detectors 1 and 2 | `flows`, `cycles`, `unguarded`, as sets |

The reference definitions are about paths: `Walks` (where a path of at most
`MaxDepth` edges can be, and what it crossed), `ReturningPaths`, `Below`.

### SymbolTable, TaintEngine, TaintEngineProofs

A source unit is contracts with members (functions and modifiers) and their
statements in the order of the walk, each with its path: what the statement
declares, assigns, reads and calls.  `SymbolTable` is `Build`.  Pass 1 is a
function of the unit (`AllSymbols`); pass 2 is `EnterContract`, `EnterMember` and
`Statement`, with the three things the code keeps between them: `at`, `scope` and
`called`.  `Means` is Solidity's own scoping, `Lookup` and `Resolve` the table's.
`TrackStorage`, `DetectReentrancy` and `Shadowing` are its readers.

`TaintEngine` extends it with `Engine.Analyze`: `SeedHead` and `SeedStatement`
walk the unit for sources, `Propagate` or `BeginSearch` and `Search` serve one
symbol of the worklist, `SinkHead` and `SinkStatement` are the second walk.  Whether one symbol taints another is one of three relations,
for the three constructors of the engine: `PlainUse`, `OrderedUse`, `IndexedUse`.
The worklist is served in any order.  `OneStep` and `Closed` say what a
fixpoint is without a worklist.

### Inheritance

`ParseFile` and `LinkFile` are `BuildFromFiles`: files in their order, then their
parents in the order Go's map gives.  `ResolveParent` is `resolveParent`, `GetAncestors`
the breadth-first ancestors, `GetChain` and `FirstRegression` the override tracker,
`VisitChain` a turn of `FindAllRegressions`, which keeps one report for a place.  The detector that looks at one
file (`AnalyzeFile`) is in the same module, so that `OpinionsAgree` can compare the
opinions on one override.  A modifier is its name and what its body
checks; how the body's text becomes that is left out.

### ContractParser, PathTracker, LineDetectors, SourceDetectors (ReadingAndGateProofs, DetectorProofs)

The file is written a line at a time, and every reader sees every line: the
parser of the inheritance graph, both extractors of functions, the extractor of
contracts.  A line is its kind, braces and what the detectors look for in it.
`Fits` and `Follow` are the language: which line may come next, and which contract
and function it belongs to.  So a reader's opinion can be compared with the
truth at every line, and not only on files somebody thought of.  `PathTracker`
is `FindEarlyGuards` and `FindCustomMutex` over a body's lines.  `LineDetectors`
has the detectors that look through a window of lines: `UncheckedCallDetectorV2`
looks for the check of a call's result by its name in the lines below (`VarName`,
`IsVarChecked`), `ReinitializableInitDetector` for a guard near the head of an
initialize(), and three go through the lines of constructors and contracts.
`SourceDetectors` adds both ways `ReentrancyDetectorV2` works and the
access-control detector, runs them all on a finished file (`Scan`), and states
what their findings must have behind them.

### OnChainScan, FormalVerification, OptionalStages

`OnChainScan`: `Send` takes a token and asks, `Reply` is the answer or its loss,
`Assemble` makes the findings of an address; the ticker (`Tick`, with `Filled`)
is a goroutine of its own.  `FormalVerification`: `Generate` and `SelectTargets`
choose, `RefuseTool`, `StartTool` and `EndTool` run one tool on one target with any
outcome, `Confirm` keeps the violations.  `OptionalStages` is
the scan around them, with kills, and with the project's directory, into which
Echidna's test file is written and from which the next scan reads.  `Selections`
has the two loops over slices that the three share: `Kept`, which appends what
passes a test (`filterTargets`), and `Joined` (`ToAnalysisResults`).

### ScanConfig

`ReadLine` reads one line of `.solsec.yml` with one operator per section; the
state is the loader's: section, list, rule, ignore entry, error.  `SetUp`
makes settings of it and of the flags, `Collect` the files, `Analyze` and `Report`
the findings that are left and the exit code.  The reference definitions are
operators of the whole file: `Top` and `Under` are the headings a line is under,
`Latest` the line that has the last word, `Items` what a set of lines lists,
`OverrideOf` and `EntryOf` what is said of a rule or an ignore entry.

## 4. Runs

| run | bounds | what it shows |
|---|---|---|
| `scan_pool` | 3 files, 2 workers, 2 detectors | nothing lost or doubled (`NothingLost`), no send panics or blocks, the right graph (`GraphKept`), return, refinement of `ScanPromise` (`PromiseKept`) |
| `incremental_cache` | 2 files, 2 contents, 2 sessions, 2 tool versions, 2 scans, 2 events | entries match their hash, reports are current, complete and by the right tool; git's default strategy misses nothing |
| `baseline_gate` | 2 files, 4 issues, 2 sessions, 3 commands, 1 event | full scans fail only for what nobody accepted and catch what is new; never green on a torn baseline |
| `call_graph` | source units of at most 3 nodes: every graph of two calls each up to renaming, and families with bases, overloads, libraries, nameless functions and every form of call | the recorded calls and the queries are those of the text; flags sound and lost in recursion only; marking and components exact |
| `interprocedural_taint` | 1116 source units of 3 functions, 4 open calls | summaries exact outside recursion; flows have their source and no direct chain is lost (`FlowsRight`); the analysis ends outside recursion |
| `cross_contract` | 324 projects of 2 files and 4 functions, depths 4 and 3, every order of files, nodes and targets | flags, flows, cycles and unprotected calls exact; the pipeline ends |
| `source_analysis` | units of two contracts with up to 3 members each, 3 modes | what the table's detectors miss or report has a reason; taint is the least fixpoint in every mode; every chain is a derivation |
| `suppression` | all files of 1 and 3 lines over 10 kinds of line, 2 scans, 1 event | directives exact; nothing hidden without a reason; what is reported stays reported |
| `inheritance` | lines of three contracts over five modifiers, in one file or several, imports resolved or not; diamonds, overloads, interfaces, cycles | reported regressions are exactly the loosened overrides of straight hierarchies; three opinions on them agree where modifiers are conventional |
| `source_reading` | fourteen styles (a length and an alphabet of lines), files of up to 7 to 15 lines, every file of the language in each | the parser's depth is the true one and readers agree on functions (`ReadingIsRight`); functions, results of calls, initializers, constructors and contracts are missed or reported for a named reason only |
| `configuration` | every file of up to 5 of 22 lines, 4 sets of flags, 7 targets, 3 sources | a file means what its lines say; the detectors asked for run; the report is what filters and exclusions leave, and the exit code follows it |
| `optional_stages` | 2 addresses, bucket of 2, 2 projects of 2 and 3 findings, 3 sets of options, 2 scans, 1 kill | the request rate is bounded; an answer depends on its own address; the most severe targets are chosen and only an answer confirms; the directory is clean after a scan that was not killed; every scan ends |

Several properties are conjunctions of parts that the modules state and comment
one by one (`NothingLost`, `GraphKept`, `ReportAccounts`, `FullScanGatesNew`,
`FlagsRight`, `ComponentsRight`, `BuildRight`, `SummariesRight`, `FlowsRight`,
`ReportsExact`, `DetectionsForAReason`, `ReadingIsRight`, `FunctionsForAReason`,
`UpgradesForAReason`, `ResultsRight`):
TLC names the conjunction, the counterexample shows the part.  Type invariants
are stated in the modules; section 7 says which are proved.

Why the bounds are enough.  In `scan_pool` a third file lets a worker take a
second one while the other still holds its first, and lets the feeder find the
jobs channel both empty and full; a third worker does what the second does, and
the theorems hold for any number.  In `incremental_cache` two sessions meet in
every pair of steps, a second tool version and a second content make an entry
wrong in either way, and two events give damage followed by a repair.  In
`baseline_gate` three commands are create, update (or another session's
command) and the gated scan; the four issues hold a collision of prints within a
file, one across files, an override and an ignored rule.  In `call_graph` three
functions have every shape of recursion that a flag can be lost in (a cycle of
two with an exit, a cycle of three, self-recursion with a sibling); the searches
take nodes in every order, so one graph of each class under renaming stands for
all.  In `suppression` three lines hold a repeated start with an end, an end
without a start, an over-long line before an end, and a directive on the last
line; one event is a tick of the clock or a write at any step of either scan.

In `interprocedural_taint` the units combine every kind of statement with callees
that sink, pass on, return, recurse or are public themselves; three functions
give a chain of two calls, recursion of one, two and three functions, and a
callee that is an entry point; four open calls let a recursion go round before
it overflows.  In `cross_contract` the projects combine calls within a contract,
callbacks, low-level calls and calls nobody resolves with a fourth function that
is of a third contract, makes a name ambiguous, has no name, or takes another's
node.  Callbacks make paths longer than both depths, so the bounds cut; three
crossings leave room in an array of four, so that siblings share it.

In `source_analysis` a contract has two functions, so that the state the table
keeps from the first meets the second; a second contract inherits from it, or has
a function of the same name.  In `source_reading` a line alphabet holds what can
interact: heads of every layout; guards, writes and calls in blocks; locks; two
functions with and without bodies; owner checks; results and what looks at them,
in assembly too; initializers, constructors and headers of upgradeable
contracts.  Nine lines are two functions in a contract, one of them with a body
of three lines.  Fifteen lines put a check ten lines below its call.  The two other
windows are constants, scaled down so that ten lines are on either side of them:
guards are looked for in the first 4 lines of a body (`GuardScanDepth`; 20 in
pathtracker.go:32) and, in an initialize(), in the first 2 below the brace
(`InitWindow`; 8 in reinitializable_init.go:108).  In `configuration` five
lines are a section, a list in it, an item, a second list or section, and an
item there: enough for every way a line can be taken for another list's or
entry's.  In `optional_stages` a bucket of two refills during an address's four
requests, and the second scan reads what a killed first one left.

`suppression`, `interprocedural_taint`, `cross_contract`, `source_analysis`,
`inheritance`, `source_reading` and `optional_stages` turn the deadlock check off:
the last scan, the analysis, the file or the pipeline simply end.  The other
modules have a step that stands for the end, or for being idle.

## 5. Fairness

Four modules state fairness.  `ScanPool`: weak fairness of the main goroutine's
next step, of the closer and of each worker.  A Go goroutine that can run is
eventually run, and none of the steps waits for anything but a channel or the
WaitGroup; detectors and file reads are assumed to end, as the code, which has
no timeout there, does too.  `InterproceduralTaint` and `CrossContractTaint`: weak
fairness of the next step, since one goroutine runs the analysis and waits for
nothing.  `OptionalStages`: weak fairness of each stage's next step and of the
ticker.  A stage waits for a token, which the ticker's goroutine puts back; for
a reply, which the HTTP client's timeout of 30 seconds bounds; and for a tool,
which the runner kills at its timeout.  No fairness is assumed of a kill, nor of a
reply being good.  The other modules state safety only: a session may be
killed, and a scan may stop, at any step.

## 6. Where code and text differ

The models keep what the code does.  Where that differs from what a comment or a
document of the repository says, or from what a user would expect, the
properties name the difference as an exception; here they are together.

*Cache and baselines.*  `Set` hashes the file after the analysis, so that a file
saved in between gets old findings under the new hash
(`internal/cache/cache.go:171`, whose comments rule this out); `EntriesMatchHash`
is therefore checked and proved without edits during a scan.  Without
`--verbose` a git error becomes an empty list of changes and every uncached file is
skipped (`internal/cache/incremental.go:154`).  An entry is reused whatever
options it was made with (`cache.go:144`), and comes back without rule id,
fingerprint and trace (`incremental.go:296`).  An incremental scan spells paths
in another way than `baseline create`, so that known findings count as new.  With a
baseline, analysis errors no longer reach the exit code
(`cmd/solsec/baseline_cmd.go:328`, against `reporter.go:45`).  `baseline update`
takes a damaged baseline for a missing one (209), and two updates that overlap
lose one (259).

*Configuration.*  Lists that leave no detector mean that all run
(`main.go:652`).  A line of the wrong indentation in a list is skipped without a
word, and a rule with a value on its line gives the lines below it to the rule
above (`loader.go:171-193`).  A quoted rule id keeps its quotes and never
applies.  `scan.timeout` is read and not used.  A list makes `--experimental`
ineffective.  Exclude patterns are relative to the scan's target, and for a
single file to its directory.  The severity filter comes before overrides.

*Taint.*  The join after an if takes the false branch's taint only
(`internal/taint/interprocedural.go:495`, whose comment promises both).  A recursive
contract function with a tainted argument ends the process (`AnalyzeEnds` allows
exactly this).  A returned label stays in `__return__` until the next one.  A
parameter passed twice counts in its first position (`summary.go:289`).

*Symbol table.*  Uses in a contract's second function are attributed to its
first (`builder.go:381`), whose parameters then shadow state variables.  A call
with options is never seen, though the comment at 409 says so, and the right
side of an assignment is never read.  Of functions that share a name the
statement index keeps any (`index_builder.go:72`).  A local of a modifier that
shadows a state variable makes the shadowing detector dereference nil.

*Call graph.*  Calls with options and on casts are not recorded; bodies of while
and unchecked blocks are not walked; `super.f()` counts as external.  Calls of
fallback and receive functions are lost (`builder.go:117`).  An overload's node is
replaced while its entry point is kept (`graph.go:127`).  Inherited names resolve
to any contract, in map order (355).  The interprocedural reentrancy detector
never reports, since the classification it asks is a stub.

*Inter-contract analysis.*  `require(...)` and any unresolved call is an
external-call sink; a call into the caller's own contract is a cycle whether or
not it comes back; which of two functions of one name is in the graph depends
on map order.

*Inheritance.*  The tracker compares neighbours of a linearised chain even if
they are siblings (`override_tracker.go:326` says that it does not).  A parent
whose name only resolves to the child makes a cycle, so that a contract is its
own ancestor (`query.go:7`).  A modifier that is dropped while another
access-control modifier is kept is still reported.  Of overloads the last stays.
`AnalyzeWithIndex` has no caller in the program.

*Readers of source lines.*  A function without a body stays open and swallows the
next line (`parser.go:227`).  A head of three lines ends after its second
(`graph.go:78` says otherwise); a contract's head of several lines closes the
contract (`reentrancy_v2.go:62`), and the fallback is not tried.  A function on one
line absorbs the next one's block (`helpers.go:65`).  With the graph, a check after
the call passes for a guard (`guard.go:65` says otherwise), so that findings the
plain detector makes are hidden; the line reported is the call's plus one minus
the comments before it.  `nonReentrant` and a call of `__Ownable_init` pass for
access control.

*Windows of lines.*  A call whose result goes nowhere is let off when another's
result was declared up to three lines above it and is checked below
(`unchecked_call_v2.go:177`); `require(okTo)` passes for a check of `ok`
(`unchecked_call_v2.go:215`); an assembly block ends at its first `}`
(`unchecked_call_v2.go:254`); constructors and modifiers are not looked at.  A
constructor whose head takes three lines is cut before its body
(`constructor_in_upgradeable.go:217`), and one of a plain contract is reported for
an upgradeable contract in the same file.  A contract whose header goes on in a
second line never misses its gap (`storage_gap_missing.go:188`); a comment above a
base hides it, and a function named `transferOwnership` passes for the owner's
initialization (`uninitialized_ownable.go:155`).  An internal initialize() whose
visibility is on its second line is reported (`reinitializable_init.go:62`).  Checks
more than 20 lines down a body are not looked for (`pathtracker.go:32`), so a guard
below that, or below the first write, does not keep a function from being reported.

*On-chain and formal stages.*  Lost source code makes a verified contract
"unverified"; every verified contract is a "bytecode-mismatch", since the
comparison is a stub (`internal/onchain/analyzer.go:163`, against
`README.md:80`); the first burst is a full bucket above the stated rate.  An
Echidna run that cannot compile the contract counts as safe.  A dry run ignores
priority and maximum; scripts of one name overwrite each other.  Echidna's
test file survives a kill and is scanned, and verified, next time.

*Suppression.*  An `enable` ends only blocks opened under the same id
(`inline.go:136`); a finding whose text names no function passes for one of
every function (`config.go:85`).

## 7. Proofs

All theorems hold for every value of the constants under the modules' named
assumptions, which say no more than that bounds are numbers, that marker values
differ from data, and that inputs have their types; that nothing is below a
file; and that no detector is both default and experimental.

- **ScanPool** (`AnalyzerProofs`).  The properties alone are not inductive:
  that a send never blocks needs that results never outnumber files, which
  needs that every received file is held by one worker or in one result, which
  needs the WaitGroup's count to know when the channel may close.  `IInv`
  collects this: types, the relative position of the goroutines (`MainInv`),
  where the files are (`FilesConserved`), the two counts (`CountInv`), and the
  graph (`GraphInv`).  `PoolKeepsPromise` maps every step to a `Report`, a
  `Return` or a stutter of `ScanPromise`.
- **IncrementalScan** (`AnalyzerProofs`).  `Memory` says that idle
  sessions hold nothing and that what waits to be stored was read; `AllSorted`
  that each collected file is still to be looked at or in exactly one of the
  three groups; `Faithful` that what a session read, took from the cache or is
  about to store is what the disk holds, if the file is still there; `AllRead`
  that nothing is reported unread.  `EntriesAreTrue` and `ReportsAreCurrent`
  assume `EditsDuringScan = FALSE`: no source file is written while a session
  runs, without which they do not hold (section 6).  So does
  `GitMissesNothing`: a file git did not name, or that was skipped, stays as it
  was committed (`GitInv`), since only a deletion changes the disk then, and a
  commit takes files as they are.
- **BaselineGate** (`ReadingAndGateProofs`).  A finding of a full scan is named by
  its rule (`RuleInv`); a key, in the file or in a session's memory, is that of
  the issue it was computed from (`KeyInv`); an exit code stays the one the diff
  with the loaded baseline gave (`ExitInv`).  `TornNeverOpens` and
  `NothingNewPasses` hold for every spelling of targets.  `GateIsExact` assumes
  that all are typed relative, without which a finding accepted under one
  spelling is new under the other (section 6).
- **ContractParser** (`ReadingAndGateProofs`).  `ReadersReadRight` is about every
  file of the language, of any length and with any heads and names, read by the
  steps of `SourceDetectors`.  First the language itself: what is open nests in one
  way (`Shape`), so every line is in one of nineteen places (`Moves`); it has one of
  five effects on the functions and modifiers (`Effects`), which an open one takes
  line by line (`OpenInv`), and it changes the number of open braces by its own
  (`LevelStep`).  Then each reader against it.  The parser's depth is that number
  whatever the layout (`CountInv`), one more in a contract that was closed on its
  own line.  Without the layouts `Odd` its contracts, with the open function added,
  are the file's (`ParserInv`).  An extractor has finished exactly the functions that
  are complete, and its open block is the function that is not, up to this line
  (`CutIs`, `CutStep`): it closes a block at the line that closes the function and no
  other because its depth is the number of braces less the contract's, and its block
  has a brace exactly when the head is over.  The two extractors share that lemma
  (`CutInv`, `PartInv`).  `extractContracts` has a block for each finished contract
  and the open one's lines (`GatherInv`); that the functions found in a block are
  those of its contract holds of the run of `extractFunctions` over its lines
  (`Folded`, `GatherData`), which a later line does not change (`FoldedStays`) and
  which is the only one (`FunctionsOfFold`).  Between contracts nothing is open, and
  the invariant is the property (`ReadingInvSays`).
- **SourceDetectors** (`DetectorProofs`).  `UpgradesExplained`, `ResultsExplained`
  and `FunctionsExplained` hold of every file, those whose functions a reader gets
  wrong included, so they cannot rest on `ReadingIsRight`.  The detectors know lines
  and a count of braces, the properties know contracts and functions; what joins the
  two is a description of the file by its lines alone, kept as the file grows.  The
  depth at a line is the number of scopes open there (`DepthInv`), and what kinds
  of line may stand where is said for each depth (`PlaceInv`), assembly blocks
  (`AssemblyInv`), contracts (`TextInv`, `OrderInv`) and functions (`ItemInv`: a
  function is a run of lines, less the comments, with one line where its body opens
  and no depth below 2 till its last).  `CoverInv` is what `extractFunctions`
  guarantees when its files are odd: its blocks are disjoint runs of lines, each
  function that has a body ends exactly one block, and a block that begins before
  its function begins with one without a body.  `ScanInv` adds that a scanned
  file's findings by line are those of its lines.  From there each detector is a
  matter of its window: a constructor's or a contract's block ends where its
  braces close (`EndsFrom`, `BlockFromIs`), a guard is seen within `InitWindow`
  lines, or before any write of the outermost block and within `GuardScanDepth`
  (`EarlyIs`, `ProtectedIs`), a check within ten lines, in assembly until a nested
  block closes (`AssemblyIs`, `WindowIs`).
  `FunctionsExplained` compares three readers in the same odd file and needs the
  other two as well.  `PartCoverInv` is `CoverInv` for `extractFunctionsPart`: a
  function without a body, or one the reader swallowed, is the only thing that makes
  its blocks and the functions differ.  What a function of the graph's parser can be,
  which functions and variables it keeps when it takes two for one, is `UnitInv` and
  `KeptInv`; where its contracts and its depth are the grammar's is `EmptyInv` and
  `SyncInv`.  `LinesInv`, `StartInv`, `UniqueInv` and `HeadInv` give a function's
  lines in their order, the line it begins on, that a line begins one function and
  that the head is what the detectors take it for.  `FoundInv` is what a scan found,
  with the graph or without, and the rest is windows: which writes come after a call
  (`WriteIsLater`), which checks of a lock or of the sender count (`LockChecked`,
  `GuardIsLine`).  The proof sharpened the property: a line reported for reentrancy
  is itself a write after a call in its function.
- **CallGraph** (`CallGraphAndSuppressionProofs`).  `FlagsAreSound` needs only that flags come
  from marks and from callees' flags.  For `MarkingIsExact`, a marked function
  has all its callees marked, or is on the stack with those before its position
  marked.  `FlagsLostOnlyInRecursion` adds that a finished function whose callee
  was open when it was read calls into a path of the stack and so is in
  recursion with it.  For `ComponentsAreRight`, `TarjanInv` ties index, lowlink,
  `nodeStack` and the frames together: the frames are a path of calls of rising
  index (`PathOfCalls`); an open node leads to all above it on `nodeStack`
  (`LeadsUp`), and all there leads to an open node not above it (`LeadsDown`), so
  that what a root takes off the stack is mutually recursive; a lowlink is the
  index of a node that is led to (`LowIsReached`), so that a node that is no root
  leads below itself and hands that on; and it is at most the index of every
  callee looked at from the nodes above (`EdgesRight`), so that what a root takes
  off calls nothing that is still open and is a whole class.  Since no node has
  two frames (`PathOfCalls`, `LostInv`, `DepthInv`), `TypesAndDepth` bounds every
  recursion by the number of functions.
- **CallGraphBuild** (`CallGraphAndSuppressionProofs`).  `BuildInv`: in pass 1 there are as many
  nodes as functions passed, and each of those has its identifier declared
  (`NodesInv`); in pass 2 every walked call that the builder is past has made what
  its form means, and every edge and mark there is has a walked call behind it
  (`EdgesInv`).  `Meant` and `Node` depend on the declarations only, which pass 2
  leaves alone, so what was made stays what was meant.  The searches then start on a
  typed graph, and their invariants hold as for any other (`SearchesInv`), which
  gives `SearchesOfBuildAreRight` for the graphs the program really makes.  For the
  matrix, `transitiveCalleesHelper` visits one node a call, so after as many calls
  as there are nodes none is open (`VisitsMade`), and what was visited is closed
  under calls and within every closed set: `TransitiveCallees` is what calls lead to.
  `BuildIsRight` puts these together.  It assumes of a unit that its functions have
  names exactly if their kind has one, and that `Nodes` has a number for each.
- **Suppression** (`CallGraphAndSuppressionProofs`).  After `lineNum` lines, `open[id]` is
  the last line that started a block of `id`, if no directive on `id` follows;
  `ranges` are exactly the pairs of a start and an end with nothing on the same
  id between them; `nextLine` is what the lines read say.  At the end this
  gives `DirectivesExact`.  `BeforeRight` carries over to the next scan that
  what was reported had no live ignore entry; entries that expired stay so
  because the clock only moves forward.
- **TaintSummaries** (`InterproceduralProofs`).  `SummariesInventNothing` needs
  that a parameter ends where those it is handed to end, and that a computed
  summary has an entry for each parameter.  `SinksLostOnlyInRecursion` needs the
  shape of the search, `SearchInv`: open functions are distinct and have no
  summary, each leads to those above it on the stack, and the callees a function
  has passed have a summary or are open.  So when a function is summarised, a
  callee without a summary is below it on the stack and leads to it; and a
  summary once made never changes (`LostInv`).
- **CrossContractGraph** (`InterproceduralProofs`).  `FlagsAreExact`: no flag
  is wrong at any time, because a node gets one from a callee that has the
  reason itself (`Sound`).  In a sweep that has changed nothing so far, a node
  already looked at has every flag its callees give it (`Swept`); so at rest the
  unflagged functions are closed under calls, and nothing below them is a
  reason.  The step needs that only nodes have callees, which holds because the
  first pass goes through all files before the second begins (`Added`).
- **CrossContractTaint** (`InterproceduralProofs`).  The reference makes its sets of
  paths one edge at a time; `WalksAre` and `ReturningAre` say what they hold of one
  path: a chain from a root, a path that comes back with its last call.  Nothing
  reported is made up, because the open calls are always such a path (`PathInv`,
  `OutInv`).  Nothing is missed, because what an open call is done with has been
  searched as deep as it is to be (`DeepInv`, `BehindInv`), and with its last edge
  the call itself is (`EndSearched`, `EndReported`); so every entry point has been
  searched, is being searched, or still waits (`StartsInv`, `CycleStarts`).  A flow
  keeps its own path's crossings because `append` writes only past the end of the
  longest open slice in the array, and a flow's array is no open slice's
  (`SlicesInv`, `AppendedRight`).  With the flags of the graph at rest, also for the
  unprotected calls, this is `ReportsAreExact`, for all projects and both depths.
- **TaintEngine** (`TaintEngineProofs`).  `WorklistIsExact`: every tainted symbol is
  in every closed set that has the sources, because it is a source or was
  derived in one step from a tainted one; and a tainted symbol that is neither in
  the worklist nor being served has passed its taint on to all that it taints.
  When the worklist is empty the two give the least fixpoint, whatever the
  relation between symbols and the order of service.
  `ChainsDerive` needs that every tainted symbol has a chain, that a chain is
  only ever extended by the symbol served (`Derivation`), and that all a search
  has met is in every closed set that has its symbol (`SearchWithin`).
- **SymbolTable** (`TaintEngineProofs`).  `TableInv` follows the walk of pass 2:
  it is in the contract's first function from the moment it meets one
  (`InFirst`), `called` tells whether a call was passed since (`CallsSeen`), and
  a write is among the uses, under that function's scope, exactly from when the
  walk passes it (`WritesRight`, `WritesKept`).  The reasons of
  `DetectionsExplained` follow, for units of every size.
- **Selections** (`OptionalStagesProofs`).  What the recursive functions `Kept` and
  `Joined` compute for every sequence: types, lengths, elements.  Induction is
  over sets instead of predicates (`NaturalInduction`, `SequenceInduction`), from
  the fact that a set of numbers that is not empty has a least element; that a
  recursive function satisfies its equation is proved by building its run step by
  step (`Iterated`), that it is the only one by induction (`SameRun`).
- **OptionalStages** (`OptionalStagesProofs`).  `ChainInv` is inductive for the
  on-chain stage.  `RateIsBounded` needs one bound for each window: tokens plus
  the requests since the `i`-th last tick are at most `Rps + i - 1` (`Rate`).
  `AnswersAreRight` needs that the requests lost so far are of earlier addresses
  or of this one's earlier calls (`LostBefore`), so that a later loss changes no
  earlier answer; that what was fetched is this contract's (`Fetched`); and that
  the answers are those of the addresses passed that gave their code (`Answered`).
  `StagesInv` adds `FormalInv`: the `k`-th answer is that of the target and the
  tool the two loops are at (`Turns`, a division with remainder), nothing is run
  before the selection (`Started`), the selection holds the most severe targets
  (`Chosen`, for which `ByPriorityOrder` shows that a priority is an interval of
  the sorted list), and the test file is there only while Echidna runs (`Clean`).
  With what a killed process leaves (`FoundRight`) this gives `ResultsAreRight`
  and `DirectoryStaysClean`.

- **ScanConfig** (`ScanConfigProofs`).  A file's meaning is defined by all its
  lines at once, and the parser has one at a time.  For each of those definitions a
  lemma says what a further line changes in it (`Tops`, `Headings`, `ListOfMore`,
  `OverrideOfMore`, `EntryListOfMore` and others): a heading moves the place, an
  item is appended to one list, a value goes to the last rule or entry.  So
  `LinesInv` is inductive: the configuration is what the lines read so far say, and
  the section, the list, the rule and the entry that are open are those of the last
  line, where they are used.  An override or an entry can be open only in the
  section's own run of lines (`OverrideOpen`, `EntryOpen`), and `subsection` need be
  right only within `detectors`.  At the end of the file this is
  `ConfigMeansItsLines`.  `FlagsInv` carries settings, files and findings from stage
  to stage for `DetectorsConfigured` and `ReportFollows`.  The proof showed that two
  issues which an override makes equal are one in the model's report, which is
  therefore stated as a set and not issue by issue; that `validate` refuses a rule
  without a name, which the model had left out; and that a list's heading may have a
  dash before it.

Model-checked only: liveness and the fairness part of `PromiseKept`, which are
beyond TLAPS here; and `FlowsRight` of `InterproceduralTaint`, `RegressionsExact` and
`OpinionsAgree` of `Inheritance`, whose reference definitions are recursive
operators.

## 8. What is not modelled

- The detectors that match patterns within a line (integer overflow, timestamps,
  randomness and others), which keep no state between lines
  and mean no more than their patterns; rules, reporters, traces and benchmarks:
  tables and formatting.
- In the modelled detectors: severities and confidence, files exempt by their
  path or by a well-known proxy's name, interfaces and libraries, `mint` and `burn`
  rules of access control, checks on the call's own line.
- The solc and vyper subprocesses and the decoding of their ASTs: the models
  start from what a walk sees, a call's form or a statement's kind.
- The multi-language analyzer's pool: it has the shape of `ScanPool`, but
  `AnalyzeFile` there ends at a detector's error.
- In the cache: the index, `Invalidate` and `ForceReanalyze`, which the program
  never uses, and statistics.  In baselines: `show`, notes and statistics.
- In suppression: the glob patterns of ignore entries, `FormatDirective`.
- In configuration: `Merge`, and options that change no result.
- In the call graph: `PathFinder` and `TransitiveCallers`, which nothing calls.
- In interprocedural taint: the fields of a summary that nothing reads
  (`AlwaysSinks`, `StateWriteByParam`, `PropagatesTo` and others), and the
  order and the multiplicity of flows.
- In intraprocedural taint: the sanitizer database's patterns; a sanitizer is a
  statement that names the symbol.
- In the inter-contract pipeline: the loader and its fallback parser; the oracle
  detector, a list of function names; the delegatecall detector, which looks for
  edges that `Build` never makes; severities; the multiplicity and order of findings.
- In the inheritance graph: the text patterns that classify a modifier's body,
  severities, the queries no part of the program calls.
- In the path tracker: `branch.go`, which only tests reach.
- In the on-chain stage: opcodes, HTTP, the exploit database's contents.  In the
  formal stage: the text of properties, scripts and counterexamples.
