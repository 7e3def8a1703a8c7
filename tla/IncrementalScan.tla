--------------------------- MODULE IncrementalScan ---------------------------
(***************************************************************************)
(* Incremental scans over the persistent result cache: Get, Set and Clear  *)
(* of internal/cache/cache.go, ScanDirectory, ScanFile and                 *)
(* selectFilesForAnalysis of internal/cache/incremental.go, and the git    *)
(* answers of internal/cache/git.go.                                       *)
(*                                                                         *)
(* Several solsec processes (sessions) share one cache directory, as an    *)
(* editor and a CI job on one machine do, and may run different versions   *)
(* of the tool.  A source file is its content, which stands for its hash.  *)
(* A cached finding list is what it was computed from: the content that    *)
(* was analysed, and the tool version of that scan.  The options a scan    *)
(* looks for findings with (--min-severity, --detectors) are left out:     *)
(* an entry does not hold them.                                            *)
(*                                                                         *)
(* Around the sessions, files are written, deleted and committed, entries  *)
(* age or are damaged, the cache is cleared, and sessions are killed: each *)
(* of these uses up one of MaxEvents.                                      *)
(***************************************************************************)
EXTENDS Naturals, FiniteSets

CONSTANTS
  Files, Contents, Sessions,
  Tools,            \* the tool versions in use
  Strategies,       \* the git options in use: see GitAnswer
  EditsDuringScan,  \* may a source file be written while a session runs?
  MaxScans,         \* bound on the scans started
  MaxEvents,        \* bound on the events around them
  Gone, NoEntry, Corrupt, Expired, NotRead, Unreadable, NoGit, NoTmp, LostTmp

Entries == [hash : Contents, content : Contents, tool : Tools]

ASSUME SentinelAssumption ==
  /\ Gone \notin Contents
  /\ NotRead \notin Contents /\ Unreadable \notin Contents
  /\ NotRead # Unreadable
  /\ {NoEntry, Corrupt, Expired} \cap Entries = {}

ASSUME OptionsAssumption == Tools # {} /\ Strategies # {}

ASSUME BoundsAssumption == MaxScans \in Nat /\ MaxEvents \in Nat

\* --verbose changes nothing but messages, except when git fails.
Options == {o \in [git : Strategies, verbose : BOOLEAN, tool : Tools] :
              o.verbose => o.git = "badref"}
NoOptions == CHOOSE o \in Options : TRUE

VARIABLES
  disk,       \* the content of each source file, or Gone
  committed,  \* its content in the commit git compares with, or Gone
  entry,      \* the cache entry under its path: none, damaged, expired or valid
  pc,         \* where each session stands
  opts,       \* its options
  collected,  \* the files collectSmartContractFiles found
  todo,       \* those selectFilesForAnalysis has not looked at yet
  changed,    \* changedFiles: NoGit stands for a nil map
  toAnalyze,  \* the files it will analyse
  hits,       \* the entries it reuses
  skipped,    \* the files it leaves out
  fresh,      \* the content each file had when AnalyzeFile read it
  toStore,    \* results not yet handed to Set
  tmp,        \* the temporary file Set has written and not yet renamed
  scans, events

world    == <<disk, committed>>
selVars  == <<collected, todo, changed, toAnalyze, hits, skipped>>
bounds   == <<scans, events>>
vars == <<disk, committed, entry, pc, opts, collected, todo, changed, toAnalyze,
          hits, skipped, fresh, toStore, tmp, scans, events>>

TypeOK ==
  /\ disk \in [Files -> Contents \cup {Gone}]
  /\ committed \in [Files -> Contents \cup {Gone}]
  /\ entry \in [Files -> Entries \cup {NoEntry, Corrupt, Expired}]
  /\ pc \in [Sessions -> {"idle", "git", "select", "analyze", "store", "report"}]
  /\ opts \in [Sessions -> Options]
  /\ collected \in [Sessions -> SUBSET Files]
  /\ todo \in [Sessions -> SUBSET Files]
  /\ changed \in [Sessions -> (SUBSET Files) \cup {NoGit}]
  /\ toAnalyze \in [Sessions -> SUBSET Files]
  /\ hits \in [Sessions -> [Files -> Entries \cup {NoEntry}]]
  /\ skipped \in [Sessions -> SUBSET Files]
  /\ fresh \in [Sessions -> [Files -> Contents \cup {NotRead, Unreadable}]]
  /\ toStore \in [Sessions -> SUBSET Files]
  /\ tmp \in [Sessions -> [file : Files, entry : Entries] \cup {NoTmp, LostTmp}]
  /\ scans \in 0..MaxScans
  /\ events \in 0..MaxEvents

NoHits    == [f \in Files |-> NoEntry]
NoneRead  == [f \in Files |-> NotRead]
Idle(s)   == pc[s] = "idle"
Present   == {f \in Files : disk[f] # Gone}

Init ==
  /\ disk \in [Files -> Contents]
  /\ committed \in {disk, [f \in Files |-> Gone]}
  /\ entry = [f \in Files |-> NoEntry]
  /\ pc = [s \in Sessions |-> "idle"]
  /\ opts = [s \in Sessions |-> NoOptions]
  /\ collected = [s \in Sessions |-> {}]
  /\ todo = [s \in Sessions |-> {}]
  /\ changed = [s \in Sessions |-> NoGit]
  /\ toAnalyze = [s \in Sessions |-> {}]
  /\ hits = [s \in Sessions |-> NoHits]
  /\ skipped = [s \in Sessions |-> {}]
  /\ fresh = [s \in Sessions |-> NoneRead]
  /\ toStore = [s \in Sessions |-> {}]
  /\ tmp = [s \in Sessions |-> NoTmp]
  /\ scans = 0
  /\ events = 0

-----------------------------------------------------------------------------
(* What git says.  The default strategy joins the staged, the unstaged and *)
(* the untracked files; a --git-ref compares tracked files only.           *)

Uncommitted == {f \in Present : disk[f] # committed[f]}
Untracked   == {f \in Present : committed[f] = Gone}

\* A slip: forgetting `git ls-files --others`.
ChangedTrackedOnly(strategy) == Uncommitted \ Untracked

ChangedFiles(strategy) ==
  IF strategy = "ref" THEN Uncommitted \ Untracked ELSE Uncommitted

\* changedFiles of selectFilesForAnalysis.  The map stays nil without
\* --git-diff or outside a repository; when git fails ("badref", say) it stays
\* nil only under --verbose, and otherwise is made from the empty list.
GitAnswer(o) ==
  CASE o.git = "off"    -> NoGit
    [] o.git = "badref" -> IF o.verbose THEN NoGit ELSE {}
    [] OTHER            -> ChangedFiles(o.git)

-----------------------------------------------------------------------------
(* cache.go *)

\* Two slips in Get: not comparing the content, and not comparing the version.
ValidForTool(f, tool) ==
  disk[f] # Gone /\ entry[f] \in Entries /\ entry[f].tool = tool
ValidForContent(f, tool) ==
  disk[f] # Gone /\ entry[f] \in Entries /\ entry[f].hash = disk[f]

\* Get finds a usable entry: readable, written for the content the file has
\* now and by this version of the tool, and no older than maxAge.
Valid(f, tool) ==
  /\ disk[f] # Gone
  /\ entry[f] \in Entries
  /\ entry[f].hash = disk[f]
  /\ entry[f].tool = tool

\* Get removes an entry it cannot decode, once it has hashed the file.
AfterGet(f) ==
  IF disk[f] # Gone /\ entry[f] = Corrupt
  THEN [entry EXCEPT ![f] = NoEntry] ELSE entry

\* A slip: stamping the entry with the hash of the committed file.
StampedCommitted(s, f) ==
  [hash |-> committed[f], content |-> fresh[s][f], tool |-> opts[s].tool]

\* The entry Set writes: stamped with the hash the file has at that moment.
Stamped(s, f) ==
  [hash |-> disk[f], content |-> fresh[s][f], tool |-> opts[s].tool]

-----------------------------------------------------------------------------
(* selectFilesForAnalysis *)

Begin(s, o, files, next) ==
  /\ Idle(s)
  /\ scans < MaxScans
  /\ scans' = scans + 1
  /\ pc' = [pc EXCEPT ![s] = next]
  /\ opts' = [opts EXCEPT ![s] = o]
  /\ collected' = [collected EXCEPT ![s] = files]
  /\ todo' = [todo EXCEPT ![s] = files]
  /\ UNCHANGED <<world, entry, changed, toAnalyze, hits, skipped, fresh, toStore,
                 tmp, events>>

\* ScanDirectory collects the files, then asks git once.
ScanDirectory(s, o) == Begin(s, o, Present, "git")

\* ScanFile looks at one path and never asks git.
ScanFile(s, o, f) == disk[f] # Gone /\ Begin(s, o, {f}, "select")

AskGit(s) ==
  /\ pc[s] = "git"
  /\ changed' = [changed EXCEPT ![s] = GitAnswer(opts[s])]
  /\ pc' = [pc EXCEPT ![s] = "select"]
  /\ UNCHANGED <<world, entry, opts, collected, todo, toAnalyze, hits, skipped,
                 fresh, toStore, tmp, bounds>>

Looked(s, f) ==
  /\ pc[s] = "select"
  /\ f \in todo[s]
  /\ todo' = [todo EXCEPT ![s] = @ \ {f}]
  /\ UNCHANGED <<world, pc, opts, collected, changed, fresh, toStore, tmp, bounds>>

\* git says the file changed: the cache is not consulted
SelectChanged(s, f) ==
  /\ changed[s] # NoGit /\ f \in changed[s]
  /\ Looked(s, f)
  /\ toAnalyze' = [toAnalyze EXCEPT ![s] = @ \cup {f}]
  /\ UNCHANGED <<entry, hits, skipped>>

Consulted(s, f) == IF changed[s] = NoGit THEN TRUE ELSE f \notin changed[s]

SelectHit(s, f) ==
  /\ Consulted(s, f)
  /\ Valid(f, opts[s].tool)
  /\ Looked(s, f)
  /\ hits' = [hits EXCEPT ![s][f] = entry[f]]
  /\ UNCHANGED <<entry, toAnalyze, skipped>>

SelectMiss(s, f) ==
  /\ changed[s] = NoGit
  /\ ~Valid(f, opts[s].tool)
  /\ Looked(s, f)
  /\ toAnalyze' = [toAnalyze EXCEPT ![s] = @ \cup {f}]
  /\ entry' = AfterGet(f)
  /\ UNCHANGED <<hits, skipped>>

\* git says unchanged and nothing is cached: skipped++
Skip(s, f) ==
  /\ changed[s] # NoGit /\ f \notin changed[s]
  /\ ~Valid(f, opts[s].tool)
  /\ Looked(s, f)
  /\ skipped' = [skipped EXCEPT ![s] = @ \cup {f}]
  /\ entry' = AfterGet(f)
  /\ UNCHANGED <<toAnalyze, hits>>

SelectDone(s) ==
  /\ pc[s] = "select"
  /\ todo[s] = {}
  /\ pc' = [pc EXCEPT ![s] = "analyze"]
  /\ UNCHANGED <<world, entry, opts, selVars, fresh, toStore, tmp, bounds>>

-----------------------------------------------------------------------------
(* analyzeFiles: the pool of module ScanPool, reading the files in any     *)
(* order; then the results are handed to Set one after the other.          *)

Analyze(s, f) ==
  /\ pc[s] = "analyze"
  /\ f \in toAnalyze[s]
  /\ fresh[s][f] = NotRead
  /\ fresh' = [fresh EXCEPT ![s][f] = IF disk[f] = Gone THEN Unreadable ELSE disk[f]]
  /\ UNCHANGED <<world, entry, pc, opts, selVars, toStore, tmp, bounds>>

AnalyzeDone(s) ==
  /\ pc[s] = "analyze"
  /\ \A f \in toAnalyze[s] : fresh[s][f] # NotRead
  /\ pc' = [pc EXCEPT ![s] = "store"]
  /\ toStore' = [toStore EXCEPT ![s] = {f \in toAnalyze[s] : fresh[s][f] # Unreadable}]
  /\ UNCHANGED <<world, entry, opts, selVars, fresh, tmp, bounds>>

\* Set hashes the file again and writes a temporary file; it gives up when
\* the file cannot be hashed any more.
WriteTemp(s, f) ==
  /\ pc[s] = "store"
  /\ f \in toStore[s]
  /\ tmp[s] = NoTmp
  /\ toStore' = [toStore EXCEPT ![s] = @ \ {f}]
  /\ tmp' = [tmp EXCEPT ![s] =
               IF disk[f] = Gone THEN NoTmp ELSE [file |-> f, entry |-> Stamped(s, f)]]
  /\ UNCHANGED <<world, entry, pc, opts, selVars, fresh, bounds>>

\* os.Rename makes it the entry, in one step
Rename(s) ==
  /\ pc[s] = "store"
  /\ tmp[s] # NoTmp
  /\ entry' = IF tmp[s] = LostTmp THEN entry
              ELSE [entry EXCEPT ![tmp[s].file] = tmp[s].entry]
  /\ tmp' = [tmp EXCEPT ![s] = NoTmp]
  /\ UNCHANGED <<world, pc, opts, selVars, fresh, toStore, bounds>>

StoreDone(s) ==
  /\ pc[s] = "store"
  /\ toStore[s] = {}
  /\ tmp[s] = NoTmp
  /\ pc' = [pc EXCEPT ![s] = "report"]
  /\ UNCHANGED <<world, entry, opts, selVars, fresh, toStore, tmp, bounds>>

\* The session ends and its memory goes with it.
Forget(s) ==
  /\ pc' = [pc EXCEPT ![s] = "idle"]
  /\ opts' = [opts EXCEPT ![s] = NoOptions]
  /\ collected' = [collected EXCEPT ![s] = {}]
  /\ todo' = [todo EXCEPT ![s] = {}]
  /\ changed' = [changed EXCEPT ![s] = NoGit]
  /\ toAnalyze' = [toAnalyze EXCEPT ![s] = {}]
  /\ hits' = [hits EXCEPT ![s] = NoHits]
  /\ skipped' = [skipped EXCEPT ![s] = {}]
  /\ fresh' = [fresh EXCEPT ![s] = NoneRead]
  /\ toStore' = [toStore EXCEPT ![s] = {}]
  /\ tmp' = [tmp EXCEPT ![s] = NoTmp]
  /\ UNCHANGED <<world, entry, scans>>

Report(s) == pc[s] = "report" /\ Forget(s) /\ UNCHANGED events

SessionStep(s) ==
  \/ \E o \in Options : ScanDirectory(s, o)
  \/ \E o \in Options, f \in Files : ScanFile(s, o, f)
  \/ \E f \in Files : \/ SelectChanged(s, f) \/ SelectHit(s, f) \/ SelectMiss(s, f)
                      \/ Skip(s, f) \/ Analyze(s, f) \/ WriteTemp(s, f)
  \/ AskGit(s) \/ SelectDone(s) \/ AnalyzeDone(s) \/ Rename(s) \/ StoreDone(s) \/ Report(s)

-----------------------------------------------------------------------------
(* What happens around the sessions. *)

Event == events < MaxEvents /\ events' = events + 1

sessionVars == <<pc, opts, selVars, fresh, toStore, scans>>

\* Files are written in an editor or by a checkout.
Write(f, c) ==
  /\ Event
  /\ EditsDuringScan \/ \A s \in Sessions : Idle(s)
  /\ disk[f] # c
  /\ disk' = [disk EXCEPT ![f] = c]
  /\ UNCHANGED <<committed, entry, sessionVars, tmp>>

Delete(f) ==
  /\ Event
  /\ disk[f] # Gone
  /\ disk' = [disk EXCEPT ![f] = Gone]
  /\ UNCHANGED <<committed, entry, sessionVars, tmp>>

Commit ==
  /\ Event
  /\ committed # disk
  /\ committed' = disk
  /\ UNCHANGED <<disk, entry, sessionVars, tmp>>

\* The entry grows older than maxAge: Get never returns it again.
Age(f) ==
  /\ Event
  /\ entry[f] \in Entries
  /\ entry' = [entry EXCEPT ![f] = Expired]
  /\ UNCHANGED <<world, sessionVars, tmp>>

\* The entry's file is damaged from outside.
Damage(f) ==
  /\ Event
  /\ entry[f] \in Entries
  /\ entry' = [entry EXCEPT ![f] = Corrupt]
  /\ UNCHANGED <<world, sessionVars, tmp>>

\* Another process clears the cache: the temporary files go too, and a rename
\* that was about to happen fails.
Clear ==
  /\ Event
  /\ entry' = [f \in Files |-> NoEntry]
  /\ tmp' = [s \in Sessions |-> IF tmp[s] = NoTmp THEN NoTmp ELSE LostTmp]
  /\ UNCHANGED <<world, sessionVars>>

\* A session is killed: its temporary file stays behind under a name nobody
\* reads.
Crash(s) ==
  /\ Event
  /\ ~Idle(s)
  /\ Forget(s)

Environment ==
  \/ \E f \in Files : \/ \E c \in Contents : Write(f, c)
                      \/ Delete(f) \/ Age(f) \/ Damage(f)
  \/ Commit \/ Clear
  \/ \E s \in Sessions : Crash(s)

\* Every scan the bounds allow is over.
Exhausted == (\A s \in Sessions : Idle(s)) /\ scans = MaxScans /\ UNCHANGED vars

Next == Environment \/ (\E s \in Sessions : SessionStep(s)) \/ Exhausted

Spec == Init /\ [][Next]_vars

-----------------------------------------------------------------------------
(* Properties. *)

Reporting(s) == pc[s] = "report"

\* An entry's findings were computed from the content its hash stands for
\* (cache.go: "path reuse cannot return stale findings after the source
\* changes", "callers cannot accidentally cache stale hashes").  Set hashes
\* the file after the analysis, so this needs the sources to be left alone
\* while a session runs.
EntriesMatchHash ==
  \A f \in Files : entry[f] \in Entries => entry[f].content = entry[f].hash

\* Whatever a report says of a file that is still there, it says of the content
\* the file has: crashes, damage, clearing, other sessions and other tool
\* versions never put old findings into it.
ReportIsCurrent ==
  \A s \in Sessions : Reporting(s) =>
    \A f \in Present :
      /\ f \in toAnalyze[s] /\ fresh[s][f] # Unreadable => fresh[s][f] = disk[f]
      /\ hits[s][f] # NoEntry => hits[s][f].content = disk[f]

\* A session only reports findings computed by its own version of the tool,
\* even while another version writes to the same cache.
ReportIsFromThisTool ==
  \A s \in Sessions : \A f \in Files :
    hits[s][f] # NoEntry => hits[s][f].tool = opts[s].tool

\* Every collected file is accounted for once in the report's counters, as
\* analysed, reused or skipped, and only a git-diff scan skips.
ReportCoversFiles ==
  \A s \in Sessions : Reporting(s) =>
    LET reused == {f \in Files : hits[s][f] # NoEntry} IN
    /\ collected[s] = toAnalyze[s] \cup reused \cup skipped[s]
    /\ toAnalyze[s] \cap reused = {}
    /\ skipped[s] \cap (toAnalyze[s] \cup reused) = {}
    /\ skipped[s] # {} => opts[s].git # "off"

\* A report accounts for every file once, with findings of its own tool version only.
ReportAccounts == ReportIsFromThisTool /\ ReportCoversFiles

\* A git-diff scan with the default strategy skips no file that differs from
\* the commit, staged, unstaged or untracked.
GitDefaultMissesNothing ==
  \A s \in Sessions : Reporting(s) /\ opts[s].git = "default" =>
    \A f \in skipped[s] : disk[f] \in {committed[f], Gone}

=============================================================================
