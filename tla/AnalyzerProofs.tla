--------------------------- MODULE AnalyzerProofs ---------------------------
(***************************************************************************)
(* Proofs about the two scans of the package internal/analyzer: the        *)
(* incremental scans of IncrementalScan and the parallel scan of ScanPool. *)
(* The two modules share no variable; each has a specification of its own. *)
(***************************************************************************)
EXTENDS IncrementalScan, ScanPool, TLAPS, FiniteSetTheorems

(***************************************************************************)
(* Incremental scans, for any number of files, contents, sessions, tool    *)
(* versions, scans and events around them.  A session reports findings of  *)
(* its own tool version and accounts for every file it collected; and if   *)
(* nobody writes a source file while a session runs, cache entries are     *)
(* true to their hash and reports are current.                             *)
(*                                                                         *)
(* The last two need the invariant Faithful: what a session has read, has  *)
(* taken from the cache or is about to store is what the disk holds, if    *)
(* the file is still there.                                                *)
(***************************************************************************)
\* A session that does not run holds nothing.
Blank(s) ==
  /\ collected[s] = {} /\ todo[s] = {} /\ toAnalyze[s] = {} /\ skipped[s] = {}
  /\ changed[s] = NoGit
  /\ hits[s] = NoHits
  /\ fresh[s] = NoneRead
  /\ toStore[s] = {}
  /\ tmp[s] = NoTmp

IdleBlank == \A s \in Sessions : Idle(s) => Blank(s)

\* What a session has still to store, it has read.
StoredRead == \A s \in Sessions : \A f \in toStore[s] : fresh[s][f] \in Contents

Memory == TypeOK /\ IdleBlank /\ StoredRead

-----------------------------------------------------------------------------
(* The steps *)

\* A session's own step, but for its end
OwnStep(s) ==
  \/ \E o \in Options : ScanDirectory(s, o)
  \/ \E o \in Options, f \in Files : ScanFile(s, o, f)
  \/ \E f \in Files : \/ SelectChanged(s, f) \/ SelectHit(s, f) \/ SelectMiss(s, f)
                      \/ Skip(s, f) \/ Analyze(s, f) \/ WriteTemp(s, f)
  \/ AskGit(s) \/ SelectDone(s) \/ AnalyzeDone(s) \/ Rename(s) \/ StoreDone(s)

WorldStep ==
  \/ \E f \in Files, c \in Contents : Write(f, c)
  \/ \E f \in Files : Delete(f) \/ Age(f) \/ Damage(f)
  \/ Commit \/ Clear \/ UNCHANGED vars

\* The end of a session, by itself or by a kill
Ending(s) == Forget(s) /\ (events' = events \/ Event)

\* What another session's step, or the world's, does to a session: nothing, but
\* that a Clear takes its temporary file away.
Untouched(t) ==
  /\ pc'[t] = pc[t] /\ opts'[t] = opts[t] /\ collected'[t] = collected[t]
  /\ todo'[t] = todo[t] /\ changed'[t] = changed[t] /\ toAnalyze'[t] = toAnalyze[t]
  /\ hits'[t] = hits[t] /\ skipped'[t] = skipped[t]
  /\ fresh'[t] = fresh[t] /\ toStore'[t] = toStore[t]
  /\ tmp'[t] = tmp[t] \/ (tmp[t] # NoTmp /\ tmp'[t] = LostTmp)

LEMMA StepCases ==
  ASSUME [Next]_vars
  PROVE  (\E s \in Sessions : OwnStep(s) \/ Ending(s)) \/ WorldStep
<1>1. ASSUME NEW s \in Sessions, SessionStep(s)
      PROVE  OwnStep(s) \/ Ending(s)
  BY <1>1 DEF SessionStep, OwnStep, Report, Ending
<1>2. ASSUME NEW s \in Sessions, Crash(s)
      PROVE  Ending(s)
  BY <1>2 DEF Crash, Ending
<1>3. CASE Environment
  BY <1>2, <1>3, Zenon DEF Environment, WorldStep
<1> QED
  BY <1>1, <1>3, Zenon DEF Next, WorldStep, Exhausted

-----------------------------------------------------------------------------
(* Types *)

LEMMA InitTyped == Init => TypeOK
<1> SUFFICES ASSUME Init
             PROVE  TypeOK
  OBVIOUS
<1>1. NoOptions \in Options
  <2>1. PICK g \in Strategies, t \in Tools : TRUE
    BY OptionsAssumption
  <2>2. [git |-> g, verbose |-> FALSE, tool |-> t] \in Options
    BY DEF Options
  <2> QED
    BY <2>2 DEF NoOptions
<1>2. committed \in [Files -> Contents \cup {Gone}] /\ disk \in [Files -> Contents \cup {Gone}]
  BY DEF Init
<1> QED
  BY <1>1, <1>2, BoundsAssumption DEF Init, TypeOK, NoHits, NoneRead

LEMMA ForgetTyped ==
  ASSUME TypeOK, NEW s \in Sessions, Forget(s), events' \in 0..MaxEvents
  PROVE  TypeOK'
<1>1. NoOptions \in Options
  BY DEF TypeOK, NoOptions
<1> QED
  BY <1>1 DEF TypeOK, Forget, world, NoHits, NoneRead

LEMMA BeginTyped ==
  ASSUME TypeOK, NEW s \in Sessions, NEW o \in Options, NEW files \in SUBSET Files,
         NEW next \in {"git", "select"}, Begin(s, o, files, next)
  PROVE  TypeOK'
BY BoundsAssumption DEF TypeOK, Begin, world

LEMMA SelectTyped ==
  ASSUME TypeOK, NEW s \in Sessions, NEW f \in Files,
         \/ SelectChanged(s, f) \/ SelectHit(s, f) \/ SelectMiss(s, f) \/ Skip(s, f)
  PROVE  TypeOK'
<1> USE DEF Looked, world, bounds
<1>1. AfterGet(f) \in [Files -> Entries \cup {NoEntry, Corrupt, Expired}]
  BY DEF TypeOK, AfterGet
<1>2. Looked(s, f) /\ UNCHANGED <<disk, committed, pc, opts, collected, changed, fresh, toStore, tmp, scans, events>>
  BY DEF SelectChanged, SelectHit, SelectMiss, Skip
<1>3. todo' \in [Sessions -> SUBSET Files]
  BY <1>2 DEF TypeOK
<1>4. entry' \in [Files -> Entries \cup {NoEntry, Corrupt, Expired}]
  BY <1>1 DEF TypeOK, SelectChanged, SelectHit, SelectMiss, Skip
<1>5. toAnalyze' \in [Sessions -> SUBSET Files] /\ skipped' \in [Sessions -> SUBSET Files]
  <2>1. CASE SelectChanged(s, f)
    BY <2>1 DEF TypeOK, SelectChanged
  <2>2. CASE SelectHit(s, f)
    BY <2>2 DEF TypeOK, SelectHit
  <2>3. CASE SelectMiss(s, f)
    BY <2>3 DEF TypeOK, SelectMiss
  <2>4. CASE Skip(s, f)
    BY <2>4 DEF TypeOK, Skip
  <2> QED
    BY <2>1, <2>2, <2>3, <2>4
<1>6. hits' \in [Sessions -> [Files -> Entries \cup {NoEntry}]]
  <2>1. CASE SelectHit(s, f)
    <3>1. entry[f] \in Entries /\ hits' = [hits EXCEPT ![s] = [hits[s] EXCEPT ![f] = entry[f]]]
      BY <2>1 DEF SelectHit, Valid
    <3> QED
      BY <3>1 DEF TypeOK
  <2>2. CASE hits' = hits
    BY <2>2 DEF TypeOK
  <2> QED
    BY <2>1, <2>2 DEF SelectChanged, SelectMiss, Skip
<1> QED
  BY <1>2, <1>3, <1>4, <1>5, <1>6 DEF TypeOK

\* Set makes an entry of the disk's content, if there is one.
LEMMA StampedTyped ==
  ASSUME TypeOK, NEW s \in Sessions, NEW f \in Files, disk[f] # Gone, fresh[s][f] \in Contents
  PROVE  Stamped(s, f) \in Entries
<1>1. disk[f] \in Contents /\ opts[s] \in Options
  BY DEF TypeOK
<1>2. opts[s].tool \in Tools
  BY <1>1 DEF Options
<1> QED
  BY <1>1, <1>2 DEF Stamped, Entries

LEMMA WriteTempTyped ==
  ASSUME TypeOK, StoredRead, NEW s \in Sessions, NEW f \in Files, WriteTemp(s, f)
  PROVE  TypeOK'
<1> DEFINE t == IF disk[f] = Gone THEN NoTmp ELSE [file |-> f, entry |-> Stamped(s, f)]
<1>1. t \in [file : Files, entry : Entries] \cup {NoTmp, LostTmp}
  BY StampedTyped DEF WriteTemp, StoredRead
<1>2. /\ tmp' = [tmp EXCEPT ![s] = t]
      /\ toStore' = [toStore EXCEPT ![s] = toStore[s] \ {f}]
      /\ UNCHANGED <<disk, committed, entry, pc, opts, collected, todo, changed,
                     toAnalyze, hits, skipped, fresh, scans, events>>
  BY DEF WriteTemp, world, selVars, bounds
<1> HIDE DEF t
<1> QED
  BY <1>1, <1>2 DEF TypeOK

LEMMA RenameTyped ==
  ASSUME TypeOK, NEW s \in Sessions, Rename(s)
  PROVE  TypeOK'
<1>1. entry' \in [Files -> Entries \cup {NoEntry, Corrupt, Expired}]
  <2>1. CASE tmp[s] = LostTmp
    BY <2>1 DEF TypeOK, Rename
  <2>2. CASE tmp[s] # LostTmp
    <3>1. tmp[s] \in [file : Files, entry : Entries]
      BY <2>2 DEF TypeOK, Rename
    <3>2. entry' = [entry EXCEPT ![tmp[s].file] = tmp[s].entry]
      BY <2>2 DEF Rename
    <3> QED
      BY <3>1, <3>2 DEF TypeOK
  <2> QED
    BY <2>1, <2>2
<1>2. /\ tmp' = [tmp EXCEPT ![s] = NoTmp]
      /\ UNCHANGED <<disk, committed, pc, opts, collected, todo, changed,
                     toAnalyze, hits, skipped, fresh, toStore, scans, events>>
  BY DEF Rename, world, selVars, bounds
<1> QED
  BY <1>1, <1>2 DEF TypeOK

LEMMA GitTyped ==
  ASSUME TypeOK, NEW s \in Sessions
  PROVE  GitAnswer(opts[s]) \in (SUBSET Files) \cup {NoGit}
<1>1. ChangedFiles(opts[s].git) \in SUBSET Files
  BY DEF ChangedFiles, Uncommitted, Untracked, Present
<1> QED
  BY <1>1 DEF GitAnswer

LEMMA EventTyped ==
  ASSUME TypeOK, events' = events \/ Event
  PROVE  events' \in 0..MaxEvents
BY BoundsAssumption DEF TypeOK, Event

LEMMA NextTyped == TypeOK /\ StoredRead /\ [Next]_vars => TypeOK'
<1> SUFFICES ASSUME TypeOK, StoredRead, [Next]_vars
             PROVE  TypeOK'
  OBVIOUS
<1> USE DEF world, bounds, selVars, sessionVars
<1>1. ASSUME NEW s \in Sessions, NEW o \in Options, ScanDirectory(s, o)
      PROVE  TypeOK'
  BY <1>1, BeginTyped DEF ScanDirectory, Present
<1>2. ASSUME NEW s \in Sessions, NEW o \in Options, NEW f \in Files, ScanFile(s, o, f)
      PROVE  TypeOK'
  BY <1>2, BeginTyped DEF ScanFile
<1>3. ASSUME NEW s \in Sessions, NEW f \in Files, Analyze(s, f)
      PROVE  TypeOK'
  <2>1. disk[f] # Gone => disk[f] \in Contents
    BY DEF TypeOK
  <2>2. fresh' = [fresh EXCEPT ![s] = [fresh[s] EXCEPT
                    ![f] = IF disk[f] = Gone THEN Unreadable ELSE disk[f]]]
    BY <1>3 DEF Analyze
  <2>3. fresh' \in [Sessions -> [Files -> Contents \cup {NotRead, Unreadable}]]
    BY <2>1, <2>2 DEF TypeOK
  <2> QED
    BY <1>3, <2>3 DEF Analyze, TypeOK
<1>4. ASSUME NEW s \in Sessions, AskGit(s)
      PROVE  TypeOK'
  BY <1>4, GitTyped DEF AskGit, TypeOK
<1>5. ASSUME NEW s \in Sessions, SelectDone(s) \/ StoreDone(s)
      PROVE  TypeOK'
  BY <1>5 DEF SelectDone, StoreDone, TypeOK
<1>6. ASSUME NEW s \in Sessions, AnalyzeDone(s)
      PROVE  TypeOK'
  <2>1. {f \in toAnalyze[s] : fresh[s][f] # Unreadable} \in SUBSET Files
    BY DEF TypeOK
  <2> QED
    BY <1>6, <2>1 DEF AnalyzeDone, TypeOK
<1>7. ASSUME NEW f \in Files, NEW c \in Contents, Write(f, c)
      PROVE  TypeOK'
  BY <1>7, EventTyped DEF Write, TypeOK
<1>8. ASSUME NEW f \in Files, Delete(f) \/ Age(f) \/ Damage(f)
      PROVE  TypeOK'
  BY <1>8, EventTyped DEF Delete, Age, Damage, TypeOK
<1>9. CASE Commit
  BY <1>9, EventTyped DEF Commit, TypeOK
<1>10. CASE Clear
  <2>1. tmp' \in [Sessions -> [file : Files, entry : Entries] \cup {NoTmp, LostTmp}]
    BY <1>10 DEF Clear
  <2> QED
    BY <1>10, <2>1, EventTyped DEF Clear, TypeOK
<1>11. CASE UNCHANGED vars
  BY <1>11 DEF vars, TypeOK
<1>12. ASSUME NEW s \in Sessions, Ending(s)
       PROVE  TypeOK'
  BY <1>12, ForgetTyped, EventTyped DEF Ending
<1> QED
  BY <1>1, <1>2, <1>3, <1>4, <1>5, <1>6, <1>7, <1>8, <1>9, <1>10, <1>11, <1>12,
     StepCases, SelectTyped, WriteTempTyped, RenameTyped DEF OwnStep, WorldStep

-----------------------------------------------------------------------------
(* What a session's memory holds *)

\* What each step does to the sessions but for the one that takes it.
LEMMA OthersFixed ==
  ASSUME TypeOK, NEW s \in Sessions, NEW t \in Sessions, t # s,
         OwnStep(s) \/ Forget(s)
  PROVE  Untouched(t)
<1> USE DEF world, bounds, selVars, TypeOK, Untouched
<1>1. CASE \E o \in Options : ScanDirectory(s, o)
  BY <1>1 DEF ScanDirectory, Begin
<1>2. CASE \E o \in Options, f \in Files : ScanFile(s, o, f)
  BY <1>2 DEF ScanFile, Begin
<1>3. CASE \E f \in Files : SelectChanged(s, f)
  BY <1>3 DEF SelectChanged, Looked
<1>4. CASE \E f \in Files : SelectHit(s, f)
  BY <1>4 DEF SelectHit, Looked
<1>5. CASE \E f \in Files : SelectMiss(s, f)
  BY <1>5 DEF SelectMiss, Looked
<1>6. CASE \E f \in Files : Skip(s, f)
  BY <1>6 DEF Skip, Looked
<1>7. CASE \E f \in Files : Analyze(s, f)
  BY <1>7 DEF Analyze
<1>8. CASE \E f \in Files : WriteTemp(s, f)
  BY <1>8 DEF WriteTemp
<1>9. CASE AskGit(s)
  BY <1>9 DEF AskGit
<1>10. CASE SelectDone(s) \/ StoreDone(s)
  BY <1>10 DEF SelectDone, StoreDone
<1>11. CASE AnalyzeDone(s)
  BY <1>11 DEF AnalyzeDone
<1>12. CASE Rename(s)
  BY <1>12 DEF Rename
<1>13. CASE Forget(s)
  BY <1>13 DEF Forget
<1> QED
  BY <1>1, <1>2, <1>3, <1>4, <1>5, <1>6, <1>7, <1>8, <1>9, <1>10, <1>11, <1>12, <1>13
     DEF OwnStep

\* What happens around the sessions leaves their memory alone, but for the
\* temporary files a Clear takes away.
LEMMA WorldSteps ==
  ASSUME TypeOK, NEW t \in Sessions, WorldStep
  PROVE  Untouched(t)
<1> USE DEF Untouched
<1>1. UNCHANGED <<pc, opts, collected, todo, changed, toAnalyze, hits, skipped, fresh,
                  toStore>>
  BY DEF WorldStep, Write, Delete, Age, Damage, Commit, Clear, vars, sessionVars, selVars
<1>2. CASE Clear
  BY <1>1, <1>2 DEF Clear
<1>3. CASE ~Clear
  BY <1>1, <1>3 DEF WorldStep, Write, Delete, Age, Damage, Commit, vars
<1> QED
  BY <1>2, <1>3

\* A session that ended, or was killed, holds nothing.
LEMMA BlankAfterForget ==
  ASSUME TypeOK, NEW s \in Sessions, Forget(s)
  PROVE  Blank(s)' /\ opts'[s] = NoOptions
BY DEF TypeOK, Forget, Blank, NoHits, NoneRead

\* No other step of a session ends it.
LEMMA RunsOn ==
  ASSUME TypeOK, NEW s \in Sessions, OwnStep(s)
  PROVE  pc'[s] # "idle"
BY DEF OwnStep, TypeOK, ScanDirectory, ScanFile, Begin, SelectChanged, SelectHit, SelectMiss, Skip,
       Looked, Analyze, WriteTemp, AskGit, SelectDone, AnalyzeDone, Rename, StoreDone

LEMMA SessionCases ==
  ASSUME TypeOK, [Next]_vars, NEW t \in Sessions
  PROVE  Untouched(t) \/ OwnStep(t) \/ Ending(t)
<1>1. ASSUME NEW s \in Sessions, OwnStep(s) \/ Ending(s), t # s
      PROVE  Untouched(t)
  BY <1>1, OthersFixed DEF Ending
<1> QED
  BY <1>1, StepCases, WorldSteps

LEMMA InitMemory == Init => IdleBlank /\ StoredRead
BY DEF Init, IdleBlank, Blank, StoredRead

LEMMA NextBlank == TypeOK /\ IdleBlank /\ [Next]_vars => IdleBlank'
<1> SUFFICES ASSUME TypeOK, IdleBlank, [Next]_vars, NEW t \in Sessions, pc'[t] = "idle"
             PROVE  Blank(t)'
  BY DEF IdleBlank, Idle
<1>1. CASE Untouched(t)
  <2>1. Blank(t)
    BY <1>1 DEF IdleBlank, Idle, Untouched
  <2> QED
    BY <1>1, <2>1 DEF Blank, NoHits, NoneRead, Untouched
<1>2. CASE Ending(t)
  BY <1>2, BlankAfterForget DEF Ending
<1> QED
  BY <1>1, <1>2, RunsOn, SessionCases

\* Reading a file puts its content, or the failure, under its name only.
LEMMA AnalyzeReads ==
  ASSUME TypeOK, NEW s \in Sessions, NEW f \in Files, Analyze(s, f)
  PROVE  /\ fresh[s][f] = NotRead
         /\ fresh'[s][f] = IF disk[f] = Gone THEN Unreadable ELSE disk[f]
         /\ \A g \in Files : g # f => fresh'[s][g] = fresh[s][g]
BY DEF TypeOK, Analyze

LEMMA NextStored == TypeOK /\ StoredRead /\ [Next]_vars => StoredRead'
<1> SUFFICES ASSUME TypeOK, StoredRead, [Next]_vars, NEW s \in Sessions, NEW f \in toStore'[s]
             PROVE  fresh'[s][f] \in Contents
  BY DEF StoredRead
<1> USE DEF world, bounds, selVars
<1>1. f \in toStore[s] => fresh[s][f] \in Contents /\ f \in Files
  BY DEF StoredRead, TypeOK
<1>2. CASE fresh'[s] = fresh[s] /\ toStore'[s] \subseteq toStore[s]
  BY <1>1, <1>2
<1>3. CASE Untouched(s)
  BY <1>2, <1>3 DEF Untouched
<1>4. CASE Ending(s)
  BY <1>4 DEF Ending, Forget, TypeOK
<1>5. ASSUME NEW g \in Files, Analyze(s, g)
      PROVE  fresh'[s][f] \in Contents
  <2>1. f \in toStore[s]
    BY <1>5 DEF Analyze
  <2> QED
    BY <1>1, <1>5, <2>1, AnalyzeReads, SentinelAssumption
<1>6. CASE AnalyzeDone(s)
  <2>1. /\ fresh' = fresh /\ f \in toAnalyze[s]
        /\ fresh[s][f] # Unreadable /\ fresh[s][f] # NotRead
    BY <1>6 DEF AnalyzeDone, TypeOK
  <2> QED
    BY <2>1 DEF TypeOK
<1>7. ASSUME NEW g \in Files, WriteTemp(s, g)
      PROVE  fresh'[s][f] \in Contents
  BY <1>2, <1>7 DEF WriteTemp, TypeOK
<1>8. CASE \/ AskGit(s) \/ SelectDone(s) \/ Rename(s) \/ StoreDone(s)
           \/ \E o \in Options : ScanDirectory(s, o)
           \/ \E o \in Options, g \in Files : ScanFile(s, o, g)
  BY <1>2, <1>8 DEF AskGit, SelectDone, Rename, StoreDone, ScanDirectory, ScanFile, Begin
<1>9. CASE \E g \in Files : SelectChanged(s, g) \/ SelectHit(s, g) \/ SelectMiss(s, g) \/ Skip(s, g)
  BY <1>2, <1>9 DEF SelectChanged, SelectHit, SelectMiss, Skip, Looked
<1> QED
  BY <1>3, <1>4, <1>5, <1>6, <1>7, <1>8, <1>9, SessionCases DEF OwnStep

LEMMA InitMem == Init => Memory
BY InitTyped, InitMemory DEF Memory

LEMMA NextMem == Memory /\ [Next]_vars => Memory'
BY NextTyped, NextBlank, NextStored DEF Memory

\* Every variable keeps its type, an entry's stamp included: Set never makes an
\* entry of a file it could not read or hash.
THEOREM TypesKept == Spec => []TypeOK
<1>1. Memory => TypeOK
  BY DEF Memory
<1> QED
  BY <1>1, InitMem, NextMem, PTL DEF Spec

-----------------------------------------------------------------------------
(* ReportIsFromThisTool *)

\* A hit puts the entry under the file's name only.
LEMMA HitReuses ==
  ASSUME TypeOK, NEW s \in Sessions, NEW f \in Files, SelectHit(s, f)
  PROVE  /\ entry[f] \in Entries
         /\ entry[f].hash = disk[f] /\ entry[f].tool = opts[s].tool
         /\ hits'[s][f] = entry[f]
         /\ \A g \in Files : g # f => hits'[s][g] = hits[s][g]
BY DEF TypeOK, SelectHit, Valid

LEMMA NextTool == Memory /\ ReportIsFromThisTool /\ [Next]_vars => ReportIsFromThisTool'
<1> SUFFICES ASSUME Memory, ReportIsFromThisTool, [Next]_vars,
                    NEW s \in Sessions, NEW f \in Files, hits'[s][f] # NoEntry
             PROVE  hits'[s][f].tool = opts'[s].tool
  BY DEF ReportIsFromThisTool
<1> USE DEF world, bounds, selVars
<1>1. TypeOK
  BY DEF Memory
<1>2. CASE hits'[s] = hits[s] /\ opts'[s] = opts[s]
  BY <1>2 DEF ReportIsFromThisTool
<1>3. CASE Untouched(s)
  BY <1>2, <1>3 DEF Untouched
<1>4. CASE Ending(s)
  BY <1>1, <1>4, BlankAfterForget DEF Ending, Blank, NoHits
<1>5. CASE \/ \E o \in Options : ScanDirectory(s, o)
           \/ \E o \in Options, g \in Files : ScanFile(s, o, g)
  <2>1. hits' = hits /\ Idle(s)
    BY <1>5 DEF ScanDirectory, ScanFile, Begin
  <2>2. hits[s] = NoHits
    BY <2>1 DEF Memory, IdleBlank, Blank
  <2> QED
    BY <2>1, <2>2 DEF NoHits
<1>6. ASSUME NEW g \in Files, SelectHit(s, g)
      PROVE  hits'[s][f].tool = opts'[s].tool
  <2>1. opts' = opts
    BY <1>6 DEF SelectHit, Looked
  <2> QED
    BY <1>1, <1>6, <2>1, HitReuses DEF ReportIsFromThisTool
<1>7. CASE \/ AskGit(s) \/ SelectDone(s) \/ AnalyzeDone(s) \/ Rename(s) \/ StoreDone(s)
           \/ \E g \in Files : Analyze(s, g) \/ WriteTemp(s, g)
           \/ \E g \in Files : SelectChanged(s, g) \/ SelectMiss(s, g) \/ Skip(s, g)
  <2>1. hits' = hits /\ opts' = opts
    BY <1>7 DEF AskGit, SelectDone, AnalyzeDone, Rename, StoreDone, Analyze, WriteTemp,
                SelectChanged, SelectMiss, Skip, Looked
  <2> QED
    BY <1>2, <2>1
<1> QED
  BY <1>1, <1>3, <1>4, <1>5, <1>6, <1>7, SessionCases DEF OwnStep

\* However many versions of the tool share the cache, a session reuses only
\* entries that its own version wrote.
THEOREM ReusesOwnTool == Spec => []ReportIsFromThisTool
<1>1. Init => ReportIsFromThisTool
  BY DEF Init, ReportIsFromThisTool, NoHits
<1> QED
  BY <1>1, InitMem, NextMem, NextTool, PTL DEF Spec

-----------------------------------------------------------------------------
(* ReportCoversFiles *)

Reused(s) == {f \in Files : hits[s][f] # NoEntry}

\* Each collected file is in one of four places while a session runs.
Sorted(s) ==
  /\ collected[s] = todo[s] \cup toAnalyze[s] \cup Reused(s) \cup skipped[s]
  /\ todo[s] \cap (toAnalyze[s] \cup Reused(s) \cup skipped[s]) = {}
  /\ toAnalyze[s] \cap Reused(s) = {}
  /\ skipped[s] \cap (toAnalyze[s] \cup Reused(s)) = {}
  /\ pc[s] \in {"analyze", "store", "report"} => todo[s] = {}
  /\ pc[s] = "git" => skipped[s] = {}
  /\ skipped[s] # {} => changed[s] # NoGit
  /\ changed[s] # NoGit => opts[s].git # "off"

AllSorted == \A s \in Sessions : Sorted(s)

LEMMA BlankSorted ==
  ASSUME NEW s \in Sessions, Blank(s), pc[s] = "idle"
  PROVE  Sorted(s)
BY DEF Blank, Sorted, Reused, NoHits

LEMMA SelectSorted ==
  ASSUME Memory, NEW s \in Sessions, Sorted(s), NEW f \in Files,
         \/ SelectChanged(s, f) \/ SelectHit(s, f) \/ SelectMiss(s, f) \/ Skip(s, f)
  PROVE  Sorted(s)'
<1>1. /\ TypeOK /\ f \in todo[s] /\ pc[s] = "select"
      /\ pc'[s] = pc[s] /\ opts'[s] = opts[s] /\ collected'[s] = collected[s]
      /\ changed'[s] = changed[s]
      /\ todo'[s] = todo[s] \ {f}
  BY DEF Memory, TypeOK, SelectChanged, SelectHit, SelectMiss, Skip, Looked
<1>2. CASE SelectChanged(s, f)
  <2>1. toAnalyze'[s] = toAnalyze[s] \cup {f} /\ hits'[s] = hits[s] /\ skipped'[s] = skipped[s]
    BY <1>1, <1>2 DEF TypeOK, SelectChanged
  <2> QED
    BY <1>1, <2>1 DEF Sorted, Reused
<1>3. CASE SelectMiss(s, f)
  <2>1. toAnalyze'[s] = toAnalyze[s] \cup {f} /\ hits'[s] = hits[s] /\ skipped'[s] = skipped[s]
    BY <1>1, <1>3 DEF TypeOK, SelectMiss
  <2> QED
    BY <1>1, <2>1 DEF Sorted, Reused
<1>4. CASE Skip(s, f)
  <2>1. /\ toAnalyze'[s] = toAnalyze[s] /\ hits'[s] = hits[s]
        /\ skipped'[s] = skipped[s] \cup {f} /\ changed[s] # NoGit
    BY <1>1, <1>4 DEF TypeOK, Skip
  <2> QED
    BY <1>1, <2>1 DEF Sorted, Reused
<1>5. CASE SelectHit(s, f)
  <2>1. toAnalyze'[s] = toAnalyze[s] /\ skipped'[s] = skipped[s]
    BY <1>1, <1>5 DEF TypeOK, SelectHit
  <2>2. Reused(s)' = Reused(s) \cup {f}
    BY <1>1, <1>5, HitReuses, SentinelAssumption DEF Reused
  <2> QED
    BY <1>1, <2>1, <2>2 DEF Sorted
<1> QED
  BY <1>2, <1>3, <1>4, <1>5

LEMMA NextSorted == Memory /\ AllSorted /\ [Next]_vars => AllSorted'
<1> SUFFICES ASSUME Memory, AllSorted, [Next]_vars, NEW s \in Sessions
             PROVE  Sorted(s)'
  BY DEF AllSorted
<1> USE DEF world, bounds, selVars
<1>1. TypeOK /\ Sorted(s)
  BY DEF Memory, AllSorted
<1>2. CASE /\ pc'[s] \in {pc[s], "analyze", "store", "report"} /\ opts'[s] = opts[s]
           /\ collected'[s] = collected[s] /\ todo'[s] = todo[s]
           /\ changed'[s] = changed[s] /\ toAnalyze'[s] = toAnalyze[s]
           /\ hits'[s] = hits[s] /\ skipped'[s] = skipped[s]
           /\ pc'[s] # pc[s] => todo[s] = {}
  BY <1>1, <1>2 DEF Sorted, Reused
<1>3. CASE Untouched(s)
  BY <1>2, <1>3 DEF Untouched
<1>4. CASE Ending(s)
  <2>1. Blank(s)' /\ pc'[s] = "idle"
    BY <1>1, <1>4, BlankAfterForget DEF Ending, Forget, TypeOK
  <2> QED
    BY <2>1 DEF Blank, Sorted, Reused, NoHits
<1>5. ASSUME NEW o \in Options, NEW files \in SUBSET Files, NEW next \in {"git", "select"},
             Begin(s, o, files, next)
      PROVE  Sorted(s)'
  <2>1. Blank(s)
    BY <1>5 DEF Begin, Memory, IdleBlank
  <2>2. /\ collected'[s] = files /\ todo'[s] = files /\ pc'[s] = next
        /\ changed'[s] = changed[s] /\ toAnalyze'[s] = toAnalyze[s]
        /\ hits'[s] = hits[s] /\ skipped'[s] = skipped[s]
    BY <1>1, <1>5 DEF Begin, TypeOK
  <2> QED
    BY <2>1, <2>2 DEF Blank, Sorted, Reused, NoHits
<1>6. CASE \/ \E o \in Options : ScanDirectory(s, o)
           \/ \E o \in Options, f \in Files : ScanFile(s, o, f)
  BY <1>5, <1>6 DEF ScanDirectory, ScanFile, Present
<1>7. CASE AskGit(s)
  <2>1. /\ changed'[s] = GitAnswer(opts[s]) /\ pc[s] = "git" /\ pc'[s] = "select"
        /\ opts'[s] = opts[s] /\ collected'[s] = collected[s] /\ todo'[s] = todo[s]
        /\ toAnalyze'[s] = toAnalyze[s] /\ hits'[s] = hits[s] /\ skipped'[s] = skipped[s]
    BY <1>1, <1>7 DEF AskGit, TypeOK
  <2>2. GitAnswer(opts[s]) # NoGit => opts[s].git # "off"
    BY DEF GitAnswer
  <2> QED
    BY <1>1, <2>1, <2>2 DEF Sorted, Reused
<1>8. CASE \E f \in Files : Analyze(s, f) \/ WriteTemp(s, f)
  BY <1>2, <1>8 DEF Analyze, WriteTemp
<1>9. CASE Rename(s)
  BY <1>2, <1>9 DEF Rename
<1>10. CASE SelectDone(s) \/ AnalyzeDone(s) \/ StoreDone(s)
  <2>1. todo[s] = {}
    BY <1>1, <1>10 DEF SelectDone, AnalyzeDone, StoreDone, Sorted
  <2> QED
    BY <1>1, <1>2, <1>10, <2>1 DEF SelectDone, AnalyzeDone, StoreDone, TypeOK
<1> QED
  BY <1>1, <1>3, <1>4, <1>6, <1>7, <1>8, <1>9, <1>10, SessionCases, SelectSorted DEF OwnStep

\* When a session reports, every file it collected was analysed, reused or
\* skipped, exactly one of these, and it skipped only because git was asked.
THEOREM ReportIsComplete == Spec => []ReportCoversFiles
<1>1. AllSorted => ReportCoversFiles
  <2> SUFFICES ASSUME AllSorted, NEW s \in Sessions, Reporting(s)
               PROVE  /\ collected[s] = toAnalyze[s] \cup Reused(s) \cup skipped[s]
                      /\ toAnalyze[s] \cap Reused(s) = {}
                      /\ skipped[s] \cap (toAnalyze[s] \cup Reused(s)) = {}
                      /\ skipped[s] # {} => opts[s].git # "off"
    BY DEF ReportCoversFiles, Reused
  <2> QED
    BY DEF AllSorted, Sorted, Reporting
<1>2. Init => AllSorted
  BY InitMemory, BlankSorted DEF Init, AllSorted, IdleBlank, Idle
<1> QED
  BY <1>1, <1>2, InitMem, NextMem, NextSorted, PTL DEF Spec

-----------------------------------------------------------------------------
(* EntriesMatchHash and ReportIsCurrent, when no source file is written while *)
(* a session runs                                                             *)

TrueEntry(e) == e.content = e.hash

Faithful ==
  /\ \A f \in Files : entry[f] \in Entries => TrueEntry(entry[f])
  /\ \A s \in Sessions : tmp[s] \notin {NoTmp, LostTmp} => TrueEntry(tmp[s].entry)
  /\ \A s \in Sessions, f \in Files :
       fresh[s][f] \in Contents => disk[f] \in {Gone, fresh[s][f]}
  /\ \A s \in Sessions, f \in Files :
       hits[s][f] # NoEntry => TrueEntry(hits[s][f]) /\ disk[f] \in {Gone, hits[s][f].hash}

\* The disk's part of a session: no step of a session touches the disk, and the
\* world only deletes a file, or writes one while no session runs.
LEMMA DiskSteps ==
  ASSUME EditsDuringScan = FALSE, Memory, [Next]_vars, NEW s \in Sessions, NEW f \in Files
  PROVE  \/ disk'[f] = disk[f]
         \/ disk'[f] = Gone /\ UNCHANGED <<fresh, hits>>
         \/ fresh[s] = NoneRead /\ hits[s] = NoHits /\ UNCHANGED <<fresh, hits>>
<1> USE DEF world, bounds, selVars, sessionVars
<1>1. ASSUME NEW t \in Sessions, OwnStep(t) \/ Ending(t)
      PROVE  disk' = disk
  BY <1>1 DEF OwnStep, Ending, Forget, ScanDirectory, ScanFile, Begin, SelectChanged,
              SelectHit, SelectMiss, Skip, Looked, Analyze, WriteTemp, AskGit, SelectDone,
              AnalyzeDone, Rename, StoreDone
<1>2. ASSUME NEW g \in Files, NEW c \in Contents, Write(g, c)
      PROVE  fresh[s] = NoneRead /\ hits[s] = NoHits /\ UNCHANGED <<fresh, hits>>
  <2>1. Idle(s) /\ UNCHANGED <<fresh, hits>>
    BY <1>2 DEF Write
  <2> QED
    BY <2>1 DEF Memory, IdleBlank, Blank
<1>3. ASSUME NEW g \in Files, Delete(g)
      PROVE  disk'[f] \in {disk[f], Gone} /\ UNCHANGED <<fresh, hits>>
  BY <1>3 DEF Delete, Memory, TypeOK
<1>4. CASE (\E g \in Files : Age(g) \/ Damage(g)) \/ Commit \/ Clear \/ UNCHANGED vars
  BY <1>4 DEF Age, Damage, Commit, Clear, vars
<1> QED
  BY <1>1, <1>2, <1>3, <1>4, StepCases DEF WorldStep

\* What a session has read stays what the disk holds.
LEMMA FreshKept ==
  ASSUME EditsDuringScan = FALSE, Memory, Faithful, [Next]_vars,
         NEW s \in Sessions, NEW f \in Files, fresh'[s][f] \in Contents
  PROVE  disk'[f] \in {Gone, fresh'[s][f]}
<1> USE DEF world, bounds, selVars
<1>1. TypeOK
  BY DEF Memory
<1>2. CASE fresh'[s][f] = fresh[s][f]
  <2>1. fresh[s][f] \in Contents /\ disk[f] \in {Gone, fresh[s][f]}
    BY <1>2 DEF Faithful
  <2>2. fresh[s] # NoneRead
    BY <2>1, SentinelAssumption DEF NoneRead
  <2> QED
    BY <1>2, <2>1, <2>2, DiskSteps
<1>3. CASE Untouched(s)
  BY <1>2, <1>3 DEF Untouched
<1>4. CASE Ending(s)
  BY <1>1, <1>4, BlankAfterForget, SentinelAssumption DEF Ending, Blank, NoneRead
<1>5. ASSUME NEW g \in Files, Analyze(s, g)
      PROVE  disk'[f] \in {Gone, fresh'[s][f]}
  <2>1. disk' = disk
    BY <1>5 DEF Analyze
  <2>2. CASE g = f
    BY <1>1, <1>5, <2>1, <2>2, AnalyzeReads, SentinelAssumption
  <2>3. CASE g # f
    BY <1>1, <1>2, <1>5, <2>3, AnalyzeReads
  <2> QED
    BY <2>2, <2>3
<1>6. CASE \/ AskGit(s) \/ SelectDone(s) \/ AnalyzeDone(s) \/ Rename(s) \/ StoreDone(s)
           \/ \E o \in Options : ScanDirectory(s, o)
           \/ \E o \in Options, g \in Files : ScanFile(s, o, g)
           \/ \E g \in Files : SelectChanged(s, g) \/ SelectHit(s, g) \/ SelectMiss(s, g)
           \/ \E g \in Files : Skip(s, g) \/ WriteTemp(s, g)
  <2>1. fresh' = fresh
    BY <1>6 DEF AskGit, SelectDone, AnalyzeDone, Rename, StoreDone, WriteTemp, ScanDirectory,
                ScanFile, Begin, SelectChanged, SelectHit, SelectMiss, Skip, Looked
  <2> QED
    BY <1>2, <2>1
<1> QED
  BY <1>1, <1>3, <1>4, <1>5, <1>6, SessionCases DEF OwnStep

\* So does what it takes from the cache.
LEMMA HitsKept ==
  ASSUME EditsDuringScan = FALSE, Memory, Faithful, [Next]_vars,
         NEW s \in Sessions, NEW f \in Files, hits'[s][f] # NoEntry
  PROVE  TrueEntry(hits'[s][f]) /\ disk'[f] \in {Gone, hits'[s][f].hash}
<1> USE DEF world, bounds, selVars
<1>1. TypeOK
  BY DEF Memory
<1>2. CASE hits'[s][f] = hits[s][f]
  <2>1. TrueEntry(hits[s][f]) /\ disk[f] \in {Gone, hits[s][f].hash} /\ hits[s] # NoHits
    BY <1>2 DEF Faithful, NoHits
  <2> QED
    BY <1>2, <2>1, DiskSteps
<1>3. CASE Untouched(s)
  BY <1>2, <1>3 DEF Untouched
<1>4. CASE Ending(s)
  BY <1>1, <1>4, BlankAfterForget DEF Ending, Blank, NoHits
<1>5. ASSUME NEW g \in Files, SelectHit(s, g)
      PROVE  TrueEntry(hits'[s][f]) /\ disk'[f] \in {Gone, hits'[s][f].hash}
  <2>1. disk' = disk
    BY <1>5 DEF SelectHit, Looked
  <2>2. CASE g = f
    BY <1>1, <1>5, <2>1, <2>2, HitReuses DEF Faithful
  <2>3. CASE g # f
    BY <1>1, <1>2, <1>5, <2>3, HitReuses
  <2> QED
    BY <2>2, <2>3
<1>6. CASE \/ AskGit(s) \/ SelectDone(s) \/ AnalyzeDone(s) \/ Rename(s) \/ StoreDone(s)
           \/ \E o \in Options : ScanDirectory(s, o)
           \/ \E o \in Options, g \in Files : ScanFile(s, o, g)
           \/ \E g \in Files : SelectChanged(s, g) \/ SelectMiss(s, g)
           \/ \E g \in Files : Skip(s, g) \/ WriteTemp(s, g) \/ Analyze(s, g)
  <2>1. hits' = hits
    BY <1>6 DEF AskGit, SelectDone, AnalyzeDone, Rename, StoreDone, WriteTemp, ScanDirectory,
                ScanFile, Begin, SelectChanged, SelectMiss, Skip, Looked, Analyze
  <2> QED
    BY <1>2, <2>1
<1> QED
  BY <1>1, <1>3, <1>4, <1>5, <1>6, SessionCases DEF OwnStep

\* Set stamps an entry with the content it was computed from.
LEMMA TmpKept ==
  ASSUME Memory, Faithful, [Next]_vars,
         NEW s \in Sessions, tmp'[s] \notin {NoTmp, LostTmp}
  PROVE  TrueEntry(tmp'[s].entry)
<1> USE DEF world, bounds, selVars
<1>1. TypeOK
  BY DEF Memory
<1>2. CASE tmp'[s] = tmp[s]
  BY <1>2 DEF Faithful
<1>3. CASE Untouched(s)
  BY <1>2, <1>3 DEF Untouched
<1>4. CASE Ending(s)
  BY <1>1, <1>4, BlankAfterForget DEF Ending, Blank
<1>5. ASSUME NEW f \in Files, WriteTemp(s, f)
      PROVE  TrueEntry(tmp'[s].entry)
  <2>1. disk[f] # Gone /\ tmp'[s] = [file |-> f, entry |-> Stamped(s, f)]
    BY <1>1, <1>5 DEF WriteTemp, TypeOK
  <2>2. fresh[s][f] \in Contents
    BY <1>5 DEF WriteTemp, Memory, StoredRead
  <2>3. disk[f] = fresh[s][f]
    BY <2>1, <2>2 DEF Faithful
  <2> QED
    BY <2>1, <2>3 DEF Stamped, TrueEntry
<1>6. CASE Rename(s)
  BY <1>1, <1>6 DEF Rename, TypeOK
<1>7. CASE \/ AskGit(s) \/ SelectDone(s) \/ AnalyzeDone(s) \/ StoreDone(s)
           \/ \E o \in Options : ScanDirectory(s, o)
           \/ \E o \in Options, g \in Files : ScanFile(s, o, g)
           \/ \E g \in Files : SelectChanged(s, g) \/ SelectHit(s, g) \/ SelectMiss(s, g)
           \/ \E g \in Files : Skip(s, g) \/ Analyze(s, g)
  <2>1. tmp' = tmp
    BY <1>7 DEF AskGit, SelectDone, AnalyzeDone, StoreDone, ScanDirectory, ScanFile, Begin,
                SelectChanged, SelectHit, SelectMiss, Skip, Looked, Analyze
  <2> QED
    BY <1>2, <2>1
<1> QED
  BY <1>1, <1>3, <1>4, <1>5, <1>6, <1>7, SessionCases DEF OwnStep

\* Entries appear by a rename only.
LEMMA EntryKept ==
  ASSUME Memory, Faithful, [Next]_vars, NEW f \in Files, entry'[f] \in Entries
  PROVE  TrueEntry(entry'[f])
<1> USE DEF world, bounds, selVars, sessionVars
<1>1. TypeOK
  BY DEF Memory
<1>2. CASE entry'[f] = entry[f]
  BY <1>2 DEF Faithful
<1>3. ASSUME NEW s \in Sessions, Rename(s)
      PROVE  TrueEntry(entry'[f])
  <2>1. CASE tmp[s] = LostTmp
    BY <1>2, <1>3, <2>1 DEF Rename
  <2>2. CASE tmp[s] # LostTmp
    <3>1. /\ tmp[s] \in [file : Files, entry : Entries]
          /\ tmp[s] \notin {NoTmp, LostTmp}
          /\ entry' = [entry EXCEPT ![tmp[s].file] = tmp[s].entry]
      BY <1>1, <1>3, <2>2 DEF Rename, TypeOK
    <3>2. TrueEntry(tmp[s].entry)
      BY <3>1 DEF Faithful
    <3>3. CASE tmp[s].file = f
      BY <1>1, <3>1, <3>2, <3>3 DEF TypeOK
    <3>4. CASE tmp[s].file # f
      BY <1>1, <1>2, <3>1, <3>4 DEF TypeOK
    <3> QED
      BY <3>3, <3>4
  <2> QED
    BY <2>1, <2>2
<1>4. ASSUME NEW g \in Files, entry' = AfterGet(g)
      PROVE  TrueEntry(entry'[f])
  <2>1. entry'[f] = entry[f] \/ entry'[f] = NoEntry
    BY <1>1, <1>4 DEF AfterGet, TypeOK
  <2> QED
    BY <1>2, <2>1, SentinelAssumption
<1>5. ASSUME NEW s \in Sessions, OwnStep(s) \/ Ending(s)
      PROVE  TrueEntry(entry'[f])
  <2>1. CASE \E g \in Files : SelectMiss(s, g) \/ Skip(s, g)
    BY <1>4, <2>1 DEF SelectMiss, Skip
  <2>2. CASE \/ AskGit(s) \/ SelectDone(s) \/ AnalyzeDone(s) \/ StoreDone(s) \/ Forget(s)
             \/ \E o \in Options : ScanDirectory(s, o)
             \/ \E o \in Options, g \in Files : ScanFile(s, o, g)
             \/ \E g \in Files : SelectChanged(s, g) \/ SelectHit(s, g)
             \/ \E g \in Files : WriteTemp(s, g) \/ Analyze(s, g)
    <3>1. entry' = entry
      BY <2>2 DEF AskGit, SelectDone, AnalyzeDone, StoreDone, Forget, ScanDirectory, ScanFile,
                  Begin, SelectChanged, SelectHit, WriteTemp, Analyze
    <3> QED
      BY <1>2, <3>1
  <2> QED
    BY <1>3, <1>5, <2>1, <2>2 DEF OwnStep, Ending
<1>6. CASE WorldStep
  <2>1. CASE \E g \in Files : Age(g) \/ Damage(g)
    <3>1. PICK g \in Files : Age(g) \/ Damage(g)
      BY <2>1
    <3>2. entry'[f] \in {entry[f], Expired, Corrupt}
      BY <1>1, <3>1 DEF Age, Damage, TypeOK
    <3> QED
      BY <1>2, <3>2, SentinelAssumption
  <2>2. CASE Clear
    BY <2>2, SentinelAssumption DEF Clear
  <2>3. CASE \/ \E g \in Files, c \in Contents : Write(g, c)
             \/ \E g \in Files : Delete(g)
             \/ Commit \/ UNCHANGED vars
    BY <1>2, <2>3 DEF Write, Delete, Commit, vars
  <2> QED
    BY <1>6, <2>1, <2>2, <2>3 DEF WorldStep
<1> QED
  BY <1>5, <1>6, StepCases

LEMMA InitFaithful == Init => Faithful
BY SentinelAssumption DEF Init, Faithful, NoneRead, NoHits

LEMMA NextFaithful ==
  ASSUME EditsDuringScan = FALSE
  PROVE  Memory /\ Faithful /\ [Next]_vars => Faithful'
BY FreshKept, HitsKept, TmpKept, EntryKept DEF Faithful

\* As long as the sources are left alone while a session runs, no interleaving
\* of sessions, versions, kills, damage and clearing leaves an entry whose
\* findings are not those of the content its hash stands for.
THEOREM EntriesAreTrue ==
  ASSUME EditsDuringScan = FALSE
  PROVE  Spec => []EntriesMatchHash
<1>1. Faithful => EntriesMatchHash
  BY DEF Faithful, EntriesMatchHash, TrueEntry
<1> QED
  BY <1>1, InitMem, NextMem, InitFaithful, NextFaithful, PTL DEF Spec

\* A session stores and reports once it has read all it was to analyse.
AllRead ==
  \A s \in Sessions : pc[s] \in {"store", "report"} =>
    \A f \in toAnalyze[s] : fresh[s][f] # NotRead

LEMMA NextRead == Memory /\ AllRead /\ [Next]_vars => AllRead'
<1> SUFFICES ASSUME Memory, AllRead, [Next]_vars,
                    NEW s \in Sessions, pc'[s] \in {"store", "report"}, NEW f \in toAnalyze'[s]
             PROVE  fresh'[s][f] # NotRead
  BY DEF AllRead
<1> USE DEF world, bounds, selVars
<1>1. TypeOK
  BY DEF Memory
<1>2. CASE /\ pc[s] \in {"store", "report"}
           /\ toAnalyze'[s] = toAnalyze[s] /\ fresh'[s] = fresh[s]
  BY <1>2 DEF AllRead
<1>3. CASE Untouched(s)
  BY <1>2, <1>3 DEF Untouched
<1>4. CASE AnalyzeDone(s)
  BY <1>1, <1>4 DEF AnalyzeDone, TypeOK
<1>5. CASE \E g \in Files : WriteTemp(s, g)
  BY <1>2, <1>5 DEF WriteTemp
<1>6. CASE Rename(s) \/ StoreDone(s)
  BY <1>2, <1>6 DEF Rename, StoreDone
<1>7. CASE \/ AskGit(s) \/ SelectDone(s) \/ Ending(s)
           \/ \E o \in Options : ScanDirectory(s, o)
           \/ \E o \in Options, g \in Files : ScanFile(s, o, g)
           \/ \E g \in Files : SelectChanged(s, g) \/ SelectHit(s, g) \/ SelectMiss(s, g)
           \/ \E g \in Files : Skip(s, g) \/ Analyze(s, g)
  <2>1. pc'[s] \notin {"store", "report"}
    BY <1>1, <1>7 DEF AskGit, SelectDone, Ending, Forget, ScanDirectory, ScanFile, Begin,
                      SelectChanged, SelectHit, SelectMiss, Skip, Looked, Analyze, TypeOK
  <2> QED
    BY <2>1
<1> QED
  BY <1>1, <1>3, <1>4, <1>5, <1>6, <1>7, SessionCases DEF OwnStep

\* Under the same condition, what a report says of a file that is still there it
\* says of the content the file has.
THEOREM ReportsAreCurrent ==
  ASSUME EditsDuringScan = FALSE
  PROVE  Spec => []ReportIsCurrent
<1>1. Memory /\ Faithful /\ AllRead => ReportIsCurrent
  <2> SUFFICES ASSUME Memory, Faithful, AllRead, NEW s \in Sessions, Reporting(s), NEW f \in Present
               PROVE  /\ f \in toAnalyze[s] /\ fresh[s][f] # Unreadable => fresh[s][f] = disk[f]
                      /\ hits[s][f] # NoEntry => hits[s][f].content = disk[f]
    BY DEF ReportIsCurrent
  <2>1. f \in Files /\ disk[f] # Gone
    BY DEF Present
  <2>2. ASSUME f \in toAnalyze[s], fresh[s][f] # Unreadable
        PROVE  fresh[s][f] = disk[f]
    <3>1. fresh[s][f] \in Contents
      BY <2>1, <2>2 DEF AllRead, Reporting, Memory, TypeOK
    <3> QED
      BY <2>1, <3>1 DEF Faithful
  <2> QED
    BY <2>1, <2>2 DEF Faithful, TrueEntry
<1>2. Init => AllRead
  BY DEF Init, AllRead
<1> QED
  BY <1>1, <1>2, InitMem, NextMem, InitFaithful, NextFaithful, NextRead, PTL DEF Spec

-----------------------------------------------------------------------------
(* GitDefaultMissesNothing, under the same condition *)

\* A scan over the default strategy will only skip, and has only skipped, files that
\* are gone or are what the commit has.
Settled(f) == disk[f] \in {committed[f], Gone}

GitInv ==
  \A s \in Sessions : opts[s].git = "default" =>
    \A f \in Files :
      (changed[s] # NoGit /\ f \notin changed[s]) \/ f \in skipped[s] => Settled(f)

\* A settled file stays settled: while a session runs, only a deletion changes the disk,
\* and a commit takes the files as they are.
LEMMA SettledStays ==
  ASSUME EditsDuringScan = FALSE, Memory, [Next]_vars, NEW s \in Sessions, NEW f \in Files,
         Settled(f), ~Blank(s)
  PROVE  Settled(f)'
<1> USE DEF world, bounds, selVars, sessionVars, Settled
<1>1. ASSUME NEW t \in Sessions, OwnStep(t) \/ Ending(t)
      PROVE  disk' = disk /\ committed' = committed
  BY <1>1 DEF OwnStep, Ending, Forget, ScanDirectory, ScanFile, Begin, SelectChanged,
              SelectHit, SelectMiss, Skip, Looked, Analyze, WriteTemp, AskGit, SelectDone,
              AnalyzeDone, Rename, StoreDone
<1>2. ASSUME NEW g \in Files, NEW c \in Contents, Write(g, c)
      PROVE  FALSE
  BY <1>2 DEF Write, Memory, IdleBlank
<1>3. ASSUME NEW g \in Files, Delete(g)
      PROVE  disk'[f] \in {disk[f], Gone} /\ committed' = committed
  BY <1>3 DEF Delete, Memory, TypeOK
<1>4. CASE Commit
  BY <1>4 DEF Commit
<1>5. CASE (\E g \in Files : Age(g) \/ Damage(g)) \/ Clear \/ UNCHANGED vars
  BY <1>5 DEF Age, Damage, Clear, vars
<1> QED
  BY <1>1, <1>2, <1>3, <1>4, <1>5, StepCases DEF WorldStep

\* Asking git for the default strategy gives every file that is not settled.
LEMMA GitTellsAll ==
  ASSUME TypeOK, NEW s \in Sessions, AskGit(s), opts[s].git = "default",
         NEW f \in Files, f \notin changed'[s]
  PROVE  Settled(f)'
<1>1. changed'[s] = GitAnswer(opts[s]) /\ disk' = disk /\ committed' = committed
  BY DEF AskGit, TypeOK, world
<1>2. GitAnswer(opts[s]) = Uncommitted
  BY DEF GitAnswer, ChangedFiles
<1> QED
  BY <1>1, <1>2 DEF Uncommitted, Present, Settled

LEMMA NextGit == EditsDuringScan = FALSE /\ Memory /\ GitInv /\ [Next]_vars => GitInv'
<1> SUFFICES ASSUME EditsDuringScan = FALSE, Memory, GitInv, [Next]_vars,
                    NEW s \in Sessions, opts'[s].git = "default", NEW f \in Files,
                    (changed'[s] # NoGit /\ f \notin changed'[s]) \/ f \in skipped'[s]
             PROVE  Settled(f)'
  BY DEF GitInv
<1> USE DEF world, bounds, selVars
<1>1. TypeOK
  BY DEF Memory
<1>2. CASE opts'[s] = opts[s] /\ changed'[s] = changed[s] /\ skipped'[s] = skipped[s]
  <2>1. Settled(f)
    BY <1>2 DEF GitInv
  <2>2. ~Blank(s)
    BY <1>2 DEF Blank
  <2> QED
    BY <2>1, <2>2, SettledStays
<1>3. CASE Untouched(s)
  BY <1>2, <1>3 DEF Untouched
<1>4. CASE Ending(s)
  BY <1>1, <1>4, BlankAfterForget DEF Ending, Blank
<1>5. CASE \/ \E o \in Options : ScanDirectory(s, o)
           \/ \E o \in Options, g \in Files : ScanFile(s, o, g)
  <2>1. changed' = changed /\ skipped' = skipped /\ Idle(s)
    BY <1>5 DEF ScanDirectory, ScanFile, Begin
  <2>2. changed[s] = NoGit /\ skipped[s] = {}
    BY <2>1 DEF Memory, IdleBlank, Blank
  <2> QED
    BY <2>1, <2>2
<1>6. CASE AskGit(s)
  <2>1. opts' = opts /\ skipped' = skipped
    BY <1>6 DEF AskGit
  <2>2. CASE f \notin changed'[s]
    BY <1>1, <1>6, <2>1, <2>2, GitTellsAll
  <2>3. CASE f \in skipped'[s]
    <3>1. Settled(f) /\ ~Blank(s)
      BY <2>1, <2>3 DEF GitInv, Blank
    <3> QED
      BY <3>1, SettledStays
  <2> QED
    BY <2>2, <2>3
<1>7. ASSUME NEW g \in Files, Skip(s, g)
      PROVE  Settled(f)'
  <2>1. /\ opts' = opts /\ changed' = changed /\ changed[s] # NoGit /\ g \notin changed[s]
        /\ skipped'[s] = skipped[s] \cup {g}
    BY <1>1, <1>7 DEF Skip, Looked, TypeOK
  <2>2. Settled(f) /\ ~Blank(s)
    BY <2>1 DEF GitInv, Blank
  <2> QED
    BY <2>2, SettledStays
<1>8. CASE \/ SelectDone(s) \/ AnalyzeDone(s) \/ Rename(s) \/ StoreDone(s)
           \/ \E g \in Files : Analyze(s, g) \/ WriteTemp(s, g)
           \/ \E g \in Files : SelectChanged(s, g) \/ SelectHit(s, g) \/ SelectMiss(s, g)
  <2>1. opts' = opts /\ changed' = changed /\ skipped' = skipped
    BY <1>8 DEF SelectDone, AnalyzeDone, Rename, StoreDone, Analyze, WriteTemp,
                SelectChanged, SelectHit, SelectMiss, Looked
  <2> QED
    BY <1>2, <2>1
<1> QED
  BY <1>1, <1>3, <1>4, <1>5, <1>6, <1>7, <1>8, SessionCases DEF OwnStep

\* An incremental scan over git's default answer (GetChangedFiles of git.go, with staged,
\* unstaged and untracked files) skips no file that differs from the commit.
THEOREM GitMissesNothing ==
  ASSUME EditsDuringScan = FALSE
  PROVE  Spec => []GitDefaultMissesNothing
<1>1. Memory /\ GitInv => GitDefaultMissesNothing
  BY DEF Memory, TypeOK, GitInv, GitDefaultMissesNothing, Settled
<1>2. Init => GitInv
  BY DEF Init, GitInv
<1> QED
  BY <1>1, <1>2, InitMem, NextMem, NextGit, PTL DEF Spec

\* An incremental report accounts for every collected file once and reuses only entries of
\* its own tool version, whatever sessions share the cache.
THEOREM ReportAccountsForAll == Spec => []ReportAccounts
<1>1. ReportIsFromThisTool /\ ReportCoversFiles => ReportAccounts  BY DEF ReportAccounts
<1>. QED  BY <1>1, ReusesOwnTool, ReportIsComplete, PTL

-----------------------------------------------------------------------------
(***************************************************************************)
(* Proofs about the worker pool for any number of files, workers and       *)
(* detectors.  Every safety property follows from IInv, shown inductive    *)
(* one group of conjuncts at a time: first the counting facts, then types, *)
(* then the position of the goroutines, then where the files are, then the *)
(* shared graph.                                                           *)
(***************************************************************************)
USE FilesAssumption, WorkersAssumption, DetectorsAssumption

(* Any set of workers is finite and has at most NumWorkers members.        *)
LEMMA WorkerSetsFinite ==
  ASSUME NEW S \in SUBSET Workers
  PROVE  IsFiniteSet(S) /\ Cardinality(S) \in 0..NumWorkers
<1>1. IsFiniteSet(Workers) /\ Cardinality(Workers) = NumWorkers
  BY FS_Interval DEF Workers
<1>2. IsFiniteSet(S) /\ Cardinality(S) <= Cardinality(Workers)
  BY <1>1, FS_Subset
<1>3. QED
  BY <1>1, <1>2, FS_CardinalityType

(* What SendResult puts on the channel, entry by entry.                    *)
LEMMA SendAppends ==
  ASSUME PoolTypeOK, NEW w \in Workers, SendResult(w), HeldAreUnreported
  PROVE  /\ outbox' \in Seq(Result)
         /\ Len(outbox') = Len(outbox) + 1
         /\ Len(outbox) \in Nat
         /\ \A i \in 1..Len(outbox) : outbox'[i] = outbox[i]
         /\ outbox'[Len(outbox) + 1].file = wfile[w]
         /\ outbox'[Len(outbox) + 1].runs = wruns[w]
         /\ w \in Holders
         /\ wfile[w] \in 1..taken
<1> DEFINE r == [file |-> wfile[w], error |-> wpc[w] = "failed", runs |-> wruns[w]]
<1>1. w \in Holders
  BY DEF SendResult, Finished, Holders, Holding
<1>2. wfile[w] \in 1..taken /\ wfile[w] \in ListedFiles
  BY <1>1 DEF HeldAreUnreported, PoolTypeOK, ListedFiles
<1>3. r \in Result
  BY <1>2 DEF Result, PoolTypeOK
<1>4. outbox \in Seq(Result) /\ outbox' = Append(outbox, r)
  BY DEF SendResult, PoolTypeOK
<1>5. r.file = wfile[w] /\ r.runs = wruns[w]
  OBVIOUS
<1> HIDE DEF r
<1>6. QED
  BY <1>1, <1>2, <1>3, <1>4, <1>5

(* The set of workers holding a file changes only when a file is taken or  *)
(* its result sent, and the set of live ones when one starts or exits.     *)
LEMMA CountStep == IInv /\ [PoolNext]_poolVars => CountInv'
<1> SUFFICES ASSUME IInv, [PoolNext]_poolVars PROVE CountInv'
  OBVIOUS
<1> USE DEF Holders, Holding, Live
<1>t. PoolTypeOK /\ CountInv /\ HeldAreUnreported /\ Len(outbox) \in Nat
  BY DEF IInv, FilesConserved, PoolTypeOK
<1>f. /\ IsFiniteSet(Holders) /\ Cardinality(Holders) \in Nat
      /\ IsFiniteSet(Live) /\ Cardinality(Live) \in Nat
  BY WorkerSetsFinite, Holders \subseteq Workers, Live \subseteq Workers
<1> HIDE DEF Holders, Live
<1>1. ASSUME NEW w \in Workers, Spawn(w) PROVE CountInv'
  <2>1. Live' = Live \cup {w} /\ w \notin Live /\ Holders' = Holders
    BY <1>1, <1>t DEF Spawn, PoolTypeOK, Live, Holders, mainVars
  <2>2. Cardinality(Live') = Cardinality(Live) + 1
    BY <2>1, <1>f, FS_AddElement
  <2>3. QED
    BY <2>1, <2>2, <1>t, <1>1 DEF CountInv, Spawn
<1>2. ASSUME NEW w \in Workers, TakeJob(w) PROVE CountInv'
  <2>1. Holders' = Holders \cup {w} /\ w \notin Holders /\ Live' = Live
    BY <1>2, <1>t DEF TakeJob, PoolTypeOK, Live, Holders, mainVars
  <2>2. Cardinality(Holders') = Cardinality(Holders) + 1
    BY <2>1, <1>f, FS_AddElement
  <2>3. outbox' = outbox /\ taken' = taken + 1 /\ wg' = wg /\ taken \in Nat
    BY <1>2, <1>t DEF TakeJob, PoolTypeOK
  <2>4. QED
    BY <2>1, <2>2, <2>3, <1>t, <1>f DEF CountInv
<1>3. ASSUME NEW w \in Workers, Exit(w) PROVE CountInv'
  <2>1. Live' = Live \ {w} /\ w \in Live /\ Holders' = Holders
    BY <1>3, <1>t DEF Exit, PoolTypeOK, Live, Holders, mainVars
  <2>2. Cardinality(Live') = Cardinality(Live) - 1
    BY <2>1, <1>f, FS_RemoveElement
  <2>3. QED
    BY <2>1, <2>2, <1>t, <1>3 DEF CountInv, Exit
<1>4. ASSUME NEW w \in Workers, SendResult(w) PROVE CountInv'
  <2>1. Holders' = Holders \ {w} /\ w \in Holders /\ Live' = Live
    BY <1>4, <1>t DEF SendResult, Finished, PoolTypeOK, Live, Holders, mainVars
  <2>2. Cardinality(Holders') = Cardinality(Holders) - 1
    BY <2>1, <1>f, FS_RemoveElement
  <2>3. Len(outbox') = Len(outbox) + 1
    BY <1>4, <1>t, SendAppends
  <2>4. taken' = taken /\ wg' = wg
    BY <1>4 DEF SendResult
  <2>5. QED
    BY <2>1, <2>2, <2>3, <2>4, <1>t, <1>f DEF CountInv
<1>5. ASSUME NEW w \in Workers,
             ReadOK(w) \/ ReadError(w) \/ CheckGraph(w) \/ BuildGraph(w) \/ Detect(w)
      PROVE  CountInv'
  <2>1. Holders' = Holders /\ Live' = Live
    BY <1>5, <1>t DEF ReadOK, ReadError, CheckGraph, BuildGraph, Detect, PoolTypeOK,
                      Live, Holders, mainVars
  <2>2. UNCHANGED <<outbox, taken, wg>>
    BY <1>5 DEF ReadOK, ReadError, CheckGraph, BuildGraph, Detect
  <2>3. QED
    BY <2>1, <2>2, <1>t DEF CountInv
<1>6. ASSUME \/ SpawnLoopEnds \/ Feed \/ CloseJobs \/ Collect \/ Return
             \/ CloseResults \/ Terminated \/ UNCHANGED poolVars
      PROVE  CountInv'
  <2>1. UNCHANGED <<wpc, outbox, taken, wg>>
    BY <1>6 DEF SpawnLoopEnds, Feed, CloseJobs, Collect, Return, CloseResults,
                Terminated, poolVars, mainVars, workerVars
  <2>2. Holders' = Holders /\ Live' = Live
    BY <2>1 DEF Holders, Live
  <2>3. QED
    BY <2>1, <2>2, <1>t DEF CountInv
<1>7. QED
  BY <1>1, <1>2, <1>3, <1>4, <1>5, <1>6 DEF PoolNext, MainStep, WorkerStep

(* Types.  The WaitGroup's counter stays in range because it is the number *)
(* of live workers; the cursors because of the order between them.         *)
LEMMA TypeStep == IInv /\ [PoolNext]_poolVars => PoolTypeOK'
<1> SUFFICES ASSUME IInv, [PoolNext]_poolVars PROVE PoolTypeOK'
  OBVIOUS
<1>t. PoolTypeOK /\ MainInv /\ HeldAreUnreported /\ Len(outbox) \in Nat
  BY DEF IInv, FilesConserved, PoolTypeOK
<1>w. wg' \in 0..NumWorkers
  <2>1. wg' = Cardinality(Live')
    BY CountStep DEF CountInv
  <2>2. Live' \in SUBSET Workers
    BY DEF Live
  <2>3. QED
    BY <2>1, <2>2, WorkerSetsFinite
<1>1. ASSUME NEW w \in Workers, Spawn(w) PROVE PoolTypeOK'
  BY <1>1, <1>t, <1>w DEF Spawn, PoolTypeOK, mainVars
<1>2. ASSUME NEW w \in Workers, TakeJob(w) PROVE PoolTypeOK'
  <2>1. taken + 1 \in ListedFiles /\ taken + 1 \in 0..NumFiles
    BY <1>2, <1>t DEF TakeJob, PoolTypeOK, ListedFiles
  <2>2. QED
    BY <1>2, <1>t, <2>1 DEF TakeJob, PoolTypeOK, mainVars
<1>3. ASSUME NEW w \in Workers, Exit(w) PROVE PoolTypeOK'
  BY <1>3, <1>t, <1>w DEF Exit, PoolTypeOK, mainVars
<1>4. ASSUME NEW w \in Workers, SendResult(w) PROVE PoolTypeOK'
  <2>1. outbox' \in Seq(Result) /\ Len(outbox') = Len(outbox) + 1
    BY <1>4, <1>t, SendAppends
  <2>2. received' = received /\ received \in Nat /\ received <= Len(outbox')
    BY <1>4, <1>t, <2>1 DEF SendResult, PoolTypeOK
  <2>3. QED
    BY <1>4, <1>t, <2>1, <2>2 DEF SendResult, PoolTypeOK, mainVars
<1>5. ASSUME NEW w \in Workers,
             ReadOK(w) \/ ReadError(w) \/ CheckGraph(w)
      PROVE  PoolTypeOK'
  BY <1>5, <1>t DEF ReadOK, ReadError, CheckGraph, PoolTypeOK, mainVars
<1>6. ASSUME NEW w \in Workers, BuildGraph(w) PROVE PoolTypeOK'
  <2>1. w \in Holders
    BY <1>6 DEF BuildGraph, Holders, Holding
  <2>2. {wfile[w]} \in SUBSET ListedFiles
    BY <2>1, <1>t DEF HeldAreUnreported, PoolTypeOK, ListedFiles
  <2>3. QED
    BY <1>6, <1>t, <2>2 DEF BuildGraph, PoolTypeOK, mainVars
<1>7. ASSUME NEW w \in Workers, Detect(w) PROVE PoolTypeOK'
  <2>1. wdet[w] \in 1..NumDetectors /\ wdet[w] + 1 \in 1..(NumDetectors + 1)
    BY <1>7, <1>t DEF Detect, PoolTypeOK
  <2>2. [detector |-> wdet[w], graph |-> graph] \in DetectorRun
    BY <2>1, <1>t DEF DetectorRun, PoolTypeOK
  <2>a. wruns \in [Workers -> SUBSET DetectorRun]
    BY <1>t DEF PoolTypeOK
  <2>b. wruns[w] \cup {[detector |-> wdet[w], graph |-> graph]} \in SUBSET DetectorRun
    BY <2>2, <2>a
  <2>3. wruns' \in [Workers -> SUBSET DetectorRun]
    BY <1>7, <2>a, <2>b DEF Detect
  <2>4. wdet' \in [Workers -> 1..(NumDetectors + 1)]
    BY <1>7, <1>t, <2>1 DEF Detect, PoolTypeOK
  <2>5. QED
    BY <1>7, <1>t, <2>3, <2>4 DEF Detect, PoolTypeOK, mainVars
<1>8. CASE SpawnLoopEnds \/ CloseJobs
  BY <1>8, <1>t DEF SpawnLoopEnds, CloseJobs, workerVars, PoolTypeOK
<1>12. CASE Feed
  BY <1>12, <1>t DEF Feed, workerVars, PoolTypeOK
<1>9. CASE Return \/ CloseResults
  BY <1>9, <1>t DEF Return, CloseResults, mainVars, workerVars, PoolTypeOK
<1>13. CASE Collect
  BY <1>13, <1>t DEF Collect, mainVars, workerVars, PoolTypeOK
<1>10. CASE Terminated \/ UNCHANGED poolVars
  BY <1>10, <1>t DEF Terminated, poolVars, PoolTypeOK
<1>11. QED
  BY <1>1, <1>2, <1>3, <1>4, <1>5, <1>6, <1>7, <1>8, <1>9, <1>10,
     <1>12, <1>13
     DEF PoolNext, MainStep, WorkerStep

(* Where the goroutines stand.  The closer closes results only once the    *)
(* WaitGroup is at zero, and at zero no worker is alive; a worker leaves   *)
(* only when jobs is closed and drained.                                   *)
LEMMA MainStepInv == IInv /\ [PoolNext]_poolVars => MainInv'
<1> SUFFICES ASSUME IInv, [PoolNext]_poolVars PROVE MainInv'
  OBVIOUS
<1>t. PoolTypeOK /\ MainInv /\ CountInv
  BY DEF IInv
<1>1. ASSUME NEW w \in Workers, Spawn(w) PROVE MainInv'
  BY <1>1, <1>t DEF Spawn, PoolTypeOK, MainInv, mainVars
<1>2. ASSUME NEW w \in Workers, TakeJob(w) PROVE MainInv'
  BY <1>2, <1>t DEF TakeJob, PoolTypeOK, MainInv, mainVars
<1>3. ASSUME NEW w \in Workers, Exit(w) PROVE MainInv'
  BY <1>3, <1>t DEF Exit, PoolTypeOK, MainInv, mainVars
<1>4. ASSUME NEW w \in Workers, SendResult(w) PROVE MainInv'
  <2>1. ~resultsClosed /\ wpc[w] # "exited" /\ main # "done"
    BY <1>4, <1>t DEF SendResult, Finished, MainInv, PoolTypeOK
  <2>2. QED
    BY <1>4, <1>t, <2>1 DEF SendResult, PoolTypeOK, MainInv, mainVars
<1>5. ASSUME NEW w \in Workers,
             ReadOK(w) \/ ReadError(w) \/ CheckGraph(w) \/ BuildGraph(w) \/ Detect(w)
      PROVE  MainInv'
  BY <1>5, <1>t DEF ReadOK, ReadError, CheckGraph, BuildGraph, Detect, PoolTypeOK,
                    MainInv, mainVars
<1>6. CASE CloseResults
  <2>1. Live = {}
    <3>1. IsFiniteSet(Live) /\ Cardinality(Live) = 0
      BY <1>6, <1>t, WorkerSetsFinite, Live \subseteq Workers
         DEF CloseResults, CountInv, Live
    <3>2. QED
      BY <3>1, FS_EmptySet
  <2>2. \A w \in Workers : wpc[w] = "exited"
    BY <1>6, <1>t, <2>1 DEF CloseResults, Live, MainInv
  <2>3. QED
    BY <1>6, <1>t, <2>2 DEF CloseResults, PoolTypeOK, MainInv, mainVars, workerVars
<1>7. CASE SpawnLoopEnds \/ Feed \/ CloseJobs
  BY <1>7, <1>t DEF SpawnLoopEnds, Feed, CloseJobs, PoolTypeOK, MainInv, workerVars
<1>8. CASE Collect \/ Return
  BY <1>8, <1>t DEF Collect, Return, PoolTypeOK, MainInv, mainVars, workerVars
<1>9. CASE Terminated \/ UNCHANGED poolVars
  BY <1>9, <1>t DEF Terminated, poolVars, mainVars, workerVars, MainInv
<1>10. QED
  BY <1>1, <1>2, <1>3, <1>4, <1>5, <1>6, <1>7, <1>8, <1>9
     DEF PoolNext, MainStep, WorkerStep

(* Where the files are.  A worker takes a file no one has received yet,    *)
(* and gives it up exactly when it appends its result.                     *)
LEMMA FilesStep == IInv /\ [PoolNext]_poolVars => FilesConserved'
<1> SUFFICES ASSUME IInv, [PoolNext]_poolVars PROVE FilesConserved'
  OBVIOUS
<1>t. PoolTypeOK /\ FilesConserved /\ Len(outbox) \in Nat /\ taken \in Nat
  BY DEF IInv, PoolTypeOK
<1> USE DEF FilesConserved, ReceivedAreKept, HeldAreUnreported, HoldersAreDisjoint,
            ResultsAreReceived, ResultsAreDistinct, InOutbox
<1>1. ASSUME UNCHANGED <<outbox, taken, wfile>>, Holders' = Holders
      PROVE  FilesConserved'
  BY <1>1, <1>t
<1>2. ASSUME NEW w \in Workers, TakeJob(w) PROVE FilesConserved'
  <2>1. /\ Holders' = Holders \cup {w} /\ w \notin Holders
        /\ taken' = taken + 1
        /\ wfile' = [wfile EXCEPT ![w] = taken + 1]
        /\ outbox' = outbox
    BY <1>2, <1>t DEF TakeJob, PoolTypeOK, Holders, Holding
  <2>2. wfile'[w] = taken + 1 /\ \A v \in Holders : v \in Workers /\ wfile'[v] = wfile[v]
    BY <2>1, <1>t DEF PoolTypeOK, Holders
  <2>3. ReceivedAreKept'
    <3> SUFFICES ASSUME NEW f \in 1..(taken + 1)
                 PROVE  InOutbox(f)' \/ \E v \in Holders' : wfile'[v] = f
      BY <2>1
    <3>1. CASE f = taken + 1
      BY <3>1, <2>1, <2>2
    <3>2. CASE f \in 1..taken
      BY <3>2, <2>1, <2>2, <1>t
    <3>3. QED
      BY <3>1, <3>2, <1>t
  <2>4. HeldAreUnreported'
    BY <2>1, <2>2, <1>t
  <2>5. HoldersAreDisjoint'
    BY <2>1, <2>2, <1>t
  <2>6. ResultsAreReceived' /\ ResultsAreDistinct'
    BY <2>1, <1>t
  <2>7. QED
    BY <2>3, <2>4, <2>5, <2>6
<1>3. ASSUME NEW w \in Workers, SendResult(w) PROVE FilesConserved'
  <2> DEFINE n == Len(outbox)
  <2>1. /\ Holders' = Holders \ {w} /\ w \in Holders
        /\ taken' = taken /\ wfile' = wfile
    BY <1>3, <1>t DEF SendResult, Finished, PoolTypeOK, Holders, Holding
  <2>2. /\ Len(outbox') = n + 1 /\ n \in Nat
        /\ \A i \in 1..n : outbox'[i] = outbox[i]
        /\ outbox'[n + 1].file = wfile[w]
    BY <1>3, <1>t, SendAppends
  <2> HIDE DEF n
  <2>3. \A i \in 1..(n + 1) : i \in 1..n \/ i = n + 1
    BY <2>2
  <2>m. n + 1 \in 1..(n + 1) /\ \A i \in 1..n : i \in 1..(n + 1)
    BY <2>2
  <2>o. /\ \A f \in 1..taken : (\E i \in 1..n : outbox[i].file = f)
                               \/ \E v \in Holders : wfile[v] = f
        /\ \A v \in Holders : wfile[v] \in 1..taken
                              /\ \A i \in 1..n : outbox[i].file # wfile[v]
        /\ \A u, v \in Holders : wfile[u] = wfile[v] => u = v
        /\ \A i \in 1..n : outbox[i].file \in 1..taken
        /\ \A i, j \in 1..n : outbox[i].file = outbox[j].file => i = j
    BY <1>t DEF n
  <2>4. \A f \in 1..taken : \/ \E i \in 1..(n + 1) : outbox'[i].file = f
                            \/ \E v \in Holders' : wfile[v] = f
    BY <2>1, <2>2, <2>m, <2>o
  <2>5. \A v \in Holders' : /\ wfile[v] \in 1..taken
                            /\ \A i \in 1..(n + 1) : outbox'[i].file # wfile[v]
    BY <2>1, <2>2, <2>3, <2>o
  <2>6. \A i \in 1..(n + 1) : outbox'[i].file \in 1..taken
    BY <2>1, <2>2, <2>3, <2>o
  <2>7. \A i, j \in 1..(n + 1) : outbox'[i].file = outbox'[j].file => i = j
    BY <2>1, <2>2, <2>3, <2>o
  <2>8. QED
    BY <2>1, <2>2, <2>4, <2>5, <2>6, <2>7, <2>o
<1>4. ASSUME NEW w \in Workers,
             \/ Spawn(w) \/ Exit(w)
             \/ ReadOK(w) \/ ReadError(w) \/ CheckGraph(w) \/ BuildGraph(w) \/ Detect(w)
      PROVE  FilesConserved'
  <2>1. Holders' = Holders /\ UNCHANGED <<outbox, taken, wfile>>
    BY <1>4, <1>t DEF Spawn, Exit, ReadOK, ReadError, CheckGraph, BuildGraph, Detect,
                      PoolTypeOK, Holders, Holding
  <2>2. QED
    BY <2>1, <1>1
<1>5. ASSUME \/ SpawnLoopEnds \/ Feed \/ CloseJobs \/ Collect \/ Return
             \/ CloseResults \/ Terminated \/ UNCHANGED poolVars
      PROVE  FilesConserved'
  <2>1. UNCHANGED <<wpc, outbox, taken, wfile>>
    BY <1>5 DEF SpawnLoopEnds, Feed, CloseJobs, Collect, Return, CloseResults,
                Terminated, poolVars, workerVars
  <2>2. Holders' = Holders
    BY <2>1 DEF Holders, Holding
  <2>3. QED
    BY <2>1, <2>2, <1>1
<1>6. QED
  BY <1>2, <1>3, <1>4, <1>5 DEF PoolNext, MainStep, WorkerStep

(* The shared graph.  A worker reaches "detect" only past the nil test or  *)
(* its own assignment, and never assigns once the project graph is there.  *)
LEMMA GraphStep == IInv /\ [PoolNext]_poolVars => GraphInv'
<1> SUFFICES ASSUME IInv, [PoolNext]_poolVars PROVE GraphInv'
  OBVIOUS
<1>t. PoolTypeOK /\ GraphInv /\ HeldAreUnreported /\ taken \in Nat /\ Len(outbox) \in Nat
  BY DEF IInv, FilesConserved, PoolTypeOK
<1>1. ASSUME NEW w \in Workers, TakeJob(w) PROVE GraphInv'
  <2>1. UNCHANGED <<graph, prebuilt, outbox>> /\ 1..taken \subseteq 1..taken'
    BY <1>1, <1>t DEF TakeJob
  <2>2. \A v \in Workers : /\ wpc'[v] \in {"detect", "build"} => wpc'[v] = wpc[v]
                           /\ wruns'[v] \subseteq wruns[v]
    BY <1>1, <1>t DEF TakeJob, PoolTypeOK
  <2>3. QED
    BY <2>1, <2>2, <1>t DEF GraphInv
<1>2. ASSUME NEW w \in Workers, SendResult(w) PROVE GraphInv'
  <2> DEFINE n == Len(outbox)
  <2>1. /\ Len(outbox') = n + 1 /\ n \in Nat
        /\ \A i \in 1..n : outbox'[i] = outbox[i]
        /\ outbox'[n + 1].runs = wruns[w]
    BY <1>2, <1>t, SendAppends
  <2>2. UNCHANGED <<taken, graph, prebuilt, wruns>>
    BY <1>2 DEF SendResult
  <2>3. wpc' = [wpc EXCEPT ![w] = "range"]
    BY <1>2 DEF SendResult
  <2>4. \A i \in 1..(n + 1) : i \in 1..n \/ i = n + 1
    BY <2>1
  <2> HIDE DEF n
  <2>5. \A i \in 1..(n + 1) :
           \/ outbox'[i].runs = wruns[w]
           \/ i \in 1..n /\ outbox'[i].runs = outbox[i].runs
    BY <2>1, <2>4
  <2>o. /\ prebuilt => \A i \in 1..n : \A r \in outbox[i].runs : r.graph = ListedFiles
        /\ ~prebuilt => \A i \in 1..n : \A r \in outbox[i].runs :
                          \E f \in 1..taken : r.graph = {f}
    BY <1>t DEF GraphInv, n
  <2>6. /\ prebuilt => \A i \in 1..(n + 1) : \A r \in outbox'[i].runs : r.graph = ListedFiles
        /\ ~prebuilt => \A i \in 1..(n + 1) : \A r \in outbox'[i].runs :
                          \E f \in 1..taken : r.graph = {f}
    BY <2>5, <2>o, <1>t DEF GraphInv
  <2>7. \A v \in Workers : /\ wpc'[v] = "detect" => graph # {}
                           /\ prebuilt => wpc'[v] # "build"
    BY <2>3, <1>t DEF GraphInv, PoolTypeOK
  <2>8. QED
    BY <2>1, <2>2, <2>6, <2>7, <1>t DEF GraphInv
<1>3. ASSUME NEW w \in Workers, CheckGraph(w) PROVE GraphInv'
  <2>1. w \in Holders /\ wfile[w] \in ListedFiles
    BY <1>3, <1>t DEF CheckGraph, Holders, Holding, HeldAreUnreported, PoolTypeOK, ListedFiles
  <2>2. ListedFiles # {}
    BY <2>1
  <2>3. QED
    BY <1>3, <1>t, <2>2 DEF CheckGraph, PoolTypeOK, GraphInv, mainVars
<1>4. ASSUME NEW w \in Workers, BuildGraph(w) PROVE GraphInv'
  <2>1. w \in Holders /\ wfile[w] \in 1..taken
    BY <1>4, <1>t DEF BuildGraph, Holders, Holding, HeldAreUnreported
  <2>2. ~prebuilt /\ graph' = {wfile[w]}
    BY <1>4, <1>t DEF BuildGraph, GraphInv
  <2>3. QED
    BY <1>4, <1>t, <2>1, <2>2 DEF BuildGraph, PoolTypeOK, GraphInv, mainVars
<1>5. ASSUME NEW w \in Workers, Detect(w) PROVE GraphInv'
  <2>1. UNCHANGED <<taken, graph, prebuilt, outbox, wpc>> /\ wpc[w] = "detect"
    BY <1>5 DEF Detect
  <2>2. \A v \in Workers : \A r \in wruns'[v] : r \in wruns[v] \/ r.graph = graph
    BY <1>5, <1>t DEF Detect, PoolTypeOK
  <2>3. graph # {}
    BY <2>1, <1>t DEF GraphInv
  <2>4. QED
    BY <1>t, <2>1, <2>2, <2>3 DEF GraphInv
<1>6. ASSUME NEW w \in Workers, Spawn(w) \/ Exit(w) \/ ReadOK(w) \/ ReadError(w)
      PROVE  GraphInv'
  <2>1. UNCHANGED <<taken, graph, prebuilt, outbox, wruns>>
    BY <1>6 DEF Spawn, Exit, ReadOK, ReadError
  <2>2. \A v \in Workers : /\ wpc'[v] = "detect" => wpc[v] = "detect"
                           /\ wpc'[v] = "build" => wpc[v] = "build"
    BY <1>6, <1>t DEF Spawn, Exit, ReadOK, ReadError, PoolTypeOK
  <2>3. QED
    BY <2>1, <2>2, <1>t DEF GraphInv
<1>7. ASSUME \/ SpawnLoopEnds \/ Feed \/ CloseJobs \/ Collect \/ Return
             \/ CloseResults \/ Terminated \/ UNCHANGED poolVars
      PROVE  GraphInv'
  <2>1. UNCHANGED <<wpc, taken, graph, prebuilt, outbox, wruns>>
    BY <1>7 DEF SpawnLoopEnds, Feed, CloseJobs, Collect, Return, CloseResults,
                Terminated, poolVars, workerVars
  <2>2. QED
    BY <2>1, <1>t DEF GraphInv
<1>8. QED
  BY <1>1, <1>2, <1>3, <1>4, <1>5, <1>6, <1>7 DEF PoolNext, MainStep, WorkerStep

LEMMA InitIInv == PoolInit => IInv
<1> SUFFICES ASSUME PoolInit PROVE IInv
  OBVIOUS
<1>1. Holders = {} /\ Live = {}
  BY DEF PoolInit, Holders, Holding, Live
<1>2. PoolTypeOK
  <2>1. outbox \in Seq(Result) /\ Len(outbox) = 0
    BY DEF PoolInit
  <2>2. wruns \in [Workers -> SUBSET DetectorRun] /\ graph \in SUBSET ListedFiles
    BY DEF PoolInit
  <2>3. wdet \in [Workers -> 1..(NumDetectors + 1)] /\ wg \in 0..NumWorkers
    BY DEF PoolInit
  <2>4. /\ wfile \in [Workers -> ListedFiles \cup {NoFile}]
        /\ wpc \in [Workers -> {"unspawned", "range", "read", "check", "build",
                                "detect", "failed", "exited"}]
    BY DEF PoolInit
  <2>5. sent \in 0..NumFiles /\ taken \in 0..NumFiles /\ received \in Nat /\ received <= 0
    BY DEF PoolInit
  <2>6. /\ main \in {"spawn", "feed", "collect", "done"}
        /\ jobsClosed \in BOOLEAN /\ resultsClosed \in BOOLEAN
        /\ prebuilt \in BOOLEAN
    BY DEF PoolInit
  <2>7. QED
    BY <2>1, <2>2, <2>3, <2>4, <2>5, <2>6 DEF PoolTypeOK
<1>3. MainInv
  BY DEF PoolInit, MainInv
<1>4. FilesConserved
  BY <1>1 DEF PoolInit, FilesConserved, ReceivedAreKept, HeldAreUnreported,
              HoldersAreDisjoint, ResultsAreReceived, ResultsAreDistinct
<1>5. CountInv
  BY <1>1, FS_EmptySet DEF PoolInit, CountInv
<1>6. GraphInv
  BY DEF PoolInit, GraphInv
<1>7. QED
  BY <1>2, <1>3, <1>4, <1>5, <1>6 DEF IInv

(* The strengthened invariant holds in every behaviour of the pool.        *)
THEOREM Inductive == Safe => []IInv
<1>1. IInv /\ [PoolNext]_poolVars => IInv'
  BY TypeStep, MainStepInv, FilesStep, CountStep, GraphStep DEF IInv
<1>2. QED
  BY InitIInv, <1>1, PTL DEF Safe

-----------------------------------------------------------------------------
(* The theorems a reader should know of.                                   *)

(* Types are kept: in particular the WaitGroup's counter never goes below  *)
(* zero, where Done would panic, and never above the number of workers.    *)
THEOREM PoolTypesKept == Safe => []PoolTypeOK
<1>1. IInv => PoolTypeOK
  BY DEF IInv
<1>2. QED
  BY <1>1, Inductive, PTL

(* No file is lost or doubled between the two channels and the workers.    *)
THEOREM NoFileLostOrDoubled == Safe => []FilesConserved
<1>1. IInv => FilesConserved
  BY DEF IInv
<1>2. QED
  BY <1>1, Inductive, PTL

(* A worker never sends on a closed results channel and never waits for    *)
(* room in it, so the collector may start as late as it likes.             *)
THEOREM SendsAreSafe == Safe => []SendNeverPanicsNorBlocks
<1>1. IInv => SendNeverPanicsNorBlocks
  <2> SUFFICES ASSUME IInv, NEW w \in Holders
               PROVE  ~resultsClosed /\ Len(outbox) - received < NumFiles
    BY DEF SendNeverPanicsNorBlocks
  <2>1. PoolTypeOK /\ MainInv /\ CountInv /\ Len(outbox) \in Nat
    BY DEF IInv, PoolTypeOK
  <2>2. ~resultsClosed
    BY <2>1 DEF MainInv, Holders, Holding
  <2>3. IsFiniteSet(Holders) /\ Cardinality(Holders) \in Nat
    BY WorkerSetsFinite, Holders \subseteq Workers DEF Holders
  <2>4. Cardinality(Holders) # 0
    BY <2>3, FS_EmptySet
  <2>5. QED
    BY <2>1, <2>2, <2>3, <2>4 DEF PoolTypeOK, CountInv
<1>2. QED
  BY <1>1, Inductive, PTL

LEMMA ReturnInv == IInv => ReturnsEverything
<1> SUFFICES ASSUME IInv, main = "done" PROVE ReturnsEverything
  BY DEF ReturnsEverything
<1>1. MainInv /\ FilesConserved
  BY DEF IInv
<1>2. resultsClosed /\ received = Len(outbox) /\ \A w \in Workers : wpc[w] = "exited"
  BY <1>1 DEF MainInv
<1>3. taken = NumFiles
  <2>1. 1 \in Workers
    BY DEF Workers
  <2>2. QED
    BY <2>1, <1>1, <1>2 DEF MainInv
<1>4. Holders = {}
  BY <1>2 DEF Holders, Holding
<1>5. \A f \in ListedFiles : InOutbox(f)
  BY <1>1, <1>3, <1>4 DEF FilesConserved, ReceivedAreKept, ListedFiles
<1>6. QED
  BY <1>1, <1>2, <1>5 DEF ReturnsEverything, FilesConserved, ResultsAreDistinct,
                          InOutbox

(* ScanFiles returns exactly one result per file, with every worker gone.  *)
THEOREM ReturnIsComplete == Safe => []ReturnsEverything
  BY ReturnInv, Inductive, PTL

(* A directory scan never loses the project graph to a lazy rebuild.       *)
THEOREM ProjectGraphNeverReplaced == Safe => []ProjectGraphKept
<1>1. IInv => ProjectGraphKept
  BY DEF IInv, GraphInv, ProjectGraphKept
<1>2. QED
  BY <1>1, Inductive, PTL

(* A scan without a project graph shows detectors the graph of one file.   *)
THEOREM LazyGraphIsSingleton == Safe => []LazyGraphIsOneFile
<1>1. IInv => LazyGraphIsOneFile
  BY DEF IInv, GraphInv, LazyGraphIsOneFile
<1>2. QED
  BY <1>1, Inductive, PTL

(* The pool implements its promise: a step reports at most one file, one   *)
(* not reported yet, or returns when all of them are.                      *)
THEOREM PoolKeepsPromise == Safe => Promise!Safe
<1> DEFINE reported == {outbox[i].file : i \in 1..received}
<1>1. PoolInit => Promise!Init
  BY DEF PoolInit, Promise!Init
<1>r. IInv' => ReturnsEverything'
  BY ReturnInv, PTL
<1>2. IInv /\ IInv' /\ [PoolNext]_poolVars => [Promise!Next]_(Promise!vars)
  <2> SUFFICES ASSUME IInv, IInv', [PoolNext]_poolVars
               PROVE  [Promise!Next]_(Promise!vars)
    OBVIOUS
  <2>t. PoolTypeOK /\ MainInv /\ FilesConserved /\ Len(outbox) \in Nat
    BY DEF IInv, PoolTypeOK
  <2> HIDE DEF reported
  <2>1. CASE Collect
    <3> DEFINE f == outbox[received + 1].file
    <3>1. /\ received \in Nat /\ received + 1 \in 1..Len(outbox)
          /\ received' = received + 1 /\ outbox' = outbox
          /\ main = "collect" /\ main' = main
      BY <2>1, <2>t DEF Collect, PoolTypeOK, mainVars
    <3>2. f \in ListedFiles
      BY <3>1, <2>t DEF FilesConserved, ResultsAreReceived, PoolTypeOK, ListedFiles
    <3>3. f \notin reported
      BY <3>1, <2>t DEF FilesConserved, ResultsAreDistinct, PoolTypeOK, reported
    <3>4. reported' = reported \cup {f}
      <4>1. 1..(received + 1) = (1..received) \cup {received + 1}
        BY <3>1
      <4>2. reported' = {outbox[i].file : i \in 1..(received + 1)}
        BY <3>1 DEF reported
      <4>3. QED
        BY <4>1, <4>2 DEF reported
    <3> HIDE DEF f
    <3>5. Promise!Report(f)
      BY <3>1, <3>3, <3>4 DEF Promise!Report, reported
    <3>6. \E g \in ListedFiles : Promise!Report(g)
      BY <3>2, <3>5 DEF Promise!Report
    <3>7. QED
      BY <3>6 DEF Promise!Next
  <2>2. CASE Return
    <3>1. /\ main = "collect" /\ main' = "done" /\ outbox' = outbox
          /\ received' = received /\ received = Len(outbox)
      BY <2>2 DEF Return
    <3>2. \A g \in ListedFiles : \E i \in 1..Len(outbox) : outbox[i].file = g
      BY <3>1, <1>r DEF ReturnsEverything
    <3>3. \A i \in 1..Len(outbox) : outbox[i].file \in ListedFiles
      BY <2>t DEF FilesConserved, ResultsAreReceived, PoolTypeOK, ListedFiles
    <3>4. reported = ListedFiles /\ reported' = reported
      BY <3>1, <3>2, <3>3 DEF reported
    <3>5. Promise!Return
      BY <3>1, <3>4 DEF Promise!Return, reported
    <3>6. QED
      BY <3>5 DEF Promise!Next
  <2>3. ASSUME NEW w \in Workers, SendResult(w)
        PROVE  UNCHANGED Promise!vars
    <3>0. /\ received \in Nat /\ received <= Len(outbox)
          /\ received' = received /\ main' = main
      BY <2>3, <2>t DEF SendResult, PoolTypeOK, mainVars
    <3>a. \A i \in 1..Len(outbox) : outbox'[i] = outbox[i]
      BY <2>3, <2>t, SendAppends DEF FilesConserved
    <3>1. /\ received' = received /\ main' = main
          /\ \A i \in 1..received : outbox'[i] = outbox[i]
      BY <3>0, <3>a, <2>t
    <3>2. reported' = reported
      BY <3>1 DEF reported
    <3>3. QED
      BY <3>1, <3>2 DEF Promise!vars, reported
  <2>4. ASSUME UNCHANGED <<outbox, received>>, main' = "done" <=> main = "done"
        PROVE  UNCHANGED Promise!vars
    BY <2>4 DEF Promise!vars
  <2>5. ASSUME NEW w \in Workers,
               \/ Spawn(w) \/ TakeJob(w) \/ Exit(w)
               \/ ReadOK(w) \/ ReadError(w) \/ CheckGraph(w) \/ BuildGraph(w) \/ Detect(w)
        PROVE  UNCHANGED Promise!vars
    BY <2>4, <2>5 DEF Spawn, TakeJob, Exit, ReadOK, ReadError, CheckGraph, BuildGraph,
                      Detect, mainVars
  <2>6. ASSUME \/ SpawnLoopEnds \/ Feed \/ CloseJobs \/ CloseResults
               \/ Terminated \/ UNCHANGED poolVars
        PROVE  UNCHANGED Promise!vars
    BY <2>4, <2>6 DEF SpawnLoopEnds, Feed, CloseJobs, CloseResults, Terminated, poolVars,
                      mainVars
  <2>7. QED
    BY <2>1, <2>2, <2>3, <2>5, <2>6 DEF PoolNext, MainStep, WorkerStep
<1>3. QED
  BY <1>1, <1>2, Inductive, PTL DEF Safe, Promise!Safe

\* ScanFiles loses no file and doubles none, for every number of files and workers.
THEOREM NothingIsLost == Safe => []NothingLost
<1>1. FilesConserved /\ ReturnsEverything => NothingLost  BY DEF NothingLost
<1>. QED  BY <1>1, NoFileLostOrDoubled, ReturnIsComplete, PTL

\* Whether the shared inheritance graph was built before the scan or by a worker, a
\* detector sees the whole project's or that of one received file (AnalyzeFile).
THEOREM GraphIsKept == Safe => []GraphKept
<1>1. ProjectGraphKept /\ LazyGraphIsOneFile => GraphKept  BY DEF GraphKept
<1>. QED  BY <1>1, ProjectGraphNeverReplaced, LazyGraphIsSingleton, PTL
==============================================================================
