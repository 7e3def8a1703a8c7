------------------------- MODULE ReadingAndGateProofs -------------------------
(***************************************************************************)
(* The two ends of a scan: the lines a detector takes for a function, and  *)
(* the exit code its findings give.  They share no state.                  *)
(*                                                                         *)
(* The readers of ContractParser, for every style of files.  The grammar   *)
(* places every line (Moves) and says what it does to the functions and    *)
(* modifiers of the file (Effects).  On that rest the count of the braces  *)
(* (CountInv) and one invariant for each reader: what it has finished are  *)
(* the functions that are complete, and what it has open is the one that   *)
(* is not (ParserInv, CutInv, PartInv, GatherData).                        *)
(*                                                                         *)
(* The gate of BaselineGate, for every project, every sequence of commands *)
(* and events, and any number of sessions.  Its properties speak of a      *)
(* command that is over.  They rest on three things that hold all along:   *)
(* what a command has seen is named as its route names it (RuleInv), every *)
(* key of a baseline is that of the issue it was computed from (KeyInv),   *)
(* and an exit code stays the one the diff with the loaded baseline gave   *)
(* (ExitInv).                                                              *)
(***************************************************************************)
EXTENDS BaselineGate, SourceDetectors, FiniteSetTheorems, SequenceTheorems,
        WellFoundedInduction, TLAPS

-----------------------------------------------------------------------------
(* BaselineGate: the keys of findings *)

\* The keys of b are those of their issues; with one spelling there is only one.
Keyed(b) ==
  \A r \in b :
    /\ r.key.print = r.issue.print
    /\ r.key.named = "rule"
    /\ r.key.path # Dot => r.key.path.file = r.issue.file
    /\ Spellings = {"relative"} => r.key.path = [spelled |-> "typed", file |-> r.issue.file]

\* What a session may hold in its phase.
CmdInv ==
  \A s \in Sessions :
    /\ pc[s] = "finish" => cmd[s].name = "scan"
    /\ pc[s] = "analyze" => cmd[s].name # "remove"
    /\ pc[s] \in {"truncate", "write"} => cmd[s].name # "scan"

RuleInv ==
  \A s \in Sessions :
    /\ pc[s] \in {"finish", "truncate", "write", "exited"}
    /\ cmd[s].name # "remove"
    /\ cmd[s].mode = "full"
    => \A x \in seen[s] : x.named = "rule"

KeyInv ==
  /\ baseline \notin {Missing, Torn} => Keyed(baseline)
  /\ \A s \in Sessions : loaded[s] \notin {Missing, Torn, NotLoaded} => Keyed(loaded[s])

ExitInv ==
  \A s \in Sessions : Gated(s) =>
    /\ exit[s] = GatedExit(s, loaded[s])
    /\ \/ loaded[s] \in {Missing, Torn}
       \/ loaded[s] \in Baselines /\ Keyed(loaded[s])

IInv == TypeOK /\ CmdInv /\ RuleInv /\ KeyInv /\ ExitInv

-----------------------------------------------------------------------------
(* What the helpers return. *)

\* Every file has a path, which is Dot or its own.
LEMMA PathType ==
  ASSUME NEW c, NEW f \in Files
  PROVE  /\ PathOf(c, f) \in Paths
         /\ PathOf(c, f) # Dot => PathOf(c, f).file = f
BY DotAssumption DEF PathOf, Paths

\* An analysis returns findings, named by their rule in a full scan.
LEMMA AnalysisType ==
  ASSUME TypeOK, NEW c
  PROVE  /\ Analysed(c) \subseteq Findings
         /\ c.mode = "full" => \A x \in Analysed(c) : x.named = "rule"
<1>1. ASSUME NEW f \in Files, NEW min PROVE Fresh(f, min) \subseteq Issues
  BY DEF TypeOK, Fresh, IssuesIn
<1>2. ASSUME NEW f \in Reused(c) PROVE f \in Files /\ cached[f].findings \subseteq Issues
  <2>1. f \in Files /\ cached[f] # NoEntry
    BY DEF Reused, Hit, Scope
  <2>2. cached[f] \in CacheEntries
    BY <2>1 DEF TypeOK
  <2>. QED  BY <2>1, <2>2 DEF CacheEntries
<1>3. Read(c) \subseteq Files
  BY DEF Read, Scope
<1>4. c.mode = "full" => Reused(c) = {}
  BY DEF Reused, Hit
<1>. QED  BY <1>1, <1>2, <1>3, <1>4 DEF Analysed, Findings

\* What create and update record has the keys of its issues.
LEMMA RecordedKeyed ==
  ASSUME NEW c \in Commands, c.name \in {"create", "update"},
         NEW xs \in SUBSET Findings, \A x \in xs : x.named = "rule"
  PROVE  Recorded(c, xs) \in Baselines /\ Keyed(Recorded(c, xs))
<1>1. c.mode = "full" /\ c.typed \in Spellings
  BY DEF Commands
<1>2. ASSUME NEW x \in xs
      PROVE  /\ x.issue \in Issues /\ x.issue.file \in Files /\ x.issue.print \in Prints
             /\ Key(c, x) \in Keys
             /\ Key(c, x).print = x.issue.print
             /\ Key(c, x).named = "rule"
             /\ Key(c, x).path = PathOf(c, x.issue.file)
  <2>1. x.issue \in Issues /\ x.named = "rule"
    BY DEF Findings
  <2>2. x.issue.file \in Files /\ x.issue.print \in Prints
    BY <2>1, IssuesAssumption
  <2>. QED  BY <2>1, <2>2, PathType DEF Key, Keys
<1>3. ASSUME NEW x \in xs, Spellings = {"relative"}
      PROVE  PathOf(c, x.issue.file) = [spelled |-> "typed", file |-> x.issue.file]
  BY <1>1, <1>3 DEF PathOf
<1>4. Recorded(c, xs) \in Baselines
  BY <1>2 DEF Recorded, Baselines
<1>5. ASSUME NEW r \in Recorded(c, xs)
      PROVE  /\ r.key.print = r.issue.print
             /\ r.key.named = "rule"
             /\ r.key.path # Dot => r.key.path.file = r.issue.file
             /\ Spellings = {"relative"} =>
                  r.key.path = [spelled |-> "typed", file |-> r.issue.file]
  <2>1. PICK x \in xs : r = [key |-> Key(c, x), issue |-> x.issue]
    BY DEF Recorded
  <2>2. r.key = Key(c, x) /\ r.issue = x.issue
    BY <2>1
  <2>. QED  BY <1>2, <1>3, <2>2, PathType
<1>. QED  BY <1>4, <1>5 DEF Keyed

-----------------------------------------------------------------------------
(* What a scan compares. *)

\* A scan's paths are those of its files.
LEMMA ScanPath ==
  ASSUME NEW c, c.name = "scan", NEW f \in Files
  PROVE  PathOf(c, f) # Dot
BY DotAssumption DEF PathOf

\* What update starts from has the keys of its issues.
LEMMA BaseKeyed ==
  ASSUME TypeOK, KeyInv, NEW s \in Sessions
  PROVE  Base(s) \in Baselines /\ Keyed(Base(s))
<1>1. CASE loaded[s] \in {Missing, Torn, NotLoaded}
  BY <1>1 DEF Base, Baselines, Keyed
<1>2. CASE loaded[s] \notin {Missing, Torn, NotLoaded}
  BY <1>2 DEF Base, TypeOK, KeyInv
<1>. QED  BY <1>1, <1>2

\* And so has what a command saves.
LEMMA WrittenKeyed ==
  ASSUME IInv, NEW s \in Sessions, pc[s] \in {"truncate", "write"}
  PROVE  Written(s) \in Baselines /\ Keyed(Written(s))
<1>. DEFINE r == Recorded(cmd[s], seen[s])
<1>1. Base(s) \in Baselines /\ Keyed(Base(s))
  BY BaseKeyed DEF IInv
<1>2. CASE cmd[s].name = "remove"
  BY <1>1, <1>2 DEF Written
<1>3. CASE cmd[s].name # "remove"
  <2>1. cmd[s] \in Commands /\ cmd[s].name # "scan" /\ seen[s] \in SUBSET Findings
    BY DEF IInv, TypeOK, CmdInv
  <2>2. cmd[s].name \in {"create", "update"} /\ cmd[s].mode = "full"
    BY <2>1, <1>3 DEF Commands
  <2>3. \A x \in seen[s] : x.named = "rule"
    BY <2>2, <1>3 DEF IInv, RuleInv
  <2>4. r \in Baselines /\ Keyed(r)
    BY <2>1, <2>2, <2>3, RecordedKeyed
  <2>5. Base(s) \cup r \in Baselines
    BY <1>1, <2>4 DEF Baselines
  <2>6. Keyed(Base(s) \cup r)
    BY <1>1, <2>4 DEF Keyed
  <2>. QED  BY <1>3, <2>5, <2>6 DEF Written
<1>. QED  BY <1>2, <1>3

\* The exit code of the diff depends on what the session holds alone.
LEMMA ExitFrame ==
  ASSUME NEW s \in Sessions, cmd'[s] = cmd[s], seen'[s] = seen[s],
         loaded'[s] = loaded[s]
  PROVE  GatedExit(s, loaded[s])' = GatedExit(s, loaded[s])
BY DEF GatedExit, AboveThreshold, New, Kept

-----------------------------------------------------------------------------
(* The invariant holds at first ... *)

LEMMA Initially == Init => IInv
<1>. SUFFICES ASSUME Init PROVE IInv
  OBVIOUS
<1>1. TypeOK
  <2>1. NoCommand \in Commands
    BY DEF NoCommand, Commands
  <2>. QED  BY <2>1, BoundsAssumption DEF Init, TypeOK
<1>2. CmdInv /\ RuleInv /\ ExitInv
  BY DEF Init, CmdInv, RuleInv, ExitInv, Gated
<1>3. KeyInv
  BY DEF Init, KeyInv
<1>. QED  BY <1>1, <1>2, <1>3 DEF IInv

\* ... and a step that leaves the sessions but s, and the baseline, alone keeps
\* all but the types, when it leaves s in order.
LEMMA OneSession ==
  ASSUME IInv, NEW s \in Sessions,
         pc' = [pc EXCEPT ![s] = pc'[s]],
         cmd' = [cmd EXCEPT ![s] = cmd'[s]],
         seen' = [seen EXCEPT ![s] = seen'[s]],
         loaded' = [loaded EXCEPT ![s] = loaded'[s]],
         exit' = [exit EXCEPT ![s] = exit'[s]],
         baseline' \notin {Missing, Torn} => Keyed(baseline'),
         pc'[s] = "finish" => cmd'[s].name = "scan",
         pc'[s] = "analyze" => cmd'[s].name # "remove",
         pc'[s] \in {"truncate", "write"} => cmd'[s].name # "scan",
         /\ pc'[s] \in {"finish", "truncate", "write", "exited"}
         /\ cmd'[s].name # "remove"
         /\ cmd'[s].mode = "full"
         => \A x \in seen'[s] : x.named = "rule",
         loaded'[s] \notin {Missing, Torn, NotLoaded} => Keyed(loaded'[s]),
         Gated(s)' =>
           /\ exit'[s] = GatedExit(s, loaded[s])'
           /\ \/ loaded'[s] \in {Missing, Torn}
              \/ loaded'[s] \in Baselines /\ Keyed(loaded'[s])
  PROVE  CmdInv' /\ RuleInv' /\ KeyInv' /\ ExitInv'
<1>1. ASSUME NEW t \in Sessions, t # s
      PROVE  /\ pc'[t] = pc[t] /\ cmd'[t] = cmd[t] /\ seen'[t] = seen[t]
             /\ loaded'[t] = loaded[t] /\ exit'[t] = exit[t]
  BY <1>1 DEF IInv, TypeOK
<1>2. CmdInv'
  BY <1>1 DEF IInv, CmdInv
<1>3. RuleInv'
  BY <1>1 DEF IInv, RuleInv
<1>4. KeyInv'
  BY <1>1 DEF IInv, KeyInv, Keyed
<1>5. ExitInv'
  <2>. SUFFICES ASSUME NEW t \in Sessions, t # s, Gated(t)'
                PROVE  /\ exit'[t] = GatedExit(t, loaded[t])'
                       /\ \/ loaded'[t] \in {Missing, Torn}
                          \/ loaded'[t] \in Baselines /\ Keyed(loaded'[t])
    BY DEF ExitInv, Keyed
  <2>1. Gated(t)
    BY <1>1 DEF Gated
  <2>2. GatedExit(t, loaded[t])' = GatedExit(t, loaded[t])
    BY <1>1, ExitFrame
  <2>. QED  BY <1>1, <2>1, <2>2 DEF IInv, ExitInv
<1>. QED  BY <1>2, <1>3, <1>4, <1>5

-----------------------------------------------------------------------------
(* ... and every step keeps it. *)

\* A step keeps the types.
LEMMA TypesStep == IInv /\ [Next]_vars => TypeOK'
<1>. SUFFICES ASSUME IInv, [Next]_vars PROVE TypeOK'
  OBVIOUS
<1>. USE BoundsAssumption DEF IInv
<1>0. NoCommand \in Commands /\ [name |-> "remove"] \in Commands
  BY DEF NoCommand, Commands
<1>1. ASSUME NEW s \in Sessions, NEW c \in Commands, Start(s, c) PROVE TypeOK'
  BY <1>1 DEF TypeOK, Start
<1>2. ASSUME NEW s \in Sessions, NEW k \in KeysIn(baseline), baseline \notin {Missing, Torn},
             Remove(s, k)
      PROVE TypeOK'
  <2>1. {r \in baseline : r.key # k} \in Baselines
    BY <1>2 DEF TypeOK, Baselines
  <2>. QED  BY <1>0, <1>2, <2>1 DEF TypeOK, Remove
<1>3. ASSUME NEW s \in Sessions, Analyze(s) PROVE TypeOK'
  <2>1. Analysed(cmd[s]) \subseteq Findings
    BY AnalysisType
  <2>2. cached' \in [Files -> CacheEntries \cup {NoEntry}]
    BY <1>3 DEF Analyze, TypeOK, CacheEntries, IssuesIn, Fresh
  <2>3. pc' \in [Sessions -> {"idle", "analyze", "finish", "truncate", "write", "exited"}]
    BY <1>3 DEF Analyze, TypeOK
  <2>4. seen' \in [Sessions -> SUBSET Findings] /\ erred' \in [Sessions -> BOOLEAN]
    BY <1>3, <2>1 DEF Analyze, TypeOK
  <2>. QED  BY <1>3, <2>2, <2>3, <2>4 DEF TypeOK, Analyze
<1>4. ASSUME NEW s \in Sessions, Finish(s) PROVE TypeOK'
  <2>1. GatedExit(s, baseline) \in {0, 1} /\ PlainExit(s) \in {0, 1, 2}
    BY DEF GatedExit, PlainExit
  <2>. QED  BY <1>4, <2>1 DEF TypeOK, Finish
<1>5. ASSUME NEW s \in Sessions, Settle(s) \/ Truncate(s) PROVE TypeOK'
  BY <1>5 DEF TypeOK, Settle, Truncate, Exit
<1>6. ASSUME NEW s \in Sessions, Write(s) PROVE TypeOK'
  <2>1. Written(s) \in Baselines
    BY <1>6, WrittenKeyed DEF Write
  <2>. QED  BY <1>6, <2>1 DEF TypeOK, Write, Exit
<1>7. ASSUME NEW s \in Sessions, Leave(s) \/ Kill(s) PROVE TypeOK'
  <2>1. Forget(s) /\ events' \in 0..MaxEvents
    BY <1>7 DEF TypeOK, Leave, Kill, Event
  <2>2. /\ pc' \in [Sessions -> {"idle", "analyze", "finish", "truncate", "write", "exited"}]
        /\ exit' \in [Sessions -> {0, 1, 2, NoExit}]
    BY <2>1 DEF TypeOK, Forget
  <2>3. /\ cmd' \in [Sessions -> Commands]
        /\ seen' \in [Sessions -> SUBSET Findings] /\ erred' \in [Sessions -> BOOLEAN]
        /\ loaded' \in [Sessions -> Baselines \cup {Missing, Torn, NotLoaded}]
    BY <1>0, <2>1 DEF TypeOK, Forget
  <2>. QED  BY <2>1, <2>2, <2>3 DEF TypeOK, Forget
<1>8. ASSUME NEW i \in Issues, Edit(i) PROVE TypeOK'
  BY <1>8 DEF TypeOK, Edit, Event
<1>9. ASSUME NEW f \in Files, Forbid(f) PROVE TypeOK'
  BY <1>9 DEF TypeOK, Forbid, Event
<1>10. CASE UNCHANGED vars
  BY <1>10 DEF TypeOK, vars
<1>. QED
  BY <1>1, <1>2, <1>3, <1>4, <1>5, <1>6, <1>7, <1>8, <1>9, <1>10
  DEF Next, Exhausted

\* A step keeps the rest.
LEMMA OrderStep == IInv /\ [Next]_vars => CmdInv' /\ RuleInv' /\ KeyInv' /\ ExitInv'
<1>. DEFINE Order == CmdInv /\ RuleInv /\ KeyInv /\ ExitInv
<1>. SUFFICES ASSUME IInv, [Next]_vars PROVE Order'
  OBVIOUS
<1>a. KeyInv /\ TypeOK /\ CmdInv /\ RuleInv
  BY DEF IInv
<1>1. ASSUME NEW s \in Sessions, NEW c \in Commands, c.name # "remove", Start(s, c)
      PROVE  Order'
  <2>1. cmd'[s] = c /\ pc'[s] = "analyze"
    BY <1>1, <1>a DEF Start, TypeOK
  <2>2. loaded'[s] \in {baseline, NotLoaded}
    BY <1>1, <1>a DEF Start, TypeOK
  <2>3. ~Gated(s)'
    BY <2>1 DEF Gated
  <2>. HIDE DEF Order
  <2>. QED
    BY <1>1, <1>a, <2>1, <2>2, <2>3, OneSession DEF Order, Start, TypeOK, KeyInv
<1>2. ASSUME NEW s \in Sessions, NEW k \in KeysIn(baseline), baseline \notin {Missing, Torn},
             Remove(s, k)
      PROVE  Order'
  <2>1. cmd'[s].name = "remove" /\ pc'[s] = "truncate"
    BY <1>2, <1>a DEF Remove, TypeOK
  <2>2. Keyed(loaded'[s])
    BY <1>2, <1>a DEF Remove, TypeOK, KeyInv, Keyed
  <2>3. ~Gated(s)'
    BY <2>1 DEF Gated
  <2>. QED
    BY <1>2, <1>a, <2>1, <2>2, <2>3, OneSession DEF Remove, TypeOK, KeyInv
<1>3. ASSUME NEW s \in Sessions, Analyze(s) PROVE Order'
  <2>1. /\ cmd'[s] = cmd[s] /\ loaded'[s] = loaded[s]
        /\ pc'[s] = IF cmd[s].name = "scan" THEN "finish" ELSE "truncate"
        /\ seen'[s] = Analysed(cmd[s])
    BY <1>3, <1>a DEF Analyze, TypeOK
  <2>2. cmd'[s].mode = "full" => \A x \in seen'[s] : x.named = "rule"
    BY <1>a, <2>1, AnalysisType
  <2>3. ~Gated(s)'
    BY <2>1 DEF Gated
  <2>. QED
    BY <1>3, <1>a, <2>1, <2>2, <2>3, OneSession DEF Analyze, TypeOK, KeyInv
<1>4. ASSUME NEW s \in Sessions, Finish(s) PROVE Order'
  <2>1. /\ cmd'[s] = cmd[s] /\ seen'[s] = seen[s] /\ pc'[s] = "exited" /\ pc[s] = "finish"
        /\ exit'[s] = IF cmd[s].gated THEN GatedExit(s, baseline) ELSE PlainExit(s)
        /\ loaded'[s] = IF cmd[s].gated THEN baseline ELSE NotLoaded
    BY <1>4, <1>a DEF Finish, TypeOK
  <2>2. ASSUME Gated(s)'
        PROVE  /\ exit'[s] = GatedExit(s, loaded[s])'
               /\ \/ loaded'[s] \in {Missing, Torn}
                  \/ loaded'[s] \in Baselines /\ Keyed(loaded'[s])
    <3>1. exit'[s] = GatedExit(s, baseline) /\ loaded'[s] = baseline
      BY <2>1, <2>2 DEF Gated
    <3>2. GatedExit(s, loaded[s])' = GatedExit(s, baseline)
      BY <2>1, <3>1 DEF GatedExit, AboveThreshold, New, Kept
    <3>. QED  BY <1>a, <3>1, <3>2 DEF TypeOK, KeyInv
  <2>3. cmd[s].name # "remove" /\ cmd[s].mode = "full" => \A x \in seen'[s] : x.named = "rule"
    BY <1>a, <2>1 DEF RuleInv
  <2>4. baseline' = baseline
    BY <1>4 DEF Finish
  <2>. QED
    BY <1>4, <1>a, <2>1, <2>2, <2>3, <2>4, OneSession DEF Finish, TypeOK, KeyInv, CmdInv
<1>5. ASSUME NEW s \in Sessions, Settle(s) \/ Truncate(s) \/ Write(s) PROVE Order'
  <2>1. /\ cmd'[s] = cmd[s] /\ loaded'[s] = loaded[s] /\ seen'[s] = seen[s]
        /\ pc'[s] \in {"write", "exited"} /\ pc[s] \in {"truncate", "write"}
    BY <1>5, <1>a DEF Settle, Truncate, Write, Exit, TypeOK
  <2>2. cmd'[s].name # "scan"
    BY <1>a, <2>1 DEF CmdInv
  <2>3. ~Gated(s)'
    BY <2>2 DEF Gated
  <2>4. cmd'[s].name # "remove" /\ cmd'[s].mode = "full" => \A x \in seen'[s] : x.named = "rule"
    BY <1>a, <2>1 DEF RuleInv
  <2>5. baseline' \notin {Missing, Torn} => Keyed(baseline')
    BY <1>5, <1>a, WrittenKeyed DEF Settle, Truncate, Write, KeyInv
  <2>6. /\ pc' = [pc EXCEPT ![s] = pc'[s]] /\ exit' = [exit EXCEPT ![s] = exit'[s]]
        /\ cmd' = [cmd EXCEPT ![s] = cmd'[s]] /\ seen' = [seen EXCEPT ![s] = seen'[s]]
        /\ loaded' = [loaded EXCEPT ![s] = loaded'[s]]
    BY <1>5, <1>a DEF Settle, Truncate, Write, Exit, TypeOK
  <2>7. loaded'[s] \notin {Missing, Torn, NotLoaded} => Keyed(loaded'[s])
    BY <1>a, <2>1 DEF KeyInv
  <2>. QED
    BY <2>1, <2>2, <2>3, <2>4, <2>5, <2>6, <2>7, OneSession
<1>6. ASSUME NEW s \in Sessions, Leave(s) \/ Kill(s) PROVE Order'
  <2>1. Forget(s)
    BY <1>6 DEF Leave, Kill
  <2>2. pc'[s] = "idle" /\ cmd'[s] = NoCommand /\ loaded'[s] = NotLoaded
    BY <2>1, <1>a DEF Forget, TypeOK
  <2>3. ~Gated(s)'
    BY <2>2 DEF Gated
  <2>. QED
    BY <1>a, <2>1, <2>2, <2>3, OneSession DEF Forget, TypeOK, KeyInv
<1>7. CASE UNCHANGED <<baseline, pc, cmd, seen, loaded, exit>>
  <2>1. \A s \in Sessions : GatedExit(s, loaded[s])' = GatedExit(s, loaded[s])
    BY <1>7, ExitFrame
  <2>2. \A s \in Sessions : Gated(s)' = Gated(s)
    BY <1>7 DEF Gated
  <2>3. CmdInv' /\ RuleInv'
    BY <1>7, <1>a DEF CmdInv, RuleInv
  <2>4. KeyInv'
    BY <1>7, <1>a DEF KeyInv, Keyed
  <2>5. ExitInv'
    BY <1>7, <2>1, <2>2 DEF IInv, ExitInv, Keyed
  <2>. QED  BY <2>3, <2>4, <2>5
<1>. QED
  BY <1>1, <1>2, <1>3, <1>4, <1>5, <1>6, <1>7
  DEF Next, Edit, Forbid, Exhausted, vars

LEMMA Inductive == Spec => []IInv
<1>1. IInv /\ [Next]_vars => IInv'
  BY TypesStep, OrderStep DEF IInv
<1>. QED  BY Initially, <1>1, PTL DEF Spec

-----------------------------------------------------------------------------
(* The results. *)

\* Type correctness.
THEOREM TypesKept == Spec => []TypeOK
<1>1. IInv => TypeOK
  BY DEF IInv
<1>. QED  BY Inductive, <1>1, PTL

\* A baseline that is missing or torn never opens the gate, in any mode and with
\* any spelling.
THEOREM TornNeverOpens == Spec => []TornNeverPasses
<1>1. IInv => TornNeverPasses
  BY DEF IInv, ExitInv, TornNeverPasses, GatedExit
<1>. QED  BY Inductive, <1>1, PTL

\* The gate of a full scan lets nothing new through, however targets are typed:
\* a finding it passes has the key of one recorded for the same file.
LEMMA NothingNewPasses == IInv => FullScanCatchesNew
<1>. SUFFICES ASSUME IInv,
                     NEW s \in Sessions, Gated(s), cmd[s].mode = "full", exit[s] = 0,
                     NEW x \in seen[s], Counts(s, x.issue)
              PROVE  \E i \in Accepted(loaded[s]) :
                       i.print = x.issue.print /\ i.file = x.issue.file
  BY DEF FullScanCatchesNew
<1>1. /\ loaded[s] \notin {Missing, Torn} /\ Keyed(loaded[s])
      /\ ~AboveThreshold(s, New(s, loaded[s]))
  BY DEF IInv, ExitInv, GatedExit
<1>2. x.named = "rule"
  BY DEF IInv, RuleInv, Gated
<1>3. x \in Kept(s) /\ Severity(x) >= cmd[s].failOn
  BY <1>2 DEF Kept, Ignored, Severity, Counts
<1>4. Key(cmd[s], x) \in KeysIn(loaded[s])
  BY <1>1, <1>3 DEF AboveThreshold, New
<1>5. PICK r \in loaded[s] : r.key = Key(cmd[s], x)
  BY <1>4 DEF KeysIn
<1>6. x.issue.file \in Files
  BY IssuesAssumption DEF IInv, TypeOK, Findings
<1>7. r.key.path # Dot /\ r.key.path.file = x.issue.file /\ r.key.print = x.issue.print
  BY <1>5, <1>6, ScanPath, PathType DEF Key, Gated
<1>. QED  BY <1>1, <1>5, <1>7 DEF Keyed, Accepted

\* The gate is exact for full scans when every command spells its targets
\* relative to the project, as CI scripts do.
THEOREM GateIsExact ==
  ASSUME Spellings = {"relative"}
  PROVE  Spec => []FullScanGatesNew
<1>1. IInv => FullScanOnlyNewBreaks
  <2>. SUFFICES ASSUME IInv, NEW s \in Sessions, Gated(s), cmd[s].mode = "full",
                       exit[s] = 1, loaded[s] \notin {Missing, Torn}
                PROVE  \E x \in seen[s] :
                         Counts(s, x.issue) /\ x.issue \notin Accepted(loaded[s])
    BY DEF FullScanOnlyNewBreaks
  <2>1. /\ loaded[s] \in Baselines /\ Keyed(loaded[s])
        /\ AboveThreshold(s, New(s, loaded[s]))
    BY DEF IInv, ExitInv, GatedExit
  <2>2. PICK x \in New(s, loaded[s]) : Severity(x) >= cmd[s].failOn
    BY <2>1 DEF AboveThreshold
  <2>3. x \in seen[s] /\ ~Ignored(x) /\ Key(cmd[s], x) \notin KeysIn(loaded[s])
    BY <2>2 DEF New, Kept
  <2>4. x.named = "rule"
    BY <2>3 DEF IInv, RuleInv, Gated
  <2>5. Counts(s, x.issue)
    BY <2>2, <2>3, <2>4 DEF Counts, Severity, Ignored
  <2>6. cmd[s].typed = "relative"
    BY DEF IInv, TypeOK, Commands, Gated
  <2>7. PathOf(cmd[s], x.issue.file) = [spelled |-> "typed", file |-> x.issue.file]
    BY <2>6 DEF PathOf
  <2>8. ASSUME NEW r \in loaded[s], r.issue = x.issue PROVE FALSE
    <3>1. r.key \in Keys
      BY <2>1 DEF Baselines
    <3>2. /\ r.key.print = x.issue.print /\ r.key.named = "rule"
          /\ r.key.path = PathOf(cmd[s], x.issue.file)
      BY <2>1, <2>7, <2>8 DEF Keyed
    <3>3. r.key = Key(cmd[s], x)
      BY <3>1, <3>2, <2>4 DEF Keys, Key
    <3>. QED  BY <2>3, <3>3 DEF KeysIn
  <2>. QED  BY <2>3, <2>5, <2>8 DEF Accepted
<1>2. IInv => FullScanGatesNew
  BY <1>1, NothingNewPasses DEF FullScanGatesNew
<1>. QED  BY Inductive, <1>2, PTL

-----------------------------------------------------------------------------
(* ContractParser: what can be open in a file *)

\* What can be open
ScopeKinds == {"contract", "header", "function", "signature", "modifier", "constructor",
               "constructorHead", "block", "assembly"}
MemberScopes == {"function", "signature", "modifier", "constructor", "constructorHead"}

\* Where in the file one is: what is open within the contract, if anything
Second     == IF Len(scopes) >= 2 THEN scopes[2] ELSE NoName
InHeader   == Len(scopes) = 1 /\ scopes[1] = "header"
InContract == Len(scopes) = 1 /\ scopes[1] = "contract"
InUnit     == Second \in {"function", "signature", "modifier"}
InFunction == Second \in {"function", "signature"}
InBody     == Second \in {"function", "modifier", "constructor"}

\* The braces open: a head of several lines has none yet.
Level ==
  IF Len(scopes) = 0 \/ InHeader THEN 0
  ELSE IF Second \in {"signature", "constructorHead"} THEN 1 ELSE Len(scopes)

\* The types of the language's state
Names     == {l.name : l \in LineChoices(style)}
Items     == [kind : {"function", "modifier"}, name : Names, lines : Seq(Nat) \ {<<>>}]
Contracts == [line : Nat, items : Seq(Items), vars : SUBSET Kinds]

\* The language's state has its types.
Typed ==
  /\ style \in Styles
  /\ file \in Seq(LineChoices(style))
  /\ source \in Seq(Contracts)
  /\ scopes \in Seq(ScopeKinds)

\* How scopes nest
Shape ==
  /\ Len(scopes) >= 1 => scopes[1] \in {"contract", "header"}
  /\ Len(scopes) >= 2 => scopes[1] = "contract" /\ scopes[2] \in MemberScopes
  /\ Len(scopes) >= 3 => scopes[2] \notin {"signature", "constructorHead"}
  /\ \A i \in 3..Len(scopes) : scopes[i] \in {"block", "assembly"}

-----------------------------------------------------------------------------
(* What a line does *)

\* The line l is read.
Reads(l) ==
  /\ l \in LineChoices(style) /\ Fits(l)
  /\ file' = Append(file, l) /\ Follow(l) /\ UNCHANGED style

\* The last contract, and what lines do to it
LastContract == source[Len(source)]
LastItem(c)  == c.items[Len(c.items)]

Begun(l) == [source EXCEPT ![Len(source)].items = Append(@, Item(UnitKind(l), l))]
Grown    == [source EXCEPT ![Len(source)].items[Len(source[Len(source)].items)].lines = Append(@, Here)]
WithVariable(l) == [source EXCEPT ![Len(source)].vars = @ \cup {l.kind}]

\* After the step n scopes are open, the first and second of them these.
Lands(n, first, second) ==
  Len(scopes') = n /\ (n > 0 => scopes'[1] = first) /\ Second' = second

Stays == UNCHANGED <<scopes, source>>

\* The lines, by where they fit and what becomes of the scopes and the contracts
CommentLine(l)  == l.kind = "comment" /\ Stays
ImportLine(l)   == scopes = <<>> /\ l.kind = "import" /\ Stays
ContractLine(l) ==
  /\ scopes = <<>> /\ l.kind \in ContractLines
  /\ source' = Append(source, [line |-> Here, items |-> <<>>, vars |-> {}])
  /\ Lands(IF l.kind = "emptyContract" THEN 0 ELSE 1,
           IF l.kind = "bareContract" THEN "header" ELSE "contract", NoName)
HeaderLine(l)   == InHeader /\ l.kind \in {"parents", "base"} /\ Stays
HeaderBrace(l)  == InHeader /\ l.kind = "brace" /\ Lands(1, "contract", NoName) /\ UNCHANGED source
Attributes(l)   == Second = "signature" /\ l.kind = "attributes" /\ source' = Grown /\ UNCHANGED scopes
FunctionBrace(l) ==
  Second = "signature" /\ l.kind = "brace" /\ source' = Grown /\ Lands(2, "contract", "function")
MarkLine(l)     == Second = "constructorHead" /\ l.kind = "constructorMark" /\ Stays
ConstructorBrace(l) ==
  /\ Second = "constructorHead" /\ l.kind = "brace"
  /\ Lands(2, "contract", "constructor") /\ UNCHANGED source
ItemLine(l) ==
  /\ InContract /\ l.kind \in {"function", "signature", "modifier", "bareModifier"}
  /\ source' = Begun(l)
  /\ Lands(2, "contract", IF l.kind = "bareModifier" THEN "modifier" ELSE l.kind)
OneLineItem(l)  == InContract /\ l.kind = "oneLiner" /\ source' = Begun(l) /\ UNCHANGED scopes
ConstructorLine(l) ==
  /\ InContract /\ l.kind \in {"constructor", "constructorHead"}
  /\ Lands(2, "contract", l.kind) /\ UNCHANGED source
VariableLine(l) ==
  /\ InContract /\ l.kind \in {"variable", "lockVariable"}
  /\ source' = WithVariable(l) /\ UNCHANGED scopes
MemberLine(l)   == InContract /\ l.kind \in {"declaration", "gap"} /\ Stays
ContractEnd(l)  ==
  InContract /\ l.kind = "close" /\ Lands(0, NoName, NoName) /\ scopes' = <<>> /\ UNCHANGED source

Grows == source' = IF Second = "constructor" THEN source ELSE Grown
BodyLine(l)  == InBody /\ l.kind \in (Statements \ {"assembly"}) \cup {"else"} /\ Grows /\ UNCHANGED scopes
BlockBegins(l) ==
  /\ InBody /\ l.kind \in {"block", "assembly", "yulBlock"}
  /\ Grows /\ Lands(Len(scopes) + 1, "contract", Second)
BlockEnds(l) ==
  /\ InBody /\ l.kind = "close" /\ Len(scopes) > 2
  /\ Grows /\ Lands(Len(scopes) - 1, "contract", Second)
BodyEnds(l)  ==
  /\ InBody /\ l.kind = "close" /\ Len(scopes) = 2
  /\ Grows /\ Lands(1, "contract", NoName)

Moves(l) ==
  \/ CommentLine(l) \/ ImportLine(l) \/ ContractLine(l)
  \/ HeaderLine(l) \/ HeaderBrace(l)
  \/ Attributes(l) \/ FunctionBrace(l)
  \/ MarkLine(l) \/ ConstructorBrace(l)
  \/ ItemLine(l) \/ OneLineItem(l) \/ ConstructorLine(l) \/ VariableLine(l) \/ MemberLine(l)
  \/ ContractEnd(l)
  \/ BodyLine(l) \/ BlockBegins(l) \/ BlockEnds(l) \/ BodyEnds(l)

-----------------------------------------------------------------------------
(* Where in the file one is *)

\* How many scopes there may be: none, one, two, or more
LEMMA FewOrMore == \A n \in Nat : n = 0 \/ n = 1 \/ (n = 2 /\ n >= 2) \/ (n >= 3 /\ n >= 2)
OBVIOUS

\* The lines of a style are of the kinds there are.
LEMMA LineType ==
  ASSUME style \in Styles, NEW l \in LineChoices(style)
  PROVE  l.kind \in Kinds
<1>1. style.kinds \subseteq Kinds
  BY StylesAssumption
<1>2. {"attributes", "invoke"} \cup FunctionLines \cup Named \subseteq Kinds
  BY DEF Kinds, FunctionLines, Named, Statements, OtherLines
<1>3. \A k \in Kinds : Plain(k).kind = k
  BY DEF Plain
<1>4. ASSUME NEW k \in Kinds, NEW r PROVE [Plain(k) EXCEPT !.name = r].kind = k
  BY DEF Plain
<1>5. \A k \in Kinds : \A h : Headed(k, h).kind = k /\ [Headed(k, h) EXCEPT !.name = NoName].kind = k
  BY DEF Headed
<1>6. \/ \E k \in style.kinds : l = Plain(k)
      \/ \E k \in Named : \E r : l = [Plain(k) EXCEPT !.name = r]
      \/ \E k \in FunctionLines \cup {"attributes"} : \E h : l = Headed(k, h)
      \/ \E k \in {"signature", "invoke"} : \E r : l = [Plain(k) EXCEPT !.name = r]
      \/ \E k \in {"attributes"} : \E h : l = [Headed(k, h) EXCEPT !.name = NoName]
  <2>1. CASE l \in {Plain(k) : k \in style.kinds \ (FunctionLines \cup Named \cup {"attributes", "invoke"})}
    BY <2>1
  <2>2. CASE l \in {[Plain(k) EXCEPT !.name = r] : k \in style.kinds \cap Named, r \in style.results}
    BY <2>2
  <2>3. CASE l \in {Headed(k, h) : k \in style.kinds \cap (FunctionLines \ {"signature"}), h \in style.heads}
    BY <2>3
  <2>4. CASE l \in {[Plain(k) EXCEPT !.name = h.name] : k \in style.kinds \cap {"signature", "invoke"},
                                                      h \in style.heads}
    BY <2>4
  <2>5. CASE l \in {[Headed(k, h) EXCEPT !.name = NoName] : k \in style.kinds \cap {"attributes"},
                                                          h \in style.heads}
    BY <2>5
  <2> QED BY <2>1, <2>2, <2>3, <2>4, <2>5 DEF LineChoices
<1>7. CASE \E k \in style.kinds : l = Plain(k)
  BY <1>1, <1>3, <1>7
<1>8. CASE \E k \in Named \cup {"signature", "invoke"} : \E r : l = [Plain(k) EXCEPT !.name = r]
  BY <1>2, <1>4, <1>8 DEF FunctionLines
<1>9. CASE \E k \in FunctionLines \cup {"attributes"} : \E h : l = Headed(k, h) \/ l = [Headed(k, h) EXCEPT !.name = NoName]
  <2>1. PICK k \in FunctionLines \cup {"attributes"} : \E h : l = Headed(k, h) \/ l = [Headed(k, h) EXCEPT !.name = NoName]
    BY <1>9
  <2>2. k \in Kinds
    BY <1>2
  <2> QED BY <1>5, <2>1, <2>2
<1> QED BY <1>6, <1>7, <1>8, <1>9

\* What is on top of the scopes, by how many there are and the second of them.
LEMMA TopIs ==
  ASSUME Typed, Shape
  PROVE  /\ Len(scopes) \in Nat
         /\ scopes = <<>> <=> Len(scopes) = 0
         /\ scopes = <<>> => Top(scopes) = "file"
         /\ scopes # <<>> => Top(scopes) = scopes[Len(scopes)] /\ Top(scopes) # "file"
         /\ Top(scopes) = "file" <=> scopes = <<>>
         /\ Top(scopes) = "header" <=> InHeader
         /\ Top(scopes) = "contract" <=> InContract
         /\ Top(scopes) = "signature" <=> Second = "signature"
         /\ Top(scopes) = "constructorHead" <=> Second = "constructorHead"
<1>0. Len(scopes) \in Nat
  BY LenProperties DEF Typed
<1>1. scopes = <<>> <=> Len(scopes) = 0
  BY EmptySeq DEF Typed
<1>2. scopes # <<>> => scopes[Len(scopes)] \in ScopeKinds
  BY <1>0, <1>1, ElementOfSeq DEF Typed
<1>3. \A i \in 3..Len(scopes) : scopes[i] \in {"block", "assembly"}
  BY DEF Shape
<1>4. Len(scopes) >= 3 => scopes[Len(scopes)] \in {"block", "assembly"}
  BY <1>0, <1>3
<1>5. Len(scopes) = 0 \/ Len(scopes) = 1 \/ Len(scopes) = 2 \/ Len(scopes) >= 3
  BY <1>0, FewOrMore
<1> QED
  BY <1>0, <1>1, <1>2, <1>4, <1>5 DEF Top, Shape, Second, InHeader, InContract, ScopeKinds, MemberScopes, NoName

\* A function or modifier is open when the second scope says so.
LEMMA InItemIs ==
  ASSUME Typed, Shape
  PROVE  (\E i \in 1..Len(scopes) : scopes[i] \in {"function", "signature", "modifier"}) <=> InUnit
<1>1. Len(scopes) \in Nat
  BY TopIs
<1>2. \A i \in 3..Len(scopes) : scopes[i] \in {"block", "assembly"}
  BY DEF Shape
<1>3. ASSUME NEW i \in 1..Len(scopes), scopes[i] \in {"function", "signature", "modifier"} PROVE InUnit
  <2>1. i = 1 \/ i = 2 \/ i \in 3..Len(scopes)
    BY <1>1
  <2>2. i # 1
    BY <1>1, <1>3 DEF Shape
  <2>3. i \notin 3..Len(scopes)
    BY <1>2, <1>3
  <2> QED BY <1>1, <1>3, <2>1, <2>2, <2>3 DEF InUnit, Second
<1>4. InUnit => 2 \in 1..Len(scopes) /\ scopes[2] \in {"function", "signature", "modifier"}
  BY <1>1 DEF InUnit, Second, NoName
<1> QED BY <1>3, <1>4

\* What becomes of the contracts, with the lambdas written out
LEMMA SourcedIs ==
  ASSUME Typed, Shape, NEW l
  PROVE  /\ l.kind = "comment" => Sourced(l) = source
         /\ l.kind \notin ContractLines \cup FunctionLines
                            \cup {"modifier", "bareModifier", "variable", "lockVariable", "comment"} =>
              Sourced(l) = IF InUnit THEN Grown ELSE source
         /\ ~InUnit =>
              /\ l.kind \in ContractLines =>
                   Sourced(l) = Append(source, [line |-> Here, items |-> <<>>, vars |-> {}])
              /\ l.kind \in {"function", "signature", "oneLiner", "modifier", "bareModifier"} =>
                   Sourced(l) = Begun(l)
              /\ l.kind \in {"variable", "lockVariable"} => Sourced(l) = WithVariable(l)
              /\ l.kind = "declaration" => Sourced(l) = source
<1> DEFINE inItem == \E i \in 1..Len(scopes) : scopes[i] \in {"function", "signature", "modifier"}
<1>1. inItem <=> InUnit
  BY InItemIs
<1>2. ASSUME l.kind \in ContractLines, ~inItem
      PROVE  Sourced(l) = Append(source, [line |-> Here, items |-> <<>>, vars |-> {}])
  BY <1>2 DEF Sourced, ContractLines, FunctionLines
<1>3. ASSUME l.kind \in {"function", "signature", "oneLiner"}, ~inItem PROVE Sourced(l) = Begun(l)
  BY <1>3 DEF Sourced, Begun, UnitKind, ContractLines, FunctionLines
<1>4. ASSUME l.kind \in {"modifier", "bareModifier"}, ~inItem PROVE Sourced(l) = Begun(l)
  BY <1>4 DEF Sourced, Begun, UnitKind, ContractLines, FunctionLines
<1>5. ASSUME l.kind \in {"variable", "lockVariable"}, ~inItem PROVE Sourced(l) = WithVariable(l)
  BY <1>5 DEF Sourced, WithVariable, ContractLines, FunctionLines
<1>6. ASSUME l.kind \notin ContractLines \cup FunctionLines
                            \cup {"modifier", "bareModifier", "variable", "lockVariable", "comment"}
      PROVE  Sourced(l) = IF InUnit THEN Grown ELSE source
  BY <1>1, <1>6 DEF Sourced, Grown
<1>7. ASSUME l.kind = "declaration", ~inItem PROVE Sourced(l) = source
  BY <1>7 DEF Sourced, ContractLines, FunctionLines
<1>9. ASSUME l.kind = "comment" PROVE Sourced(l) = source
  BY <1>9 DEF Sourced, ContractLines, FunctionLines
<1> HIDE DEF inItem
<1>8. ASSUME ~InUnit
      PROVE  /\ l.kind \in ContractLines =>
                  Sourced(l) = Append(source, [line |-> Here, items |-> <<>>, vars |-> {}])
             /\ l.kind \in {"function", "signature", "oneLiner", "modifier", "bareModifier"} =>
                  Sourced(l) = Begun(l)
             /\ l.kind \in {"variable", "lockVariable"} => Sourced(l) = WithVariable(l)
             /\ l.kind = "declaration" => Sourced(l) = source
  <2>1. ~inItem
    BY <1>1, <1>8
  <2>2. l.kind \in ContractLines =>
             Sourced(l) = Append(source, [line |-> Here, items |-> <<>>, vars |-> {}])
    BY <1>2, <2>1
  <2>3. ASSUME l.kind \in {"function", "signature", "oneLiner", "modifier", "bareModifier"}
        PROVE  Sourced(l) = Begun(l)
    BY <1>3, <1>4, <2>1, <2>3
  <2>4. l.kind \in {"variable", "lockVariable"} => Sourced(l) = WithVariable(l)
    BY <1>5, <2>1
  <2>5. l.kind = "declaration" => Sourced(l) = source
    BY <1>7, <2>1
  <2> QED BY <2>2, <2>3, <2>4, <2>5
<1> QED BY <1>6, <1>8, <1>9
\* A scope is pushed on those that are open ...
LEMMA Pushes ==
  ASSUME Typed, Shape, NEW x, scopes' = Append(scopes, x),
         \/ scopes = <<>> /\ x \in {"contract", "header"}
         \/ InContract /\ x \in MemberScopes
         \/ InBody /\ x \in {"block", "assembly"}
  PROVE  /\ Shape' /\ scopes' \in Seq(ScopeKinds)
         /\ Len(scopes') = Len(scopes) + 1
         /\ scopes'[1] = IF scopes = <<>> THEN x ELSE scopes[1]
         /\ Second' = IF scopes = <<>> THEN NoName ELSE IF Len(scopes) = 1 THEN x ELSE Second
<1> DEFINE n == Len(scopes)
<1>1. n \in Nat /\ (scopes = <<>> <=> n = 0)
  BY TopIs
<1>2. x \in ScopeKinds /\ scopes \in Seq(ScopeKinds)
  BY DEF ScopeKinds, MemberScopes, Typed
<1>3. /\ scopes' \in Seq(ScopeKinds) /\ Len(scopes') = n + 1
      /\ \A i \in 1..n : scopes'[i] = scopes[i]
      /\ scopes'[n + 1] = x
  BY <1>2, AppendProperties
<1>4. /\ n >= 1 => scopes[1] \in {"contract", "header"}
      /\ n >= 2 => scopes[1] = "contract" /\ scopes[2] \in MemberScopes
      /\ n >= 3 => scopes[2] \notin {"signature", "constructorHead"}
      /\ \A i \in 3..n : scopes[i] \in {"block", "assembly"}
  BY DEF Shape
<1>5. \/ n = 0 /\ x \in {"contract", "header"}
      \/ n = 1 /\ scopes[1] = "contract" /\ x \in MemberScopes
      \/ n >= 2 /\ scopes[2] \in {"function", "modifier", "constructor"} /\ x \in {"block", "assembly"}
  BY <1>1 DEF InContract, InBody, Second, NoName
<1>6. Len(scopes') >= 1 => scopes'[1] \in {"contract", "header"}
  BY <1>1, <1>3, <1>4, <1>5
<1>7. Len(scopes') >= 2 => scopes'[1] = "contract" /\ scopes'[2] \in MemberScopes
  BY <1>1, <1>3, <1>4, <1>5
<1>8. Len(scopes') >= 3 => scopes'[2] \notin {"signature", "constructorHead"}
  BY <1>1, <1>3, <1>5
<1>9. \A i \in 3..Len(scopes') : scopes'[i] \in {"block", "assembly"}
  BY <1>1, <1>3, <1>4, <1>5
<1>10. scopes'[1] = IF n = 0 THEN x ELSE scopes[1]
  BY <1>1, <1>3
<1>11. Second' = IF n = 0 THEN NoName ELSE IF n = 1 THEN x ELSE Second
  <2>1. CASE n = 0
    BY <1>3, <2>1 DEF Second
  <2>2. CASE n = 1
    BY <1>3, <2>2 DEF Second
  <2>3. CASE n >= 2
    <3>1. 2 \in 1..n /\ n + 1 >= 2
      BY <1>1, <2>3
    <3> QED BY <1>1, <1>3, <2>3, <3>1 DEF Second
  <2>4. n = 0 \/ n = 1 \/ n >= 2
    BY <1>1, FewOrMore
  <2> QED BY <2>1, <2>2, <2>3, <2>4
<1> QED BY <1>1, <1>3, <1>6, <1>7, <1>8, <1>9, <1>10, <1>11 DEF Shape

\* ... taken off them ...
LEMMA Pops ==
  ASSUME Typed, Shape, scopes' = Pop(scopes), InContract \/ InBody
  PROVE  /\ Shape' /\ scopes' \in Seq(ScopeKinds)
         /\ Len(scopes') = Len(scopes) - 1
         /\ Len(scopes) > 1 => scopes'[1] = scopes[1]
         /\ Second' = IF Len(scopes) > 2 THEN Second ELSE NoName
         /\ InContract => scopes' = <<>>
<1> DEFINE n == Len(scopes)
<1>1. n \in Nat
  BY TopIs
<1>2. n >= 1
  BY <1>1 DEF InContract, InBody, Second, NoName
<1>3. \A i \in 1..(n - 1) : scopes[i] \in ScopeKinds
  BY <1>1, ElementOfSeq DEF Typed
<1>4. /\ scopes' \in Seq(ScopeKinds) /\ Len(scopes') = n - 1
      /\ \A i \in 1..(n - 1) : scopes'[i] = scopes[i]
  <2>1. scopes' = SubSeq(scopes, 1, n - 1)
    BY DEF Pop
  <2>2. /\ scopes' \in Seq(ScopeKinds)
        /\ Len(scopes') = IF 1 <= n - 1 THEN (n - 1) - 1 + 1 ELSE 0
        /\ \A i \in 1..((n - 1) - 1 + 1) : scopes'[i] = scopes[1 + i - 1]
    <3> HIDE DEF n
    <3> QED BY <1>1, <1>3, <2>1, SubSeqProperties
  <2> HIDE DEF n
  <2> QED BY <1>1, <1>2, <2>2
<1>5. /\ n >= 1 => scopes[1] \in {"contract", "header"}
      /\ n >= 2 => scopes[1] = "contract" /\ scopes[2] \in MemberScopes
      /\ n >= 3 => scopes[2] \notin {"signature", "constructorHead"}
      /\ \A i \in 3..n : scopes[i] \in {"block", "assembly"}
  BY DEF Shape
<1>6. \A i \in 3..(n - 1) : scopes'[i] \in {"block", "assembly"}
  BY <1>1, <1>4, <1>5
<1>7. Shape'
  BY <1>1, <1>4, <1>5, <1>6 DEF Shape
<1>8. Second' = IF n > 2 THEN Second ELSE NoName
  BY <1>1, <1>4 DEF Second
<1>9. InContract => scopes' = <<>>
  <2> SUFFICES ASSUME InContract PROVE scopes' = <<>>
    OBVIOUS
  <2>1. Len(scopes') = 0
    BY <1>4 DEF InContract
  <2> QED BY <1>4, <2>1, EmptySeq
<1> QED BY <1>1, <1>4, <1>7, <1>8, <1>9

\* ... or takes the place of the last of them, a head.
LEMMA Replaces ==
  ASSUME Typed, Shape, NEW x, scopes' = Append(Pop(scopes), x),
         \/ InHeader /\ x = "contract"
         \/ Second = "signature" /\ x = "function"
         \/ Second = "constructorHead" /\ x = "constructor"
  PROVE  /\ Shape' /\ scopes' \in Seq(ScopeKinds)
         /\ Len(scopes') = Len(scopes) /\ scopes'[1] = "contract"
         /\ Len(scopes) = IF InHeader THEN 1 ELSE 2
         /\ Second' = IF InHeader THEN NoName ELSE x
<1> DEFINE n == Len(scopes)
           p == Pop(scopes)
<1>1. n \in Nat
  BY TopIs
<1>2. \/ n = 1 /\ InHeader /\ x = "contract"
      \/ n = 2 /\ ~InHeader /\ x \in {"function", "constructor"} /\ scopes[1] = "contract"
  <2>1. CASE InHeader
    BY <2>1 DEF InHeader, Second, NoName
  <2>2. CASE ~InHeader
    <3>1. Second \in {"signature", "constructorHead"} /\ x \in {"function", "constructor"}
      BY <2>2
    <3>2. n >= 2 /\ scopes[2] \in {"signature", "constructorHead"}
      BY <3>1 DEF Second, NoName
    <3>3. scopes[1] = "contract" /\ ~(n >= 3)
      BY <3>2 DEF Shape
    <3>4. n = 2
      <4> HIDE DEF n
      <4> QED BY <1>1, <3>2, <3>3
    <3> QED BY <2>2, <3>1, <3>3, <3>4
  <2> QED BY <2>1, <2>2
<1>3. \A i \in 1..(n - 1) : scopes[i] \in ScopeKinds
  BY <1>1, ElementOfSeq DEF Typed
<1>4. /\ p \in Seq(ScopeKinds) /\ Len(p) = n - 1
      /\ \A i \in 1..(n - 1) : p[i] = scopes[i]
  <2>1. p = SubSeq(scopes, 1, n - 1)
    BY DEF Pop
  <2>2. /\ p \in Seq(ScopeKinds)
        /\ Len(p) = IF 1 <= n - 1 THEN (n - 1) - 1 + 1 ELSE 0
        /\ \A i \in 1..((n - 1) - 1 + 1) : p[i] = scopes[1 + i - 1]
    <3> HIDE DEF n, p
    <3> QED BY <1>1, <1>3, <2>1, SubSeqProperties
  <2> HIDE DEF n, p
  <2> QED BY <1>1, <1>2, <2>2
<1>5. x \in ScopeKinds
  BY <1>2 DEF ScopeKinds
<1>6. /\ scopes' \in Seq(ScopeKinds) /\ Len(scopes') = Len(p) + 1
      /\ \A i \in 1..Len(p) : scopes'[i] = p[i]
      /\ scopes'[Len(p) + 1] = x
  <2> HIDE DEF p
  <2>1. scopes' = Append(p, x)
    BY DEF p
  <2> QED BY <1>4, <1>5, <2>1, AppendProperties
<1>7. /\ Len(scopes') = n
      /\ n = 1 => scopes'[1] = x
      /\ n = 2 => scopes'[1] = scopes[1] /\ scopes'[2] = x
  <2> HIDE DEF p
  <2> QED BY <1>1, <1>4, <1>6
<1>8. Shape'
  <2>1. \A i \in 3..Len(scopes') : scopes'[i] \in {"block", "assembly"}
    BY <1>1, <1>2, <1>7
  <2> QED BY <1>1, <1>2, <1>7, <2>1 DEF Shape, MemberScopes
<1>9. Second' = IF InHeader THEN NoName ELSE x
  BY <1>2, <1>7 DEF Second, InHeader
<1> QED BY <1>2, <1>6, <1>7, <1>8, <1>9

-----------------------------------------------------------------------------
(* Which line fits where, and what it does there *)

\* The scopes after a line, by its kind.
LEMMA ScopedIs ==
  ASSUME NEW l
  PROVE  /\ l.kind \in {"contract", "function", "constructor", "constructorHead", "block", "signature",
                        "assembly"} => Scoped(l) = Append(scopes, l.kind)
         /\ l.kind = "upgradeable" => Scoped(l) = Append(scopes, "contract")
         /\ l.kind = "yulBlock" => Scoped(l) = Append(scopes, "assembly")
         /\ l.kind \in {"modifier", "bareModifier"} => Scoped(l) = Append(scopes, "modifier")
         /\ l.kind = "bareContract" => Scoped(l) = Append(scopes, "header")
         /\ l.kind = "brace" /\ Top(scopes) = "header" => Scoped(l) = Append(Pop(scopes), "contract")
         /\ l.kind = "brace" /\ Top(scopes) = "constructorHead" =>
              Scoped(l) = Append(Pop(scopes), "constructor")
         /\ l.kind = "brace" /\ Top(scopes) = "signature" => Scoped(l) = Append(Pop(scopes), "function")
         /\ l.kind = "close" => Scoped(l) = Pop(scopes)
         /\ l.kind \in (Statements \ {"assembly"}) \cup {"import", "comment", "parents", "base", "attributes",
                          "constructorMark", "variable", "lockVariable", "gap", "else",
                          "emptyContract", "oneLiner", "declaration"} => Scoped(l) = scopes
<1>1. l.kind \in {"contract", "function", "constructor", "constructorHead", "block", "signature",
                  "assembly"} => Scoped(l) = Append(scopes, l.kind)
  BY DEF Scoped
<1>2. l.kind = "upgradeable" => Scoped(l) = Append(scopes, "contract")
  BY DEF Scoped
<1>3. l.kind = "yulBlock" => Scoped(l) = Append(scopes, "assembly")
  BY DEF Scoped
<1>4. l.kind \in {"modifier", "bareModifier"} => Scoped(l) = Append(scopes, "modifier")
  BY DEF Scoped
<1>5. l.kind = "bareContract" => Scoped(l) = Append(scopes, "header")
  BY DEF Scoped
<1>6. ASSUME l.kind = "brace"
      PROVE  Scoped(l) = Append(Pop(scopes), CASE Top(scopes) = "header"          -> "contract"
                                               [] Top(scopes) = "constructorHead" -> "constructor"
                                               [] OTHER                           -> "function")
  BY <1>6 DEF Scoped
<1>7. l.kind = "close" => Scoped(l) = Pop(scopes)
  BY DEF Scoped
<1>8. l.kind \in (Statements \ {"assembly"}) \cup {"import", "comment", "parents", "base", "attributes",
                          "constructorMark", "variable", "lockVariable", "gap", "else",
                          "emptyContract", "oneLiner", "declaration"} => Scoped(l) = scopes
  <2> SUFFICES ASSUME l.kind \in (Statements \ {"assembly"}) \cup {"import", "comment", "parents", "base", "attributes",
                          "constructorMark", "variable", "lockVariable", "gap", "else",
                          "emptyContract", "oneLiner", "declaration"}
               PROVE  Scoped(l) = scopes
    OBVIOUS
  <2>1. l.kind \notin {"contract", "function", "constructor", "constructorHead", "block", "signature",
                        "assembly", "upgradeable", "yulBlock", "modifier", "bareModifier", "bareContract",
                        "brace", "close"}
    BY DEF Statements
  <2> QED BY <2>1 DEF Scoped
<1> QED BY <1>1, <1>2, <1>3, <1>4, <1>5, <1>6, <1>7, <1>8

\* Which lines fit, by where in the file they stand.
LEMMA FitsIs ==
  ASSUME Typed, Shape, NEW l, Fits(l)
  PROVE  \/ l.kind = "comment"
         \/ scopes = <<>> /\ l.kind \in ContractLines \cup {"import"}
         \/ InHeader /\ l.kind \in {"parents", "base", "brace"}
         \/ Second = "signature" /\ l.kind \in {"attributes", "brace"}
         \/ Second = "constructorHead" /\ l.kind \in {"constructorMark", "brace"}
         \/ InContract /\ l.kind \in Bodies \cup {"variable", "lockVariable", "gap", "close"}
         \/ InBody /\ l.kind \in Statements \cup {"block", "yulBlock", "close", "else"}
<1> DEFINE t == Top(scopes)
<1>1. /\ scopes = <<>> <=> t = "file"
      /\ t = "header" <=> InHeader
      /\ t = "contract" <=> InContract
      /\ t = "signature" <=> Second = "signature"
      /\ t = "constructorHead" <=> Second = "constructorHead"
  BY TopIs
<1>2. CASE t = "file"
  BY <1>1, <1>2 DEF Fits
<1>3. CASE t = "header"
  BY <1>1, <1>3 DEF Fits
<1>4. CASE t = "signature"
  BY <1>1, <1>4 DEF Fits
<1>5. CASE t = "constructorHead"
  BY <1>1, <1>5 DEF Fits
<1>6. CASE t = "contract"
  BY <1>1, <1>6 DEF Fits
<1>7. CASE t \notin {"file", "header", "signature", "constructorHead", "contract"}
  <2>1. InBody
    <3>1. Len(scopes) \in Nat /\ Len(scopes) # 0 /\ ~InHeader /\ ~InContract
          /\ Second \notin {"signature", "constructorHead"}
      BY <1>1, <1>7, TopIs
    <3>2. Len(scopes) >= 1
      BY <3>1
    <3>3. scopes[1] \in {"contract", "header"}
      BY <3>2 DEF Shape
    <3>4. Len(scopes) # 1
      BY <3>1, <3>3 DEF InHeader, InContract
    <3>5. Len(scopes) >= 2
      BY <3>1, <3>4, FewOrMore
    <3> QED BY <3>1, <3>5 DEF Shape, Second, InBody, MemberScopes
  <2>2. CASE t = "assembly"
    BY <2>1, <2>2 DEF Fits, Statements
  <2>3. CASE t # "assembly"
    <3>1. \/ l.kind \in (Statements \ Named) \cup {"block", "close", "comment"}
          \/ l.kind = "result" \/ l.kind = "resultCheck" \/ l.kind = "else"
      BY <1>7, <2>3 DEF Fits
    <3> QED BY <2>1, <3>1 DEF Statements
  <2> QED BY <2>2, <2>3
<1> QED BY <1>2, <1>3, <1>4, <1>5, <1>6, <1>7

\* Every line that is read is one of those of Moves.
LEMMA ReadMoves ==
  ASSUME Typed, Shape, NEW l, Reads(l)
  PROVE  Moves(l) /\ Shape' /\ scopes' \in Seq(ScopeKinds)
<1> USE DEF Lands, Stays
<1>1. scopes' = Scoped(l) /\ source' = Sourced(l)
  BY DEF Reads, Follow
<1>2. /\ scopes' = scopes => Shape' /\ scopes' \in Seq(ScopeKinds)
      /\ scopes = <<>> => ~InUnit /\ Len(scopes) = 0
      /\ InHeader \/ InContract => ~InUnit /\ Len(scopes) = 1 /\ scopes # <<>> /\ Second = NoName
      /\ InHeader => ~InContract
      /\ Second \in {"signature", "constructorHead"} => Len(scopes) = 2 /\ ~InHeader
      /\ InBody => Len(scopes) >= 2 /\ scopes # <<>> /\ scopes[1] = "contract"
  <2>1. scopes' = scopes => Shape' /\ scopes' \in Seq(ScopeKinds)
    BY DEF Shape, Typed
  <2>2. scopes = <<>> => ~InUnit /\ Len(scopes) = 0
    BY TopIs DEF InUnit, Second, NoName
  <2>3. InHeader \/ InContract => ~InUnit /\ Len(scopes) = 1 /\ scopes # <<>> /\ Second = NoName
    BY TopIs DEF InHeader, InContract, InUnit, Second, NoName
  <2>4. InHeader => ~InContract
    BY DEF InHeader, InContract
  <2>5. Second \in {"signature", "constructorHead"} => Len(scopes) = 2 /\ ~InHeader
    <3> SUFFICES ASSUME Second \in {"signature", "constructorHead"} PROVE Len(scopes) = 2 /\ ~InHeader
      OBVIOUS
    <3>1. Len(scopes) >= 2 /\ scopes[2] \in {"signature", "constructorHead"}
      BY DEF Second, NoName
    <3>2. ~(Len(scopes) >= 3)
      BY <3>1 DEF Shape
    <3> DEFINE n == Len(scopes)
    <3>3. n \in Nat /\ n >= 2 /\ ~(n >= 3)
      BY <3>1, <3>2, TopIs
    <3>4. n = 2
      <4> HIDE DEF n
      <4> QED BY <3>3
    <3> QED BY <3>4 DEF InHeader
  <2>6. InBody => Len(scopes) >= 2 /\ scopes # <<>> /\ scopes[1] = "contract"
    BY TopIs DEF InBody, Second, NoName, Shape
  <2> QED BY <2>1, <2>2, <2>3, <2>4, <2>5, <2>6
<1>3. CASE l.kind = "comment"
  <2>1. scopes' = scopes /\ source' = source
    BY <1>1, <1>3, ScopedIs, SourcedIs
  <2> QED BY <1>2, <1>3, <2>1 DEF Moves, CommentLine
<1>4. CASE scopes = <<>> /\ l.kind \in ContractLines \cup {"import"}
  <2>1. CASE l.kind = "import"
    <3>1. scopes' = scopes /\ source' = source
      BY <1>1, <1>2, <1>4, <2>1, ScopedIs, SourcedIs DEF ContractLines, FunctionLines
    <3> QED BY <1>2, <1>4, <2>1, <3>1 DEF Moves, ImportLine
  <2>2. CASE l.kind \in ContractLines
    <3>1. source' = Append(source, [line |-> Here, items |-> <<>>, vars |-> {}])
      BY <1>1, <1>2, <1>4, <2>2, SourcedIs
    <3>2. CASE l.kind = "emptyContract"
      <4>1. scopes' = scopes
        BY <1>1, <3>2, ScopedIs
      <4> QED BY <1>2, <1>4, <2>2, <3>1, <3>2, <4>1 DEF Moves, ContractLine, Second, InUnit
    <3>3. CASE l.kind = "bareContract"
      <4>1. scopes' = Append(scopes, "header")
        BY <1>1, <3>3, ScopedIs
      <4>2. Shape' /\ scopes' \in Seq(ScopeKinds) /\ Lands(1, "header", NoName)
        BY <1>2, <1>4, <4>1, Pushes
      <4> QED BY <1>4, <2>2, <3>1, <3>3, <4>2 DEF Moves, ContractLine
    <3>4. CASE l.kind \in {"contract", "upgradeable"}
      <4>1. scopes' = Append(scopes, "contract")
        BY <1>1, <3>4, ScopedIs
      <4>2. Shape' /\ scopes' \in Seq(ScopeKinds) /\ Lands(1, "contract", NoName)
        BY <1>2, <1>4, <4>1, Pushes
      <4> QED BY <1>4, <2>2, <3>1, <3>4, <4>2 DEF Moves, ContractLine
    <3> QED BY <2>2, <3>2, <3>3, <3>4 DEF ContractLines
  <2> QED BY <1>4, <2>1, <2>2
<1>5. CASE InHeader /\ l.kind \in {"parents", "base", "brace"}
  <2>0. source' = source
    BY <1>1, <1>2, <1>5, SourcedIs DEF ContractLines, FunctionLines
  <2>1. CASE l.kind \in {"parents", "base"}
    <3>1. scopes' = scopes
      BY <1>1, <2>1, ScopedIs
    <3> QED BY <1>2, <1>5, <2>0, <2>1, <3>1 DEF Moves, HeaderLine
  <2>2. CASE l.kind = "brace"
    <3>1. scopes' = Append(Pop(scopes), "contract")
      BY <1>1, <1>5, <2>2, ScopedIs, TopIs
    <3>2. Shape' /\ scopes' \in Seq(ScopeKinds) /\ Lands(1, "contract", NoName)
      BY <1>2, <1>5, <3>1, Replaces
    <3> QED BY <1>5, <2>0, <2>2, <3>2 DEF Moves, HeaderBrace
  <2> QED BY <1>5, <2>1, <2>2
<1>6. CASE Second = "signature" /\ l.kind \in {"attributes", "brace"}
  <2>0. source' = Grown
    BY <1>1, <1>6, SourcedIs DEF ContractLines, FunctionLines, InUnit
  <2>1. CASE l.kind = "attributes"
    <3>1. scopes' = scopes
      BY <1>1, <2>1, ScopedIs
    <3> QED BY <1>2, <1>6, <2>0, <2>1, <3>1 DEF Moves, Attributes
  <2>2. CASE l.kind = "brace"
    <3>1. scopes' = Append(Pop(scopes), "function")
      BY <1>1, <1>6, <2>2, ScopedIs, TopIs
    <3>2. Shape' /\ scopes' \in Seq(ScopeKinds) /\ Lands(2, "contract", "function")
      BY <1>2, <1>6, <3>1, Replaces
    <3> QED BY <1>6, <2>0, <2>2, <3>2 DEF Moves, FunctionBrace
  <2> QED BY <1>6, <2>1, <2>2
<1>7. CASE Second = "constructorHead" /\ l.kind \in {"constructorMark", "brace"}
  <2>0. source' = source
    BY <1>1, <1>7, SourcedIs DEF ContractLines, FunctionLines, InUnit
  <2>1. CASE l.kind = "constructorMark"
    <3>1. scopes' = scopes
      BY <1>1, <2>1, ScopedIs
    <3> QED BY <1>2, <1>7, <2>0, <2>1, <3>1 DEF Moves, MarkLine
  <2>2. CASE l.kind = "brace"
    <3>1. scopes' = Append(Pop(scopes), "constructor")
      BY <1>1, <1>7, <2>2, ScopedIs, TopIs
    <3>2. Shape' /\ scopes' \in Seq(ScopeKinds) /\ Lands(2, "contract", "constructor")
      BY <1>2, <1>7, <3>1, Replaces
    <3> QED BY <1>7, <2>0, <2>2, <3>2 DEF Moves, ConstructorBrace
  <2> QED BY <1>7, <2>1, <2>2
<1>8. CASE InContract /\ l.kind \in Bodies \cup {"variable", "lockVariable", "gap", "close"}
  <2>0. ~InUnit /\ InContract /\ scopes # <<>> /\ Len(scopes) = 1 /\ scopes[1] = "contract"
    BY <1>2, <1>8 DEF InContract
  <2>1. CASE l.kind \in {"function", "signature", "modifier", "bareModifier"}
    <3> DEFINE x == IF l.kind = "bareModifier" THEN "modifier" ELSE l.kind
    <3>1. scopes' = Append(scopes, x)
      BY <1>1, <2>1, ScopedIs
    <3>2. x \in MemberScopes
      BY <2>1 DEF MemberScopes
    <3>3. Shape' /\ scopes' \in Seq(ScopeKinds) /\ Lands(2, "contract", x)
      <4> HIDE DEF x
      <4> QED BY <2>0, <3>1, <3>2, Pushes
    <3>4. source' = Begun(l)
      BY <1>1, <2>0, <2>1, SourcedIs
    <3> QED BY <2>0, <2>1, <3>3, <3>4 DEF Moves, ItemLine
  <2>2. CASE l.kind \in {"constructor", "constructorHead"}
    <3>1. scopes' = Append(scopes, l.kind) /\ source' = source
      BY <1>1, <2>0, <2>2, ScopedIs, SourcedIs DEF ContractLines, FunctionLines
    <3>2. Shape' /\ scopes' \in Seq(ScopeKinds) /\ Lands(2, "contract", l.kind)
      BY <2>0, <2>2, <3>1, Pushes DEF MemberScopes
    <3> QED BY <2>0, <2>2, <3>1, <3>2 DEF Moves, ConstructorLine
  <2>3. CASE l.kind \in {"variable", "lockVariable"}
    <3>1. scopes' = scopes /\ source' = WithVariable(l)
      BY <1>1, <2>0, <2>3, ScopedIs, SourcedIs
    <3> QED BY <1>2, <2>0, <2>3, <3>1 DEF Moves, VariableLine
  <2>4. CASE l.kind \in {"declaration", "gap"}
    <3>1. scopes' = scopes /\ source' = source
      BY <1>1, <2>0, <2>4, ScopedIs, SourcedIs DEF ContractLines, FunctionLines
    <3> QED BY <1>2, <2>0, <2>4, <3>1 DEF Moves, MemberLine
  <2>5. CASE l.kind = "oneLiner"
    <3>1. scopes' = scopes /\ source' = Begun(l)
      BY <1>1, <2>0, <2>5, ScopedIs, SourcedIs
    <3> QED BY <1>2, <2>0, <2>5, <3>1 DEF Moves, OneLineItem
  <2>6. CASE l.kind = "close"
    <3>1. scopes' = Pop(scopes) /\ source' = source
      BY <1>1, <2>0, <2>6, ScopedIs, SourcedIs DEF ContractLines, FunctionLines
    <3>2. Shape' /\ scopes' \in Seq(ScopeKinds) /\ scopes' = <<>> /\ Lands(0, NoName, NoName)
      BY <2>0, <3>1, Pops
    <3> QED BY <2>0, <2>6, <3>1, <3>2 DEF Moves, ContractEnd
  <2> QED BY <1>8, <2>1, <2>2, <2>3, <2>4, <2>5, <2>6 DEF Bodies, FunctionLines
<1>9. CASE InBody /\ l.kind \in Statements \cup {"block", "yulBlock", "close", "else"}
  <2>0. /\ InBody /\ scopes # <<>> /\ Len(scopes) >= 2 /\ scopes[1] = "contract"
        /\ Len(scopes) # 0 /\ Len(scopes) # 1
    <3> DEFINE n == Len(scopes)
    <3>1. InBody /\ scopes # <<>> /\ n \in Nat /\ n >= 2 /\ scopes[1] = "contract"
      BY <1>2, <1>9, TopIs
    <3>2. n # 0 /\ n # 1
      <4> HIDE DEF n
      <4> QED BY <3>1
    <3> QED BY <3>1, <3>2
  <2>1. Grows
    <3>1. l.kind \notin ContractLines \cup FunctionLines
                            \cup {"modifier", "bareModifier", "variable", "lockVariable", "comment"}
      BY <1>9 DEF Statements, ContractLines, FunctionLines
    <3>2. InUnit <=> Second # "constructor"
      BY <2>0 DEF InBody, InUnit
    <3> QED BY <1>1, <3>1, <3>2, SourcedIs DEF Grows
  <2>2. CASE l.kind \in (Statements \ {"assembly"}) \cup {"else"}
    <3>1. scopes' = scopes
      BY <1>1, <2>2, ScopedIs
    <3> QED BY <1>2, <2>0, <2>1, <2>2, <3>1 DEF Moves, BodyLine
  <2>3. CASE l.kind \in {"block", "assembly", "yulBlock"}
    <3> DEFINE x == IF l.kind = "yulBlock" THEN "assembly" ELSE l.kind
    <3>1. scopes' = Append(scopes, x) /\ x \in {"block", "assembly"}
      BY <1>1, <2>3, ScopedIs
    <3>2. Shape' /\ scopes' \in Seq(ScopeKinds) /\ Lands(Len(scopes) + 1, "contract", Second)
      <4> HIDE DEF x
      <4> QED BY <2>0, <3>1, Pushes
    <3> QED BY <2>0, <2>1, <2>3, <3>2 DEF Moves, BlockBegins
  <2>4. CASE l.kind = "close"
    <3>1. scopes' = Pop(scopes)
      BY <1>1, <2>4, ScopedIs
    <3>2. CASE Len(scopes) > 2
      <4>1. Shape' /\ scopes' \in Seq(ScopeKinds) /\ Lands(Len(scopes) - 1, "contract", Second)
        BY <2>0, <3>1, <3>2, Pops
      <4> QED BY <2>0, <2>1, <2>4, <3>2, <4>1 DEF Moves, BlockEnds
    <3>3. CASE Len(scopes) = 2
      <4>1. Shape' /\ scopes' \in Seq(ScopeKinds) /\ Lands(1, "contract", NoName)
        BY <2>0, <3>1, <3>3, Pops
      <4> QED BY <2>0, <2>1, <2>4, <3>3, <4>1 DEF Moves, BodyEnds
    <3>4. Len(scopes) > 2 \/ Len(scopes) = 2
      <4> DEFINE n == Len(scopes)
      <4>1. n \in Nat /\ n >= 2
        BY <2>0, TopIs
      <4>2. n > 2 \/ n = 2
        <5> HIDE DEF n
        <5> QED BY <4>1
      <4> QED BY <4>2
    <3> QED BY <3>2, <3>3, <3>4
  <2> QED BY <1>9, <2>2, <2>3, <2>4
<1> QED
  <2>1. Fits(l)
    BY DEF Reads
  <2> QED BY <1>3, <1>4, <1>5, <1>6, <1>7, <1>8, <1>9, <2>1, FitsIs

-----------------------------------------------------------------------------
(* The file and the contracts after a line *)

\* The file after a line: the lines it had, and that one.
LEMMA FileIs ==
  ASSUME Typed, NEW l, Reads(l)
  PROVE  /\ Len(file) \in Nat /\ Here = Len(file) + 1
         /\ l \in LineChoices(style) /\ l.kind \in Kinds
         /\ style' = style /\ file' \in Seq(LineChoices(style')) /\ Len(file') = Len(file) + 1
         /\ \A i \in 1..Len(file) : file'[i] = file[i]
         /\ file'[Len(file) + 1] = l
<1>1. file \in Seq(LineChoices(style)) /\ l \in LineChoices(style) /\ file' = Append(file, l) /\ style' = style
  BY DEF Typed, Reads
<1>2. LineChoices(style') = LineChoices(style)
  BY <1>1
<1>3. l.kind \in Kinds
  BY <1>1, LineType DEF Typed
<1>4. Len(file) \in Nat
  BY <1>1, LenProperties
<1> QED BY <1>1, <1>2, <1>3, <1>4, AppendProperties DEF Here

\* The last contract with its items changed
LEMMA ItemsChanged ==
  ASSUME NEW s \in Seq(Contracts), s # <<>>, NEW its \in Seq(Items)
  PROVE  LET new == [s EXCEPT ![Len(s)].items = its]
         IN /\ new \in Seq(Contracts) /\ Len(new) = Len(s)
            /\ \A k \in 1..Len(s) :
                 /\ k # Len(s) => new[k] = s[k]
                 /\ k = Len(s) => /\ new[k].items = its
                                       /\ new[k].line = s[k].line
                                       /\ new[k].vars = s[k].vars
<1> DEFINE m == Len(s)
           c == [s[m] EXCEPT !.items = its]
<1>1. m \in Nat /\ m # 0 /\ s \in Seq(Contracts)
  BY EmptySeq, LenProperties
<1>2. m \in 1..m
  BY <1>1
<1>3. s[m] \in Contracts
  BY <1>1, <1>2, ElementOfSeq
<1>4. c \in Contracts /\ c.items = its /\ c.line = s[m].line /\ c.vars = s[m].vars
  BY <1>3 DEF Contracts
<1>5. /\ [s EXCEPT ![m] = c] \in Seq(Contracts)
      /\ Len([s EXCEPT ![m] = c]) = m
      /\ \A k \in 1..m : [s EXCEPT ![m] = c][k] = IF k = m THEN c ELSE s[k]
  <2> HIDE DEF c
  <2> QED BY <1>1, <1>2, <1>4, ExceptSeq
<1>6. [s EXCEPT ![Len(s)].items = its] = [s EXCEPT ![m] = c]
  OBVIOUS
<1> HIDE DEF c
<1> QED BY <1>4, <1>5, <1>6

\* The last contract, and its last item, are of their types.
LEMMA LastIs ==
  ASSUME Typed, source # <<>>
  PROVE  /\ Len(source) \in Nat /\ Len(source) \in 1..Len(source)
         /\ LastContract \in Contracts /\ LastContract.items \in Seq(Items)
         /\ Len(LastContract.items) \in Nat
         /\ LastContract.items # <<>> =>
              /\ Len(LastContract.items) \in 1..Len(LastContract.items)
              /\ LastItem(LastContract) \in Items
<1> DEFINE m == Len(source)
           its == LastContract.items
           n == Len(its)
<1>1. m \in Nat /\ m # 0 /\ source \in Seq(Contracts)
  BY EmptySeq, LenProperties DEF Typed
<1>2. m \in 1..m
  BY <1>1
<1>3. LastContract \in Contracts
  BY <1>1, <1>2, ElementOfSeq DEF LastContract
<1>4. its \in Seq(Items)
  BY <1>3 DEF Contracts
<1>5. n \in Nat /\ (its # <<>> => n # 0)
  BY <1>4, EmptySeq, LenProperties
<1>6. its # <<>> => n \in 1..n
  <2> HIDE DEF n
  <2> QED BY <1>5
<1>7. its # <<>> => LastItem(LastContract) \in Items
  BY <1>4, <1>6, ElementOfSeq DEF LastItem
<1> QED BY <1>1, <1>2, <1>3, <1>4, <1>5, <1>6, <1>7

\* A line that begins an item gives one of that line.
LEMMA ItemType ==
  ASSUME Typed, NEW l \in LineChoices(style)
  PROVE  /\ Item(UnitKind(l), l) \in Items
         /\ Item(UnitKind(l), l).kind = UnitKind(l) /\ Item(UnitKind(l), l).name = l.name
         /\ Item(UnitKind(l), l).lines = <<Here>> /\ Here \in Nat /\ Here = Len(file) + 1
<1>1. Len(file) \in Nat /\ Here = Len(file) + 1
  BY LenProperties DEF Typed, Here
<1>2. <<Here>> \in Seq(Nat) /\ <<Here>> # <<>>
  BY <1>1
<1>3. l.name \in Names
  BY DEF Names
<1>4. UnitKind(l) \in {"function", "modifier"}
  BY DEF UnitKind
<1> QED BY <1>1, <1>2, <1>3, <1>4 DEF Item, Items

\* A line that begins an item
LEMMA BegunIs ==
  ASSUME Typed, source # <<>>, NEW l \in LineChoices(style)
  PROVE  /\ Begun(l) \in Seq(Contracts) /\ Len(Begun(l)) = Len(source)
         /\ \A k \in 1..Len(source) :
              /\ k # Len(source) => Begun(l)[k] = source[k]
              /\ Begun(l)[k].line = source[k].line /\ Begun(l)[k].vars = source[k].vars
         /\ Begun(l)[Len(source)].items = Append(LastContract.items, Item(UnitKind(l), l))
<1> DEFINE its == Append(LastContract.items, Item(UnitKind(l), l))
           new == [source EXCEPT ![Len(source)].items = its]
<1>1. its \in Seq(Items)
  BY LastIs, ItemType, AppendProperties
<1>2. Begun(l) = new
  BY DEF Begun, LastContract
<1>3. /\ new \in Seq(Contracts) /\ Len(new) = Len(source)
      /\ \A k \in 1..Len(source) :
           /\ k # Len(source) => new[k] = source[k]
           /\ k = Len(source) => /\ new[k].items = its
                                 /\ new[k].line = source[k].line
                                 /\ new[k].vars = source[k].vars
  <2> HIDE DEF its
  <2>1. source \in Seq(Contracts)
    BY DEF Typed
  <2> QED BY <1>1, <2>1, ItemsChanged
<1>4. Len(source) \in 1..Len(source)
  BY LastIs
<1> HIDE DEF new, its
<1>5. \A k \in 1..Len(source) : new[k].line = source[k].line /\ new[k].vars = source[k].vars
  BY <1>3
<1> QED BY <1>2, <1>3, <1>4, <1>5 DEF its

\* A line that belongs to the last item
Longer(f) == [f EXCEPT !.lines = Append(@, Here)]

\* An item with a line more: the same item, one line longer.
LEMMA LongerIs ==
  ASSUME Typed, NEW f \in Items
  PROVE  /\ Longer(f) \in Items /\ Longer(f).kind = f.kind /\ Longer(f).name = f.name
         /\ Longer(f).lines = Append(f.lines, Here)
         /\ Longer(f).lines[1] = f.lines[1]
         /\ Len(f.lines) \in Nat /\ Len(f.lines) >= 1
         /\ Len(Longer(f).lines) = Len(f.lines) + 1 /\ Longer(f).lines[Len(f.lines) + 1] = Here
<1> DEFINE ls == f.lines
<1>1. ls \in Seq(Nat) /\ ls # <<>> /\ f.kind \in {"function", "modifier"} /\ f.name \in Names
  BY DEF Items
<1>2. Here \in Nat
  BY LenProperties DEF Typed, Here
<1>3. Len(ls) \in Nat /\ Len(ls) >= 1
  BY <1>1, EmptySeq
<1>4. 1 \in 1..Len(ls)
  BY <1>3
<1>5. /\ Append(ls, Here) \in Seq(Nat) /\ Append(ls, Here) # <<>> /\ Append(ls, Here)[1] = ls[1]
      /\ Len(Append(ls, Here)) = Len(ls) + 1 /\ Append(ls, Here)[Len(ls) + 1] = Here
  BY <1>1, <1>2, <1>4, AppendProperties
<1>6. Longer(f) = [f EXCEPT !.lines = Append(ls, Here)]
  BY DEF Longer
<1>7. /\ Longer(f) \in [kind : {"function", "modifier"}, name : Names, lines : Seq(Nat) \ {<<>>}]
      /\ Longer(f).kind = f.kind /\ Longer(f).name = f.name /\ Longer(f).lines = Append(ls, Here)
  <2>1. f \in [kind : {"function", "modifier"}, name : Names, lines : Seq(Nat) \ {<<>>}]
    BY DEF Items
  <2>2. Append(ls, Here) \in Seq(Nat) \ {<<>>}
    BY <1>5
  <2> QED BY <1>6, <2>1, <2>2
<1> QED BY <1>3, <1>5, <1>7 DEF Items

\* The contracts, with a line more in the last item of the last one.
LEMMA GrownIs ==
  ASSUME Typed, source # <<>>, LastContract.items # <<>>
  PROVE  /\ Grown \in Seq(Contracts) /\ Len(Grown) = Len(source)
         /\ \A k \in 1..Len(source) :
              /\ k # Len(source) => Grown[k] = source[k]
              /\ Grown[k].line = source[k].line /\ Grown[k].vars = source[k].vars
              /\ Len(Grown[k].items) = Len(source[k].items)
         /\ \A j \in 1..Len(LastContract.items) :
              Grown[Len(source)].items[j] =
                IF j = Len(LastContract.items) THEN Longer(LastItem(LastContract)) ELSE LastContract.items[j]
<1> DEFINE old == LastContract.items
           n   == Len(old)
           f   == Longer(LastItem(LastContract))
           its == [old EXCEPT ![n] = f]
           new == [source EXCEPT ![Len(source)].items = its]
<1>1. /\ old \in Seq(Items) /\ n \in 1..n /\ Len(source) \in 1..Len(source)
      /\ f \in Items
  BY LastIs, LongerIs
<1>2. /\ its \in Seq(Items) /\ Len(its) = n
      /\ \A j \in 1..n : its[j] = IF j = n THEN f ELSE old[j]
  <2> HIDE DEF f
  <2> QED BY <1>1, ExceptSeq
<1>3. Grown = new
  BY DEF Grown, LastContract, LastItem, Longer
<1>4. /\ new \in Seq(Contracts) /\ Len(new) = Len(source)
      /\ \A k \in 1..Len(source) :
           /\ k # Len(source) => new[k] = source[k]
           /\ k = Len(source) => /\ new[k].items = its
                                 /\ new[k].line = source[k].line
                                 /\ new[k].vars = source[k].vars
  <2> HIDE DEF its
  <2>1. source \in Seq(Contracts)
    BY DEF Typed
  <2> QED BY <1>2, <2>1, ItemsChanged
<1> HIDE DEF new, its, f
<1>5. \A k \in 1..Len(source) :
        /\ new[k].line = source[k].line /\ new[k].vars = source[k].vars
        /\ Len(new[k].items) = Len(source[k].items)
  BY <1>2, <1>4 DEF LastContract
<1>6. new[Len(source)].items = its
  BY <1>1, <1>4
<1> QED BY <1>2, <1>3, <1>4, <1>5, <1>6 DEF f

\* The last contract with its variables changed
LEMMA VarsChanged ==
  ASSUME NEW s \in Seq(Contracts), s # <<>>, NEW vs \in SUBSET Kinds
  PROVE  LET new == [s EXCEPT ![Len(s)].vars = @ \cup vs]
         IN /\ new \in Seq(Contracts) /\ Len(new) = Len(s)
            /\ \A k \in 1..Len(s) :
                 /\ k # Len(s) => new[k] = s[k]
                 /\ new[k].line = s[k].line
                 /\ new[k].items = s[k].items
<1> DEFINE m == Len(s)
           c == [s[m] EXCEPT !.vars = @ \cup vs]
<1>1. m \in Nat /\ m # 0
  BY EmptySeq, LenProperties
<1>2. m \in 1..m
  BY <1>1
<1>3. s[m] \in Contracts
  BY <1>1, <1>2, ElementOfSeq
<1>4. c \in Contracts /\ c.items = s[m].items /\ c.line = s[m].line
  BY <1>3 DEF Contracts
<1>5. /\ [s EXCEPT ![m] = c] \in Seq(Contracts)
      /\ Len([s EXCEPT ![m] = c]) = m
      /\ \A k \in 1..m : [s EXCEPT ![m] = c][k] = IF k = m THEN c ELSE s[k]
  <2> HIDE DEF c
  <2> QED BY <1>1, <1>2, <1>4, ExceptSeq
<1>6. [s EXCEPT ![Len(s)].vars = @ \cup vs] = [s EXCEPT ![m] = c]
  OBVIOUS
<1> HIDE DEF c
<1> QED BY <1>4, <1>5, <1>6

\* The contracts, with a variable more in the last one.
LEMMA WithVariableIs ==
  ASSUME Typed, source # <<>>, NEW l, l.kind \in Kinds
  PROVE  /\ WithVariable(l) \in Seq(Contracts) /\ Len(WithVariable(l)) = Len(source)
         /\ \A k \in 1..Len(source) :
              /\ k # Len(source) => WithVariable(l)[k] = source[k]
              /\ WithVariable(l)[k].line = source[k].line
              /\ WithVariable(l)[k].items = source[k].items
<1> DEFINE vs  == {l.kind}
           new == [source EXCEPT ![Len(source)].vars = @ \cup vs]
<1>1. source \in Seq(Contracts) /\ vs \in SUBSET Kinds
  BY DEF Typed
<1>2. WithVariable(l) = new
  BY DEF WithVariable
<1>3. /\ new \in Seq(Contracts) /\ Len(new) = Len(source)
      /\ \A k \in 1..Len(source) :
           /\ k # Len(source) => new[k] = source[k]
           /\ new[k].line = source[k].line
           /\ new[k].items = source[k].items
  <2> HIDE DEF vs
  <2> QED BY <1>1, VarsChanged
<1> HIDE DEF new
<1> QED BY <1>2, <1>3

\* The contracts, with one more.
LEMMA NewContractIs ==
  ASSUME Typed, Len(file) \in Nat
  PROVE  LET c   == [line |-> Here, items |-> <<>>, vars |-> {}]
             new == Append(source, c)
         IN /\ new \in Seq(Contracts) /\ Len(new) = Len(source) + 1 /\ new # <<>>
            /\ \A k \in 1..Len(source) : new[k] = source[k]
            /\ new[Len(source) + 1] = c
<1> DEFINE c == [line |-> Here, items |-> <<>>, vars |-> {}]
<1>1. c \in Contracts
  BY EmptySeq DEF Contracts, Here
<1>2. source \in Seq(Contracts)
  BY DEF Typed
<1> HIDE DEF c
<1>3. /\ Append(source, c) \in Seq(Contracts) /\ Len(Append(source, c)) = Len(source) + 1
      /\ Append(source, c) # <<>>
      /\ \A k \in 1..Len(source) : Append(source, c)[k] = source[k]
      /\ Append(source, c)[Len(source) + 1] = c
  BY <1>1, <1>2, AppendProperties
<1> QED BY <1>3 DEF c

-----------------------------------------------------------------------------
(* What a line does to the braces and to the function or modifier it is in *)

\* The braces of a line, by its kind.
LEMMA BracesOf ==
  ASSUME NEW l
  PROVE  /\ Opens(l) \in {0, 1} /\ Closes(l) \in {0, 1} /\ Delta(l) = Opens(l) - Closes(l)
         /\ l.kind \in {"comment", "import", "bareContract", "parents", "base", "attributes",
                        "constructorMark", "signature", "constructorHead", "variable", "lockVariable",
                        "declaration", "gap"} => Opens(l) = 0 /\ Closes(l) = 0
         /\ l.kind \in {"contract", "upgradeable", "brace", "function", "modifier", "bareModifier",
                        "constructor", "block", "assembly", "yulBlock"} => Opens(l) = 1 /\ Closes(l) = 0
         /\ l.kind \in {"emptyContract", "oneLiner", "else"} => Opens(l) = 1 /\ Closes(l) = 1
         /\ l.kind = "close" => Opens(l) = 0 /\ Closes(l) = 1
         /\ l.kind \in (Statements \ {"assembly"}) \cup {"else"} => Delta(l) = 0
BY DEF Opens, Closes, Delta, Opening, Closing, Calls, Statements

\* The braces open, by where in the file one is.
LEMMA LevelIs ==
  ASSUME Typed, Shape
  PROVE  /\ Level \in Nat
         /\ scopes = <<>> => Level = 0
         /\ InHeader => Level = 0
         /\ InContract => Level = 1
         /\ Second \in {"signature", "constructorHead"} => Level = 1 /\ Len(scopes) = 2
         /\ InBody => Level = Len(scopes) /\ Level >= 2
<1> DEFINE n == Len(scopes)
<1>1. n \in Nat /\ (scopes = <<>> <=> n = 0)
  BY TopIs
<1>2. Second # NoName => n >= 2 /\ n # 0 /\ ~InHeader
  <2> SUFFICES ASSUME Second # NoName PROVE n >= 2 /\ n # 0 /\ ~InHeader
    OBVIOUS
  <2>1. n >= 2
    BY DEF Second
  <2>2. n # 0 /\ n # 1
    <3> HIDE DEF n
    <3> QED BY <1>1, <2>1
  <2> QED BY <2>1, <2>2 DEF InHeader
<1>3. InHeader \/ InContract => n = 1 /\ Second = NoName
  BY DEF InHeader, InContract, Second
<1>4. InHeader => ~InContract
  BY DEF InHeader, InContract
<1>5. Second \in {"signature", "constructorHead"} => n = 2
  <2> SUFFICES ASSUME Second \in {"signature", "constructorHead"} PROVE n = 2
    OBVIOUS
  <2>1. n >= 2 /\ scopes[2] \in {"signature", "constructorHead"}
    BY DEF Second, NoName
  <2>2. ~(n >= 3)
    BY <2>1 DEF Shape
  <2> HIDE DEF n
  <2> QED BY <1>1, <2>1, <2>2
<1> QED BY <1>1, <1>2, <1>3, <1>4, <1>5 DEF Level, InBody, NoName

\* The level after a scope was entered or left
LEMMA LevelLands ==
  ASSUME Typed, Shape, NEW n \in Nat, NEW first, NEW second, Lands(n, first, second)
  PROVE  Level' = IF n = 0 \/ (n = 1 /\ first = "header") THEN 0
                  ELSE IF second \in {"signature", "constructorHead"} THEN 1 ELSE n
BY DEF Lands, Level, InHeader

\* A line changes the braces open by its own.
LEMMA LevelStep ==
  ASSUME Typed, Shape, NEW l, Moves(l)
  PROVE  Level' = Level + Delta(l)
<1> DEFINE n == Len(scopes)
<1>0. n \in Nat /\ Level \in Nat
  BY TopIs, LevelIs
<1>1. CASE scopes' = scopes /\ Delta(l) = 0
  <2>1. Level' = Level
    BY <1>1 DEF Level, InHeader, Second
  <2> QED BY <1>0, <1>1, <2>1
<1>2. CASE ContractLine(l)
  <2>1. Level = 0
    BY <1>2, LevelIs DEF ContractLine
  <2>2. CASE l.kind = "emptyContract"
    BY <1>2, <2>1, <2>2, LevelLands, BracesOf DEF ContractLine
  <2>3. CASE l.kind = "bareContract"
    BY <1>2, <2>1, <2>3, LevelLands, BracesOf DEF ContractLine
  <2>4. CASE l.kind \in {"contract", "upgradeable"}
    <3>1. Level' = 1
      BY <1>2, <2>4, LevelLands DEF ContractLine, NoName
    <3> QED BY <2>1, <2>4, <3>1, BracesOf
  <2> QED BY <1>2, <2>2, <2>3, <2>4 DEF ContractLine, ContractLines
<1>3. CASE HeaderBrace(l) \/ FunctionBrace(l) \/ ConstructorBrace(l)
  <2>1. HeaderBrace(l) => Level = 0 /\ Level' = 1
    BY LevelIs, LevelLands DEF HeaderBrace, NoName
  <2>2. FunctionBrace(l) => Level = 1 /\ Level' = 2
    BY LevelIs, LevelLands DEF FunctionBrace
  <2>3. ConstructorBrace(l) => Level = 1 /\ Level' = 2
    BY LevelIs, LevelLands DEF ConstructorBrace
  <2>4. Delta(l) = 1
    BY <1>3, BracesOf DEF HeaderBrace, FunctionBrace, ConstructorBrace
  <2> QED BY <1>3, <2>1, <2>2, <2>3, <2>4
<1>4. CASE ItemLine(l)
  <2>1. Level = 1
    BY <1>4, LevelIs DEF ItemLine
  <2>2. CASE l.kind = "signature"
    BY <1>4, <2>1, <2>2, LevelLands, BracesOf DEF ItemLine
  <2>3. CASE l.kind \in {"function", "modifier", "bareModifier"}
    <3>1. Level' = 2
      BY <1>4, <2>3, LevelLands DEF ItemLine
    <3> QED BY <2>1, <2>3, <3>1, BracesOf
  <2> QED BY <1>4, <2>2, <2>3 DEF ItemLine
<1>5. CASE ConstructorLine(l)
  <2>1. Level = 1
    BY <1>5, LevelIs DEF ConstructorLine
  <2>2. CASE l.kind = "constructorHead"
    BY <1>5, <2>1, <2>2, LevelLands, BracesOf DEF ConstructorLine
  <2>3. CASE l.kind = "constructor"
    BY <1>5, <2>1, <2>3, LevelLands, BracesOf DEF ConstructorLine
  <2> QED BY <1>5, <2>2, <2>3 DEF ConstructorLine
<1>6. CASE ContractEnd(l)
  <2>1. Level = 1 /\ Level' = 0 /\ Delta(l) = 0 - 1
    BY <1>6, LevelIs, LevelLands, BracesOf DEF ContractEnd
  <2> QED BY <2>1
<1>7. CASE BlockBegins(l)
  <2>1. Level = n /\ Level >= 2 /\ Delta(l) = 1
    BY <1>7, LevelIs, BracesOf DEF BlockBegins
  <2>2. Level' = n + 1
    <3>1. Lands(n + 1, "contract", Second) /\ Second \notin {"signature", "constructorHead"}
      BY <1>7 DEF BlockBegins, InBody
    <3>2. n + 1 \in Nat /\ n + 1 # 0 /\ n + 1 # 1
      <4> HIDE DEF n
      <4> QED BY <1>0, <2>1
    <3> HIDE DEF n
    <3> QED BY <3>1, <3>2, LevelLands
  <2> HIDE DEF n
  <2> QED BY <1>0, <2>1, <2>2
<1>8. CASE BlockEnds(l)
  <2>1. Level = n /\ Level >= 2 /\ Delta(l) = 0 - 1 /\ n > 2
    BY <1>8, LevelIs, BracesOf DEF BlockEnds
  <2>2. Level' = n - 1
    <3>1. Lands(n - 1, "contract", Second) /\ Second \notin {"signature", "constructorHead"}
      BY <1>8 DEF BlockEnds, InBody
    <3>2. n - 1 \in Nat /\ n - 1 # 0 /\ n - 1 # 1
      <4> HIDE DEF n
      <4> QED BY <1>0, <2>1
    <3> HIDE DEF n
    <3> QED BY <3>1, <3>2, LevelLands
  <2> HIDE DEF n
  <2> QED BY <1>0, <2>1, <2>2
<1>9. CASE BodyEnds(l)
  <2>1. Level = 2 /\ Delta(l) = 0 - 1
    BY <1>9, LevelIs, BracesOf DEF BodyEnds
  <2>2. Level' = 1
    BY <1>9, LevelLands DEF BodyEnds, NoName
  <2> QED BY <2>1, <2>2
<1>10. ~(scopes' = scopes /\ Delta(l) = 0) =>
         \/ ContractLine(l) \/ HeaderBrace(l) \/ FunctionBrace(l) \/ ConstructorBrace(l)
         \/ ItemLine(l) \/ ConstructorLine(l) \/ ContractEnd(l)
         \/ BlockBegins(l) \/ BlockEnds(l) \/ BodyEnds(l)
  <2>1. CommentLine(l) \/ ImportLine(l) \/ HeaderLine(l) \/ Attributes(l) \/ MarkLine(l)
          \/ VariableLine(l) \/ MemberLine(l) => scopes' = scopes /\ Delta(l) = 0
    BY BracesOf DEF CommentLine, ImportLine, HeaderLine, Attributes, MarkLine, VariableLine, MemberLine, Stays
  <2>2. OneLineItem(l) => scopes' = scopes /\ Delta(l) = 0
    BY BracesOf DEF OneLineItem
  <2>3. BodyLine(l) => scopes' = scopes /\ Delta(l) = 0
    BY BracesOf DEF BodyLine
  <2> QED BY <2>1, <2>2, <2>3 DEF Moves
<1> QED BY <1>1, <1>2, <1>3, <1>4, <1>5, <1>6, <1>7, <1>8, <1>9, <1>10

\* What a line does to the items: it is in none of them, ...
Outside(l) ==
  /\ ~InUnit /\ ~InUnit'
  /\ l.kind \notin {"function", "signature", "oneLiner", "modifier", "bareModifier", "attributes"}
  /\ \/ /\ UNCHANGED source /\ l.kind \notin ContractLines \cup {"variable", "lockVariable"}
        /\ scopes = <<>> => scopes' = scopes /\ l.kind \in {"import", "comment"}
     \/ ContractLine(l)
     \/ VariableLine(l)
\* ... begins one, ...
Begins(l) ==
  /\ ~InUnit /\ InContract /\ scopes' # <<>>
  /\ l.kind \in {"function", "signature", "modifier", "bareModifier"}
  /\ source' = Begun(l)
  /\ Second' = IF l.kind = "bareModifier" THEN "modifier" ELSE l.kind
\* ... is one, ...
IsOne(l) ==
  ~InUnit /\ ~InUnit' /\ InContract /\ scopes' # <<>> /\ l.kind = "oneLiner" /\ source' = Begun(l)
\* ... goes on with one ...
Continues(l) ==
  /\ InUnit /\ scopes' # <<>>
  /\ \/ Second' = Second /\ (Second = "signature" => l.kind \in {"comment", "attributes"})
     \/ Second = "signature" /\ Second' = "function" /\ l.kind = "brace"
  /\ l.kind \notin Bodies \cup {"variable", "lockVariable", "import"} \cup ContractLines
  /\ source' = IF l.kind = "comment" THEN source ELSE Grown
\* ... or ends one.
Ends(l) ==
  /\ InUnit /\ Second \in {"function", "modifier"} /\ ~InUnit' /\ scopes' # <<>>
  /\ l.kind = "close" /\ Level = 2 /\ source' = Grown

\* Where scopes are left, some are open.
LEMMA LandsNotEmpty ==
  ASSUME NEW n, n # 0, NEW first, NEW second, Lands(n, first, second)
  PROVE  scopes' # <<>>
<1>1. Len(<<>>) = 0
  BY EmptySeq
<1> QED BY <1>1 DEF Lands

\* Every line has one of the five effects on the items.
LEMMA Effects ==
  ASSUME Typed, Shape, NEW l, Moves(l)
  PROVE  Outside(l) \/ Begins(l) \/ IsOne(l) \/ Continues(l) \/ Ends(l)
<1> DEFINE n == Len(scopes)
<1>0. /\ n \in Nat /\ (scopes = <<>> <=> n = 0)
      /\ scopes' = scopes => Second' = Second /\ (InUnit' <=> InUnit)
      /\ InHeader \/ InContract => Second = NoName /\ ~InUnit /\ scopes # <<>>
      /\ scopes = <<>> => Second = NoName /\ ~InUnit
      /\ Second # NoName => scopes # <<>>
      /\ InUnit' <=> Second' \in {"function", "signature", "modifier"}
  <2>1. n \in Nat /\ (scopes = <<>> <=> n = 0)
    BY TopIs
  <2>2. scopes' = scopes => Second' = Second /\ (InUnit' <=> InUnit)
    BY DEF Second, InUnit
  <2>3. InHeader \/ InContract => Second = NoName /\ n = 1
    BY DEF InHeader, InContract, Second
  <2>4. n = 0 => Second = NoName
    BY DEF Second
  <2> QED BY <2>1, <2>2, <2>3, <2>4 DEF InUnit, NoName
<1>1. CASE CommentLine(l)
  <2>1. scopes' = scopes /\ source' = source /\ l.kind = "comment"
    BY <1>1 DEF CommentLine, Stays
  <2>2. CASE InUnit
    BY <1>0, <2>1, <2>2 DEF Continues, Bodies, FunctionLines, ContractLines, InUnit, NoName
  <2>3. CASE ~InUnit
    BY <1>0, <2>1, <2>3 DEF Outside, ContractLines
  <2> QED BY <2>2, <2>3
<1>2. CASE ImportLine(l) \/ HeaderLine(l) \/ MarkLine(l) \/ MemberLine(l)
  <2>1. scopes' = scopes /\ source' = source /\ ~InUnit
    BY <1>0, <1>2 DEF ImportLine, HeaderLine, MarkLine, MemberLine, Stays, InUnit
  <2>2. l.kind \notin {"function", "signature", "oneLiner", "modifier", "bareModifier", "attributes"}
                         \cup ContractLines \cup {"variable", "lockVariable"}
    BY <1>2 DEF ImportLine, HeaderLine, MarkLine, MemberLine, ContractLines
  <2>3. scopes = <<>> => l.kind = "import"
    BY <1>0, <1>2 DEF ImportLine, HeaderLine, MarkLine, MemberLine, NoName
  <2> QED BY <1>0, <2>1, <2>2, <2>3 DEF Outside
<1>3. CASE ContractLine(l)
  <2>1. scopes = <<>> /\ Second' = NoName
    BY <1>3 DEF ContractLine, Lands
  <2>2. l.kind \notin {"function", "signature", "oneLiner", "modifier", "bareModifier", "attributes"}
    BY <1>3 DEF ContractLine, ContractLines
  <2> QED BY <1>0, <1>3, <2>1, <2>2 DEF Outside, NoName
<1>4. CASE HeaderBrace(l)
  BY <1>0, <1>4 DEF HeaderBrace, Lands, Outside, NoName, ContractLines
<1>5. CASE ConstructorBrace(l)
  <2>1. scopes # <<>> /\ ~InUnit /\ Second' = "constructor"
    BY <1>0, <1>5 DEF ConstructorBrace, Lands, InUnit, NoName
  <2> QED BY <1>0, <1>5, <2>1 DEF ConstructorBrace, Outside, ContractLines
<1>6. CASE ConstructorLine(l)
  BY <1>0, <1>6 DEF ConstructorLine, Lands, Outside, ContractLines
<1>7. CASE ContractEnd(l)
  BY <1>0, <1>7 DEF ContractEnd, Lands, Outside, NoName, ContractLines
<1>8. CASE VariableLine(l)
  BY <1>0, <1>8 DEF VariableLine, Outside
<1>9. CASE Attributes(l)
  BY <1>0, <1>9 DEF Attributes, Continues, Bodies, FunctionLines, ContractLines, InUnit, NoName
<1>10. CASE FunctionBrace(l)
  <2>1. scopes' # <<>> /\ Second' = "function"
    <3>1. Lands(2, "contract", "function")
      BY <1>10 DEF FunctionBrace
    <3> QED BY <3>1, LandsNotEmpty DEF Lands
  <2> QED BY <1>10, <2>1 DEF FunctionBrace, Continues, Bodies, FunctionLines, ContractLines, InUnit
<1>11. CASE ItemLine(l)
  <2>1. scopes' # <<>>
    BY <1>11, LandsNotEmpty DEF ItemLine
  <2>2. Second' = IF l.kind = "bareModifier" THEN "modifier" ELSE l.kind
    BY <1>11 DEF ItemLine, Lands
  <2> QED BY <1>0, <1>11, <2>1, <2>2 DEF ItemLine, Begins
<1>12. CASE OneLineItem(l)
  BY <1>0, <1>12 DEF OneLineItem, IsOne
<1>13. CASE BodyLine(l) \/ BlockBegins(l) \/ BlockEnds(l)
  <2>1. InBody /\ Grows /\ scopes # <<>>
    BY <1>0, <1>13 DEF BodyLine, BlockBegins, BlockEnds, InBody, NoName
  <2>2. l.kind \in Statements \cup {"else", "block", "yulBlock", "close"}
    BY <1>13 DEF BodyLine, BlockBegins, BlockEnds, Statements
  <2>3. Second' = Second /\ scopes' # <<>>
    <3>1. CASE BodyLine(l)
      BY <1>0, <2>1, <3>1 DEF BodyLine
    <3>2. CASE BlockBegins(l)
      <4>1. n + 1 # 0
        <5> HIDE DEF n
        <5> QED BY <1>0
      <4> QED BY <3>2, <4>1, LandsNotEmpty DEF BlockBegins, Lands
    <3>3. CASE BlockEnds(l)
      <4>1. n > 2 /\ Lands(n - 1, "contract", Second)
        BY <3>3 DEF BlockEnds
      <4>2. n - 1 # 0
        <5> HIDE DEF n
        <5> QED BY <1>0, <4>1
      <4> QED BY <4>1, <4>2, LandsNotEmpty DEF Lands
    <3> QED BY <1>13, <3>1, <3>2, <3>3
  <2>4. l.kind \notin Bodies \cup {"variable", "lockVariable", "import", "comment", "attributes"}
                          \cup ContractLines
    BY <2>2 DEF Statements, Bodies, FunctionLines, ContractLines
  <2>5. CASE Second = "constructor"
    <3>1. source' = source /\ ~InUnit
      BY <2>1, <2>5 DEF Grows, InUnit
    <3>2. ~InUnit'
      BY <1>0, <2>3, <2>5
    <3> QED BY <2>1, <2>4, <3>1, <3>2 DEF Outside, Bodies, FunctionLines
  <2>6. CASE Second # "constructor"
    <3>1. source' = Grown /\ InUnit /\ Second # "signature"
      BY <2>1, <2>6 DEF Grows, InUnit, InBody
    <3>2. l.kind # "comment"
      BY <2>4
    <3> QED BY <2>3, <2>4, <3>1, <3>2 DEF Continues
  <2> QED BY <2>5, <2>6
<1>14. CASE BodyEnds(l)
  <2>1. InBody /\ Grows /\ scopes # <<>> /\ l.kind = "close" /\ Second' = NoName /\ scopes' # <<>>
    BY <1>0, <1>14, LandsNotEmpty DEF BodyEnds, InBody, NoName, Lands
  <2>2. Level = 2
    BY <1>14, LevelIs DEF BodyEnds
  <2>3. CASE Second = "constructor"
    BY <1>0, <2>1, <2>3 DEF Grows, Outside, InUnit, NoName, ContractLines
  <2>4. CASE Second # "constructor"
    BY <1>0, <2>1, <2>2, <2>4 DEF Grows, Ends, InUnit, InBody, NoName
  <2> QED BY <2>3, <2>4
<1> QED BY <1>1, <1>2, <1>3, <1>4, <1>5, <1>6, <1>7, <1>8, <1>9, <1>10, <1>11, <1>12, <1>13, <1>14 DEF Moves

-----------------------------------------------------------------------------
(* The open item is the last of the last contract. *)

OpenItem == LastItem(LastContract)

\* The open item: a function or modifier that began at a line of the file, with its
\* first brace behind it unless its head goes on
OpenInv ==
  InUnit =>
    /\ LastContract.items # <<>>
    /\ OpenItem.kind = IF InFunction THEN "function" ELSE "modifier"
    /\ OpenItem.lines[1] \in 1..Len(file)
    /\ Second = "signature" =>
         /\ file[OpenItem.lines[1]].kind = "signature"
         /\ \A i \in OpenItem.lines[1]..Len(file) : Opens(file[i]) = 0
    /\ Second = "function" => \E i \in OpenItem.lines[1]..Len(file) : Opens(file[i]) = 1

\* The invariant of the language
Grammar == Typed /\ Shape /\ (scopes # <<>> => source # <<>>) /\ OpenInv

\* After a line that begins one the open item is that line ...
LEMMA OpenBegun ==
  ASSUME Typed, source # <<>>, NEW l \in LineChoices(style), source' = Begun(l)
  PROVE  /\ source' # <<>> /\ LastContract'.items # <<>>
         /\ OpenItem' = Item(UnitKind(l), l)
         /\ Len(LastContract'.items) = Len(LastContract.items) + 1
         /\ \A j \in 1..Len(LastContract.items) : LastContract'.items[j] = LastContract.items[j]
<1> DEFINE its == LastContract.items
           x   == Item(UnitKind(l), l)
<1>1. Len(source') = Len(source) /\ Len(source) \in Nat /\ Len(source) \in 1..Len(source)
  BY BegunIs, LastIs
<1>2. source' # <<>>
  BY <1>1, EmptySeq
<1>3. LastContract' = Begun(l)[Len(source)] /\ LastContract'.items = Append(its, x)
  BY <1>1, BegunIs DEF LastContract
<1>4. /\ Append(its, x) # <<>> /\ Len(Append(its, x)) = Len(its) + 1
      /\ \A j \in 1..Len(its) : Append(its, x)[j] = its[j]
      /\ Append(its, x)[Len(its) + 1] = x
  <2>1. its \in Seq(Items) /\ x \in Items
    BY LastIs, ItemType
  <2> HIDE DEF its, x
  <2> QED BY <2>1, AppendProperties
<1>5. OpenItem' = LastContract'.items[Len(LastContract'.items)]
  BY DEF OpenItem, LastItem
<1> HIDE DEF its, x
<1> QED BY <1>2, <1>3, <1>4, <1>5 DEF its, x

\* ... and after one that goes on with it, the open item with that line, too.
LEMMA OpenGrown ==
  ASSUME Typed, source # <<>>, LastContract.items # <<>>, source' = Grown
  PROVE  /\ source' # <<>> /\ LastContract'.items # <<>>
         /\ OpenItem \in Items /\ OpenItem' = Longer(OpenItem)
         /\ Len(LastContract'.items) = Len(LastContract.items)
         /\ \A j \in 1..(Len(LastContract.items) - 1) : LastContract'.items[j] = LastContract.items[j]
<1> DEFINE its == LastContract.items
<1>1. Len(source') = Len(source) /\ Len(source) \in Nat /\ Len(source) \in 1..Len(source)
  BY GrownIs, LastIs
<1>2. source' # <<>>
  BY <1>1, EmptySeq
<1>3. LastContract' = Grown[Len(source)] /\ Len(LastContract'.items) = Len(its)
  BY <1>1, GrownIs DEF LastContract
<1>4. Len(its) \in Nat /\ Len(its) \in 1..Len(its) /\ OpenItem \in Items
  BY LastIs DEF OpenItem
<1>5. \A j \in 1..Len(its) : LastContract'.items[j] = IF j = Len(its) THEN Longer(OpenItem) ELSE its[j]
  BY <1>3, GrownIs DEF OpenItem
<1>6. LastContract'.items # <<>>
  BY <1>3, <1>4, EmptySeq
<1>7. OpenItem' = LastContract'.items[Len(LastContract'.items)]
  BY DEF OpenItem, LastItem
<1> HIDE DEF its
<1>8. \A j \in 1..(Len(its) - 1) : j \in 1..Len(its) /\ j # Len(its)
  BY <1>4
<1>9. \A j \in 1..(Len(its) - 1) : LastContract'.items[j] = its[j]
  BY <1>5, <1>8
<1>10. OpenItem' = Longer(OpenItem)
  BY <1>3, <1>4, <1>5, <1>7
<1> QED BY <1>2, <1>3, <1>4, <1>6, <1>9, <1>10 DEF its

\* A line keeps the types of the language's state, and an open scope has its contract.
LEMMA TypedStep ==
  ASSUME Grammar, NEW l, Reads(l)
  PROVE  Typed' /\ (scopes' # <<>> => source' # <<>>) /\ Contracts' = Contracts /\ Items' = Items
<1>1. Typed /\ Shape /\ OpenInv /\ (scopes # <<>> => source # <<>>)
  BY DEF Grammar
<1>2. Moves(l) /\ scopes' \in Seq(ScopeKinds)
  BY <1>1, ReadMoves
<1>3. style' = style /\ l \in LineChoices(style) /\ Len(file) \in Nat /\ file' \in Seq(LineChoices(style'))
      /\ l.kind \in Kinds
  BY <1>1, FileIs
<1>4. Items' = Items /\ Contracts' = Contracts
  BY <1>3 DEF Items, Names, Contracts
<1>5. source' \in Seq(Contracts) /\ (scopes' # <<>> => source' # <<>>)
  <2>1. InContract \/ InUnit => scopes # <<>>
    BY <1>1, TopIs DEF InContract, InUnit, Second, NoName
  <2>2. CASE Outside(l)
    <3>1. CASE UNCHANGED source /\ (scopes = <<>> => scopes' = scopes)
      BY <1>1, <3>1 DEF Typed
    <3>2. CASE ContractLine(l)
      BY <1>1, <1>3, <3>2, NewContractIs DEF ContractLine
    <3>3. CASE VariableLine(l)
      <4>1. source # <<>> /\ source' = WithVariable(l)
        BY <1>1, <2>1, <3>3 DEF VariableLine
      <4>2. source' \in Seq(Contracts) /\ Len(source') = Len(source)
        BY <1>1, <1>3, <4>1, WithVariableIs
      <4>3. Len(source) # 0
        BY <1>1, <4>1, EmptySeq DEF Typed
      <4> QED BY <4>2, <4>3, EmptySeq
    <3> QED BY <2>2, <3>1, <3>2, <3>3 DEF Outside
  <2>3. CASE Begins(l) \/ IsOne(l)
    <3>1. source # <<>> /\ source' = Begun(l)
      BY <1>1, <2>1, <2>3 DEF Begins, IsOne
    <3> QED BY <1>1, <1>3, <3>1, BegunIs, OpenBegun
  <2>4. CASE Continues(l) \/ Ends(l)
    <3>1. source # <<>> /\ LastContract.items # <<>> /\ (source' = Grown \/ source' = source)
      BY <1>1, <2>1, <2>4 DEF Continues, Ends, OpenInv
    <3>2. CASE source' = Grown
      BY <1>1, <3>1, <3>2, GrownIs, OpenGrown
    <3>3. CASE source' = source
      BY <1>1, <3>1, <3>3 DEF Typed
    <3> QED BY <3>1, <3>2, <3>3
  <2> QED BY <1>1, <1>2, <2>2, <2>3, <2>4, Effects
<1> QED BY <1>1, <1>2, <1>3, <1>4, <1>5 DEF Typed

\* A line keeps what is known of the open item.
LEMMA OpenStep ==
  ASSUME Grammar, NEW l, Reads(l)
  PROVE  OpenInv'
<1>1. Typed /\ Shape /\ OpenInv /\ (scopes # <<>> => source # <<>>)
  BY DEF Grammar
<1>2. Moves(l)
  BY <1>1, ReadMoves
<1>3. /\ style' = style /\ l \in LineChoices(style) /\ Len(file) \in Nat /\ Here = Len(file) + 1
      /\ Len(file') = Len(file) + 1
      /\ \A i \in 1..Len(file) : file'[i] = file[i]
      /\ file'[Len(file) + 1] = l
  BY <1>1, FileIs
<1> DEFINE n == Len(file)
<1>4. InContract \/ InUnit => scopes # <<>>
  BY <1>1, TopIs DEF InContract, InUnit, Second, NoName
<1>5. ASSUME Begins(l) PROVE OpenInv'
  <2>1. source # <<>> /\ source' = Begun(l)
    BY <1>1, <1>4, <1>5 DEF Begins
  <2>2. LastContract'.items # <<>> /\ OpenItem' = Item(UnitKind(l), l)
    BY <1>1, <1>3, <2>1, OpenBegun
  <2>3. OpenItem'.kind = UnitKind(l) /\ OpenItem'.lines = <<n + 1>>
    BY <1>1, <1>3, <2>2, ItemType
  <2>4. OpenItem'.lines[1] = n + 1
    BY <2>3
  <2>5. InUnit' /\ OpenItem'.kind = IF InFunction' THEN "function" ELSE "modifier"
    BY <1>5, <2>3 DEF Begins, InUnit, InFunction, UnitKind, FunctionLines
  <2>6. n + 1 \in 1..Len(file')
    BY <1>3
  <2>7. Second' = "signature" => l.kind = "signature" /\ Opens(l) = 0
    BY <1>5, BracesOf DEF Begins
  <2>8. Second' = "function" => Opens(l) = 1
    BY <1>5, BracesOf DEF Begins
  <2>9. \A i \in (n + 1)..Len(file') : i = n + 1
    BY <1>3
  <2>10. Second' = "signature" => file'[n + 1].kind = "signature" /\ \A i \in (n + 1)..Len(file') : Opens(file'[i]) = 0
    BY <1>3, <2>7, <2>9
  <2>11. Second' = "function" => \E i \in (n + 1)..Len(file') : Opens(file'[i]) = 1
    <3>1. n + 1 \in (n + 1)..Len(file')
      BY <1>3
    <3> QED BY <1>3, <2>8, <3>1
  <2> HIDE DEF n
  <2> QED BY <2>2, <2>4, <2>5, <2>6, <2>10, <2>11 DEF OpenInv
<1>6. ASSUME Continues(l) PROVE OpenInv'
  <2>1. InUnit /\ source # <<>> /\ LastContract.items # <<>>
    BY <1>1, <1>4, <1>6 DEF Continues, OpenInv
  <2>2. /\ LastContract'.items # <<>>
        /\ OpenItem'.kind = OpenItem.kind /\ OpenItem'.lines[1] = OpenItem.lines[1]
    <3>1. CASE source' = source
      BY <2>1, <3>1 DEF LastContract, OpenItem, LastItem
    <3>2. CASE source' = Grown
      BY <1>1, <2>1, <3>2, OpenGrown, LongerIs
    <3> QED BY <1>6, <3>1, <3>2 DEF Continues
  <2> DEFINE a == OpenItem.lines[1]
  <2>3. /\ OpenItem.kind = IF InFunction THEN "function" ELSE "modifier"
        /\ a \in 1..n
        /\ Second = "signature" => file[a].kind = "signature" /\ \A i \in a..n : Opens(file[i]) = 0
        /\ Second = "function" => \E i \in a..n : Opens(file[i]) = 1
    BY <1>1, <2>1 DEF OpenInv
  <2> HIDE DEF a
  <2>4. InFunction' <=> InFunction
    BY <1>6 DEF Continues, InFunction
  <2>5. a \in 1..Len(file')
    BY <1>3, <2>3
  <2>6. \A i \in a..Len(file') : i \in a..n \/ i = n + 1
    BY <1>3, <2>3
  <2>7. \A i \in a..n : i \in 1..n /\ i \in a..Len(file') /\ file'[i] = file[i]
    BY <1>3, <2>3
  <2>8. ASSUME Second' = "signature"
        PROVE  file'[a].kind = "signature" /\ \A i \in a..Len(file') : Opens(file'[i]) = 0
    <3>1. Second = "signature" /\ Opens(l) = 0
      BY <1>6, <2>8, BracesOf DEF Continues
    <3> QED BY <1>3, <2>3, <2>6, <2>7, <3>1
  <2>9. ASSUME Second' = "function"
        PROVE  \E i \in a..Len(file') : Opens(file'[i]) = 1
    <3>1. CASE Second = "function"
      BY <2>3, <2>7, <3>1
    <3>2. CASE Second # "function"
      <4>1. Opens(l) = 1
        BY <1>6, <2>9, <3>2, BracesOf DEF Continues
      <4>2. n + 1 \in a..Len(file')
        BY <1>3, <2>3
      <4> QED BY <1>3, <4>1, <4>2
    <3> QED BY <3>1, <3>2
  <2> QED BY <2>2, <2>3, <2>4, <2>5, <2>8, <2>9 DEF OpenInv, a
<1> HIDE DEF n
<1>7. ~InUnit' => OpenInv'
  BY DEF OpenInv
<1> QED BY <1>1, <1>2, <1>5, <1>6, <1>7, Effects DEF Outside, IsOne, Ends

\* A line keeps the grammar's invariant, and does to items and braces what was said.
LEMMA GrammarStep ==
  ASSUME Grammar, NEW l, Reads(l)
  PROVE  /\ Grammar' /\ Moves(l) /\ Level' = Level + Delta(l)
         /\ Outside(l) \/ Begins(l) \/ IsOne(l) \/ Continues(l) \/ Ends(l)
BY TypedStep, OpenStep, ReadMoves, LevelStep, Effects DEF Grammar

\* An empty file is one of the language.
LEMMA GrammarInit == ParseInit => Grammar
<1> SUFFICES ASSUME ParseInit PROVE Grammar
  OBVIOUS
<1>1. Typed
  BY EmptySeq DEF ParseInit, Typed
<1>2. Len(scopes) = 0
  BY EmptySeq DEF ParseInit
<1>3. Shape
  BY <1>2 DEF Shape
<1>4. ~InUnit
  BY <1>2 DEF InUnit, Second, NoName
<1> QED BY <1>1, <1>3, <1>4 DEF Grammar, OpenInv, ParseInit

-----------------------------------------------------------------------------
(* The count of the braces *)

\* The braces open by the language are the scopes but for heads of several lines.
LEMMA BracesAre ==
  ASSUME Typed, Shape
  PROVE  Braces = Level
<1> DEFINE n == Len(scopes)
           S == {i \in 1..n : scopes[i] \notin {"header", "signature", "constructorHead"}}
<1>0. n \in Nat /\ Braces = Cardinality(S)
  BY TopIs DEF Braces
<1>1. CASE n = 0 \/ InHeader
  <2>1. S = {}
    BY <1>1 DEF InHeader
  <2>2. Level = 0
    BY <1>1 DEF Level
  <2> QED BY <1>0, <2>1, <2>2, FS_EmptySet
<1>2. CASE Second \in {"signature", "constructorHead"}
  <2>1. Level = 1 /\ n = 2
    BY <1>2, LevelIs
  <2>2. S = {1}
    <3>1. scopes[1] = "contract" /\ scopes[2] = Second
      BY <2>1 DEF Shape, Second
    <3> QED BY <1>2, <2>1, <3>1
  <2> QED BY <1>0, <2>1, <2>2, FS_Singleton
<1>3. CASE n # 0 /\ ~InHeader /\ Second \notin {"signature", "constructorHead"}
  <2>1. Level = n
    BY <1>3 DEF Level
  <2>2. \A i \in 1..n : scopes[i] \notin {"header", "signature", "constructorHead"}
    <3>1. /\ n >= 1 => scopes[1] \in {"contract", "header"}
          /\ n >= 2 => scopes[1] = "contract" /\ scopes[2] = Second
          /\ \A i \in 3..n : scopes[i] \in {"block", "assembly"}
      BY DEF Shape, Second
    <3>2. n >= 2 => Second \in MemberScopes
      BY DEF Shape, Second
    <3>3. n = 1 => scopes[1] = "contract"
      BY <1>3, <3>1 DEF InHeader
    <3>4. TAKE i \in 1..n
    <3>5. \/ i = 1 /\ n = 1
          \/ i = 1 /\ n >= 2
          \/ i = 2 /\ n >= 2
          \/ i \in 3..n
      <4> HIDE DEF n
      <4> QED BY <1>0
    <3> HIDE DEF n
    <3> QED BY <1>3, <3>1, <3>2, <3>3, <3>5 DEF MemberScopes
  <2>3. S = 1..n
    BY <2>2
  <2>4. Cardinality(1..n) = n
    <3> HIDE DEF n
    <3> QED BY <1>0, FS_Interval
  <2> QED BY <1>0, <2>1, <2>3, <2>4
<1> QED BY <1>1, <1>2, <1>3

\* The parser's count (DepthIsTrue, with the types it rests on)
CountInv ==
  /\ contracts \in Seq(Contracts)
  /\ unit \in Items \cup {NoUnit}
  /\ current => /\ contracts # <<>> /\ contracts[Len(contracts)].line \in 1..Len(file)
                /\ contractDepth = Level + (IF file[contracts[Len(contracts)].line].kind = "emptyContract"
                                            THEN 1 ELSE 0)

\* The contract a finished function goes to keeps its line.
LEMMA FinishedIs ==
  ASSUME contracts \in Seq(Contracts), contracts # <<>>, NEW u \in Items
  PROVE  /\ Finished(u) \in Seq(Contracts) /\ Finished(u) # <<>> /\ Len(Finished(u)) = Len(contracts)
         /\ \A k \in 1..Len(contracts) :
              /\ k # Len(contracts) => Finished(u)[k] = contracts[k]
              /\ Finished(u)[k].line = contracts[k].line /\ Finished(u)[k].vars = contracts[k].vars
         /\ Finished(u)[Len(contracts)].items = Append(contracts[Len(contracts)].items, u)
         /\ contracts[Len(contracts)].items \in Seq(Items)
<1> DEFINE m   == Len(contracts)
           its == Append(contracts[m].items, u)
           new == [contracts EXCEPT ![m].items = its]
<1>1. m \in Nat /\ m # 0
  BY EmptySeq, LenProperties
<1>2. m \in 1..m
  BY <1>1
<1>3. contracts[m] \in Contracts
  BY <1>1, <1>2, ElementOfSeq
<1>4. contracts[m].items \in Seq(Items)
  BY <1>3 DEF Contracts
<1>5. its \in Seq(Items)
  BY <1>4, AppendProperties
<1>6. /\ new \in Seq(Contracts) /\ Len(new) = m
      /\ \A k \in 1..m :
           /\ k # m => new[k] = contracts[k]
           /\ k = m => /\ new[k].items = its
                       /\ new[k].line = contracts[k].line
                       /\ new[k].vars = contracts[k].vars
  <2> HIDE DEF its
  <2> QED BY <1>5, ItemsChanged
<1>7. Finished(u) = new
  BY DEF Finished
<1>8. new # <<>>
  BY <1>1, <1>6, EmptySeq
<1> HIDE DEF new, its
<1>9. \A k \in 1..m : new[k].line = contracts[k].line /\ new[k].vars = contracts[k].vars
  BY <1>6
<1> QED BY <1>2, <1>4, <1>6, <1>7, <1>8, <1>9 DEF its

\* A line keeps the parser's count, whatever the layout (parser.go:201-264).
LEMMA CountStep ==
  ASSUME Grammar, CountInv, NEW l, Reads(l), Parse(l)
  PROVE  CountInv'
<1>1. Typed /\ Shape
  BY DEF Grammar
<1>2. /\ style' = style /\ l \in LineChoices(style) /\ Len(file) \in Nat /\ Here = Len(file) + 1
      /\ Len(file') = Len(file) + 1
      /\ \A i \in 1..Len(file) : file'[i] = file[i]
      /\ file'[Len(file) + 1] = l
      /\ l.kind \in Kinds
  BY <1>1, FileIs
<1>3. Contracts' = Contracts /\ Items' = Items /\ NoUnit' = NoUnit
  BY TypedStep DEF NoUnit
<1>4. Level \in Nat /\ Level' = Level + Delta(l) /\ Delta(l) = Opens(l) - Closes(l)
      /\ Opens(l) \in {0, 1} /\ Closes(l) \in {0, 1}
  BY <1>1, GrammarStep, LevelIs, BracesOf
<1> DEFINE n == Len(file)
           m == Len(contracts)
           a == contracts[m].line
           e == IF file[a].kind = "emptyContract" THEN 1 ELSE 0
\* What a line that stays in the contract leaves to show
<1>5. ASSUME current, current' = TRUE, contracts' \in Seq(Contracts), contracts' # <<>>,
             Len(contracts') = m, contracts'[m].line = a,
             contractDepth' = contractDepth + Delta(l), unit' \in Items \cup {NoUnit}
      PROVE  CountInv'
  <2>1. a \in 1..n /\ contractDepth = Level + e
    BY <1>5 DEF CountInv
  <2>2. a \in 1..Len(file') /\ file'[a] = file[a]
    BY <1>2, <2>1
  <2>3. contractDepth' = Level' + e
    <3> HIDE DEF e
    <3>1. e \in {0, 1}
      BY DEF e
    <3> QED BY <1>4, <1>5, <2>1, <3>1
  <2>4. contracts'[Len(contracts')].line = a
    BY <1>5
  <2> HIDE DEF a
  <2> QED BY <1>3, <1>5, <2>2, <2>3, <2>4 DEF CountInv, e
<1>6. CASE CommentSkipped(l)
  <2>1. UNCHANGED parserVars /\ Delta(l) = 0
    BY <1>6, BracesOf DEF CommentSkipped
  <2>2. CASE current
    <3>1. contractDepth' = contractDepth + Delta(l)
      <4>1. contractDepth \in Int
        BY <1>4, <2>2 DEF CountInv
      <4> QED BY <2>1, <4>1 DEF parserVars
    <3> QED BY <1>5, <2>1, <2>2, <3>1 DEF CountInv, parserVars
  <2>3. CASE ~current
    BY <1>3, <2>1, <2>3 DEF CountInv, parserVars
  <2> QED BY <2>2, <2>3
<1>7. CASE OutsideLine(l)
  BY <1>3, <1>7 DEF OutsideLine, CountInv
<1>8. CASE ContractBegins(l)
  <2> DEFINE c == [line |-> Here, items |-> <<>>, vars |-> {}]
  <2>1. c \in Contracts
    BY <1>2, EmptySeq DEF Contracts
  <2>2. contracts' = Append(contracts, c) /\ contractDepth' = Opens(l) /\ unit' = unit
        /\ l.kind \in ContractLines
    BY <1>8 DEF ContractBegins, Decl
  <2>3. /\ contracts' \in Seq(Contracts) /\ contracts' # <<>> /\ Len(contracts') = m + 1
        /\ contracts'[m + 1] = c
    <3> HIDE DEF c
    <3> QED BY <2>1, <2>2, AppendProperties DEF CountInv
  <2>4. contracts'[Len(contracts')].line = n + 1 /\ n + 1 \in 1..Len(file')
    BY <1>2, <2>3
  <2>5. scopes = <<>>
    <3>1. Moves(l)
      BY GrammarStep
    <3>2. l.kind \notin {"comment", "import", "parents", "base", "brace", "attributes", "constructorMark",
                          "close", "else", "block", "yulBlock", "variable", "lockVariable", "gap"} \cup Bodies
                         \cup Statements
      BY <2>2 DEF ContractLines, Bodies, FunctionLines, Statements
    <3>3. ~(\/ CommentLine(l) \/ ImportLine(l) \/ HeaderLine(l) \/ HeaderBrace(l)
            \/ Attributes(l) \/ FunctionBrace(l) \/ MarkLine(l) \/ ConstructorBrace(l))
      BY <3>2 DEF CommentLine, ImportLine, HeaderLine, HeaderBrace, Attributes, FunctionBrace, MarkLine, ConstructorBrace
    <3>4. ~(\/ ItemLine(l) \/ OneLineItem(l) \/ ConstructorLine(l) \/ VariableLine(l) \/ MemberLine(l)
            \/ ContractEnd(l))
      BY <3>2 DEF ItemLine, OneLineItem, ConstructorLine, VariableLine, MemberLine, ContractEnd, Bodies, FunctionLines
    <3>5. ~(BodyLine(l) \/ BlockBegins(l) \/ BlockEnds(l) \/ BodyEnds(l))
      BY <3>2 DEF BodyLine, BlockBegins, BlockEnds, BodyEnds, Statements
    <3>6. ContractLine(l)
      BY <3>1, <3>3, <3>4, <3>5 DEF Moves
    <3> QED BY <3>6 DEF ContractLine
  <2>6. Level = 0
    BY <1>1, <2>5, LevelIs
  <2>7. Opens(l) = Level' + IF l.kind = "emptyContract" THEN 1 ELSE 0
    <3>1. CASE l.kind = "emptyContract"
      BY <1>4, <2>6, <3>1, BracesOf
    <3>2. CASE l.kind # "emptyContract"
      <4>1. Closes(l) = 0
        BY <2>2, <3>2, BracesOf DEF ContractLines
      <4> QED BY <1>4, <2>6, <3>2, <4>1
    <3> QED BY <3>1, <3>2
  <2> QED BY <1>2, <1>3, <2>2, <2>3, <2>4, <2>7 DEF CountInv
<1>9. CASE UnitBegins(l)
  <2> DEFINE u == Item(UnitKind(l), l)
  <2>1. u \in Items
    BY <1>1, <1>2, ItemType
  <2>2. current /\ contracts # <<>> /\ contracts \in Seq(Contracts) /\ unit \in Items \cup {NoUnit}
    BY <1>9 DEF UnitBegins, CountInv
  <2>3. m \in 1..m
    BY <2>2, EmptySeq, LenProperties
  <2>4. /\ current' = current /\ contractDepth' = contractDepth + Delta(l)
        /\ (contracts' = Finished(u) /\ unit' = unit) \/ (contracts' = contracts /\ unit' = u)
    BY <1>9 DEF UnitBegins
  <2> HIDE DEF u
  <2>5. contracts' \in Seq(Contracts) /\ contracts' # <<>> /\ Len(contracts') = m /\ contracts'[m].line = a
    BY <2>1, <2>2, <2>3, <2>4, FinishedIs
  <2> QED BY <1>5, <2>1, <2>2, <2>4, <2>5
<1>10. CASE UnitContinues(l)
  <2> DEFINE u == Longer(unit)
  <2>1. current /\ contracts # <<>> /\ contracts \in Seq(Contracts) /\ unit \in Items
    BY <1>10 DEF UnitContinues, CountInv
  <2>2. u \in Items
    BY <1>1, <2>1, LongerIs
  <2>3. m \in 1..m
    BY <2>1, EmptySeq, LenProperties
  <2>4. /\ current' = current /\ contractDepth' = contractDepth + Delta(l)
        /\ (contracts' = Finished(u) /\ unit' = NoUnit) \/ (contracts' = contracts /\ unit' = u)
    BY <1>10 DEF UnitContinues, Longer
  <2> HIDE DEF u
  <2>5. contracts' \in Seq(Contracts) /\ contracts' # <<>> /\ Len(contracts') = m /\ contracts'[m].line = a
    BY <2>1, <2>2, <2>3, <2>4, FinishedIs
  <2> QED BY <1>5, <2>1, <2>2, <2>4, <2>5
<1>11. CASE ScopeLine(l)
  <2>1. current /\ contracts # <<>> /\ contracts \in Seq(Contracts) /\ unit' = unit
        /\ unit \in Items \cup {NoUnit}
    BY <1>11 DEF ScopeLine, CountInv
  <2>3. m \in 1..m
    BY <2>1, EmptySeq, LenProperties
  <2> DEFINE vs  == {l.kind}
             new == [contracts EXCEPT ![Len(contracts)].vars = @ \cup vs]
  <2>4. contracts' = contracts \/ contracts' = new
    BY <1>11 DEF ScopeLine
  <2>5. /\ new \in Seq(Contracts) /\ Len(new) = m
        /\ \A k \in 1..m : new[k].line = contracts[k].line
    <3>1. vs \in SUBSET Kinds
      BY <1>2
    <3> HIDE DEF vs
    <3> QED BY <2>1, <3>1, VarsChanged
  <2> HIDE DEF new
  <2>6. contracts' \in Seq(Contracts) /\ Len(contracts') = m /\ contracts'[m].line = a
    BY <2>1, <2>3, <2>4, <2>5
  <2>7. contracts' # <<>>
    BY <2>3, <2>6, EmptySeq
  <2>8. CASE current'
    <3>1. contractDepth' = contractDepth + Delta(l) /\ current' = TRUE
      BY <1>11, <2>1, <2>8 DEF ScopeLine
    <3> QED BY <1>5, <2>1, <2>6, <2>7, <3>1
  <2>9. CASE ~current'
    BY <1>3, <2>1, <2>6, <2>9 DEF CountInv
  <2> QED BY <2>8, <2>9
<1> QED BY <1>6, <1>7, <1>8, <1>9, <1>10, <1>11 DEF Parse

-----------------------------------------------------------------------------
(* The graph's parser *)

\* The braces open say whether the file is between contracts.
LEMMA LevelUp ==
  Typed /\ Shape =>
    /\ Level \in Nat
    /\ ~InHeader => (Level = 0 <=> scopes = <<>>)
    /\ Second \in {"function", "modifier"} => Level >= 2
<1> SUFFICES ASSUME Typed, Shape
             PROVE  /\ Level \in Nat
                    /\ ~InHeader => (Level = 0 <=> scopes = <<>>)
                    /\ Second \in {"function", "modifier"} => Level >= 2
  OBVIOUS
<1> QED BY TopIs, LevelIs DEF Level, InBody

\* The same of the state after a step.
LEMMA LevelUpAfter ==
  ASSUME Typed', Shape'
  PROVE  /\ Level' \in Nat
         /\ ~InHeader' => (Level' = 0 <=> scopes' = <<>>)
         /\ Second' \in {"function", "modifier"} => Level' >= 2
<1>1. (Typed /\ Shape =>
        /\ Level \in Nat
        /\ ~InHeader => (Level = 0 <=> scopes = <<>>)
        /\ Second \in {"function", "modifier"} => Level >= 2)'
  BY LevelUp, PTL
<1> QED BY <1>1

\* A contract's header goes on over several lines only after a bare contract line.
LEMMA HeaderFrom ==
  ASSUME Typed, Shape, NEW l, Moves(l), InHeader'
  PROVE  InHeader \/ l.kind = "bareContract"
<1>1. scopes' = scopes => InHeader
  BY DEF InHeader
<1>2. ASSUME NEW n, NEW first, NEW second, Lands(n, first, second)
      PROVE  n = 1 /\ first = "header"
  BY <1>2 DEF Lands, InHeader
<1>3. ~(HeaderBrace(l) \/ FunctionBrace(l) \/ ConstructorBrace(l) \/ ItemLine(l) \/ ConstructorLine(l)
        \/ ContractEnd(l) \/ BlockBegins(l) \/ BlockEnds(l) \/ BodyEnds(l))
  BY <1>2 DEF HeaderBrace, FunctionBrace, ConstructorBrace, ItemLine, ConstructorLine, ContractEnd,
              BlockBegins, BlockEnds, BodyEnds
<1>4. ContractLine(l) => l.kind = "bareContract"
  BY <1>2 DEF ContractLine
<1> QED
  BY <1>1, <1>3, <1>4 DEF Moves, CommentLine, ImportLine, HeaderLine, Attributes, MarkLine, OneLineItem,
                          VariableLine, MemberLine, BodyLine, Stays

\* A line adds its kind to those of the file.
LEMMA HasStep ==
  ASSUME Typed, NEW l, Reads(l), NEW K
  PROVE  Has(K)' <=> Has(K) \/ l.kind \in K
<1> DEFINE n == Len(file)
<1>1. /\ n \in Nat /\ Len(file') = n + 1 /\ file'[n + 1] = l
      /\ \A i \in 1..n : file'[i] = file[i]
  BY FileIs
<1>2. \A i \in 1..Len(file') : i \in 1..n \/ i = n + 1
  BY <1>1
<1>3. n + 1 \in 1..Len(file') /\ \A i \in 1..n : i \in 1..Len(file')
  BY <1>1
<1> HIDE DEF n
<1>4. Has(K) <=> \E i \in 1..n : file[i].kind \in K
  BY DEF Has, n
<1>5. Has(K)' <=> \E i \in 1..Len(file') : file'[i].kind \in K
  BY DEF Has
<1> QED BY <1>1, <1>2, <1>3, <1>4, <1>5

\* A finished function or modifier with one more line
LEMMA GrownFinished ==
  ASSUME Typed, contracts \in Seq(Contracts), contracts # <<>>, NEW u \in Items, source = Finished(u)
  PROVE  Grown = Finished(Longer(u))
<1> DEFINE m   == Len(contracts)
           n   == Len(contracts[m].items)
           its == contracts[m].items
<1>1. /\ source # <<>> /\ Len(source) = m /\ LastContract.items = Append(its, u)
      /\ \A k \in 1..m : /\ k # m => source[k] = contracts[k]
                         /\ source[k].line = contracts[k].line /\ source[k].vars = contracts[k].vars
      /\ its \in Seq(Items) /\ m \in 1..m /\ m \in Nat
  <2>1. m \in Nat /\ m # 0
    BY EmptySeq, LenProperties
  <2> QED BY <2>1, FinishedIs DEF LastContract
<1>2. /\ LastContract.items # <<>> /\ Len(LastContract.items) = n + 1 /\ n \in Nat
      /\ \A j \in 1..n : LastContract.items[j] = its[j]
      /\ LastContract.items[n + 1] = u /\ LastItem(LastContract) = u
  <2>1. /\ Append(its, u) # <<>> /\ Len(Append(its, u)) = n + 1 /\ n \in Nat
        /\ \A j \in 1..n : Append(its, u)[j] = its[j]
        /\ Append(its, u)[n + 1] = u
    <3> HIDE DEF its
    <3> QED BY <1>1, AppendProperties DEF its
  <2> QED BY <1>1, <2>1 DEF LastItem
<1> DEFINE new == Finished(Longer(u))
<1>3. Longer(u) \in Items
  BY LongerIs
<1>4. /\ new \in Seq(Contracts) /\ Len(new) = m
      /\ \A k \in 1..m : /\ k # m => new[k] = contracts[k]
                         /\ new[k].line = contracts[k].line /\ new[k].vars = contracts[k].vars
      /\ new[m].items = Append(its, Longer(u))
  BY <1>3, FinishedIs
<1>5. /\ Grown \in Seq(Contracts) /\ Len(Grown) = m
      /\ \A k \in 1..m : /\ k # m => Grown[k] = source[k]
                         /\ Grown[k].line = source[k].line /\ Grown[k].vars = source[k].vars
                         /\ Len(Grown[k].items) = Len(source[k].items)
      /\ \A j \in 1..(n + 1) : Grown[m].items[j] = IF j = n + 1 THEN Longer(u) ELSE its[j]
  <2>1. /\ Grown \in Seq(Contracts) /\ Len(Grown) = m
        /\ \A k \in 1..m : /\ k # m => Grown[k] = source[k]
                           /\ Grown[k].line = source[k].line /\ Grown[k].vars = source[k].vars
                           /\ Len(Grown[k].items) = Len(source[k].items)
    BY <1>1, <1>2, GrownIs
  <2>2. \A j \in 1..(n + 1) :
          Grown[m].items[j] = IF j = n + 1 THEN Longer(LastItem(LastContract)) ELSE LastContract.items[j]
    BY <1>1, <1>2, GrownIs
  <2>3. \A j \in 1..(n + 1) : j # n + 1 => j \in 1..n
    BY <1>2
  <2> HIDE DEF n, its
  <2> QED BY <1>2, <2>1, <2>2, <2>3
<1>6. Grown[m].items \in Seq(Items) /\ new[m].items \in Seq(Items) /\ Grown[m] \in Contracts /\ new[m] \in Contracts
  <2>1. Grown[m] \in Contracts /\ new[m] \in Contracts
    <3> HIDE DEF new
    <3> QED BY <1>1, <1>4, <1>5, ElementOfSeq
  <2> QED BY <2>1 DEF Contracts
<1>7. Grown[m].items = new[m].items
  <2> DEFINE a == Grown[m].items
             b == Append(its, Longer(u))
  <2>1. a \in Seq(Items) /\ b \in Seq(Items)
    BY <1>4, <1>6
  <2>2. Len(a) = n + 1
    BY <1>1, <1>2, <1>5 DEF LastContract
  <2>3. Len(b) = n + 1 /\ \A j \in 1..(n + 1) : b[j] = IF j = n + 1 THEN Longer(u) ELSE its[j]
    <3>1. Len(b) = n + 1 /\ (\A j \in 1..n : b[j] = its[j]) /\ b[n + 1] = Longer(u)
      <4> HIDE DEF its
      <4> QED BY <1>1, <1>3, AppendProperties DEF its
    <3>2. \A j \in 1..(n + 1) : j # n + 1 => j \in 1..n
      BY <1>2
    <3> HIDE DEF b, n
    <3> QED BY <3>1, <3>2
  <2>4. \A j \in 1..(n + 1) : a[j] = b[j]
    BY <1>5, <2>3
  <2>5. a = b
    <3> HIDE DEF a, b, n
    <3> QED BY <2>1, <2>2, <2>3, <2>4, SeqEqual
  <2> QED BY <1>4, <2>5
<1>8. Grown[m] = new[m]
  <2>1. \A c \in Contracts : c = [line |-> c.line, items |-> c.items, vars |-> c.vars]
    BY DEF Contracts
  <2>2. Grown[m].line = new[m].line /\ Grown[m].vars = new[m].vars
    BY <1>1, <1>4, <1>5
  <2> HIDE DEF new
  <2> QED BY <1>6, <1>7, <2>1, <2>2
<1>9. \A k \in 1..m : Grown[k] = new[k]
  <2> HIDE DEF new
  <2> QED BY <1>1, <1>4, <1>5, <1>8
<1>10. Grown = new
  <2> HIDE DEF new
  <2> QED BY <1>4, <1>5, <1>9, SeqEqual
<1> QED BY <1>10

\* The layouts the parser does not know
Odd == {"declaration", "attributes", "emptyContract", "bareContract", "bareModifier"}

\* The parser's contracts, with the open function taken in, are the file's.
ParserInv ==
  ~Has(Odd) =>
    /\ imports = {i \in 1..Len(file) : file[i].kind = "import"}
    /\ current <=> scopes # <<>>
    /\ ~InHeader
    /\ ~InUnit => unit = NoUnit /\ contracts = source
    /\ InUnit => /\ unit \in Items /\ contracts # <<>> /\ source = Finished(unit)
                 /\ unitDepth = Level - 1

\* A line keeps the parser's contracts those of the file, but for the layouts it does not know.
LEMMA ParserStep ==
  ASSUME Grammar, CountInv, ParserInv, NEW l, Reads(l), Parse(l)
  PROVE  ParserInv'
<1> SUFFICES ASSUME ~Has(Odd)'
             PROVE  /\ imports' = {i \in 1..Len(file') : file'[i].kind = "import"}
                    /\ current' <=> scopes' # <<>>
                    /\ ~InHeader'
                    /\ ~InUnit' => unit' = NoUnit /\ contracts' = source'
                    /\ InUnit' => /\ unit' \in Items' /\ contracts' # <<>> /\ source' = Finished(unit)'
                                  /\ unitDepth' = Level' - 1
  BY DEF ParserInv, NoUnit
<1>1. Typed /\ Shape /\ Typed' /\ Shape' /\ Grammar' /\ Moves(l) /\ CountInv'
  BY GrammarStep, CountStep DEF Grammar
<1>2. /\ l \in LineChoices(style) /\ Len(file) \in Nat /\ Here = Len(file) + 1
      /\ Len(file') = Len(file) + 1 /\ l.kind \in Kinds
      /\ \A i \in 1..Len(file) : file'[i] = file[i]
      /\ file'[Len(file) + 1] = l
  BY <1>1, FileIs
<1>3. Items' = Items
  BY TypedStep
<1>4. ~Has(Odd) /\ l.kind \notin Odd
  <2> HIDE DEF Odd
  <2> QED BY <1>1, HasStep DEF Odd
<1>5. /\ imports = {i \in 1..Len(file) : file[i].kind = "import"}
      /\ current <=> scopes # <<>>
      /\ ~InHeader
      /\ ~InUnit => unit = NoUnit /\ contracts = source
      /\ InUnit => /\ unit \in Items /\ contracts # <<>> /\ source = Finished(unit)
                   /\ unitDepth = Level - 1
  BY <1>4 DEF ParserInv
<1>6. ~InHeader'
  BY <1>1, <1>4, <1>5, HeaderFrom DEF Odd
<1>7. /\ Level \in Nat /\ Level' \in Nat /\ Level' = Level + Delta(l)
      /\ Level = 0 <=> scopes = <<>>
      /\ Level' = 0 <=> scopes' = <<>>
      /\ Second' \in {"function", "modifier"} => Level' >= 2
      /\ InContract => Level = 1 /\ scopes # <<>>
      /\ InUnit => scopes # <<>>
  <2>1. InContract \/ InUnit => scopes # <<>>
    BY <1>1, TopIs DEF InContract, InUnit, Second, NoName
  <2> QED BY <1>1, <1>5, <1>6, <2>1, GrammarStep, LevelUp, LevelUpAfter, LevelIs
<1>8. current => contractDepth = Level
  <2> SUFFICES ASSUME current PROVE contractDepth = Level
    OBVIOUS
  <2> DEFINE a == contracts[Len(contracts)].line
  <2>1. a \in 1..Len(file) /\ contractDepth = Level + IF file[a].kind = "emptyContract" THEN 1 ELSE 0
    BY DEF CountInv
  <2>2. file[a].kind # "emptyContract"
    BY <1>4, <2>1 DEF Has, Odd
  <2> QED BY <1>7, <2>1, <2>2
<1>9. /\ Outside(l) \/ Begins(l) \/ IsOne(l) \/ Continues(l) \/ Ends(l)
      /\ l.kind = "import" => scopes = <<>>
      /\ NoUnit \notin Items
  <2>1. l.kind = "import" => scopes = <<>>
    BY <1>1, FitsIs DEF Reads, ContractLines, Bodies, FunctionLines, Statements
  <2>2. NoUnit \notin Items
    BY DEF NoUnit, Items
  <2> QED BY <2>1, <2>2, GrammarStep
<1>10. imports' = {i \in 1..Len(file') : file'[i].kind = "import"}
  <2>1. CASE l.kind = "import"
    <3>1. imports' = imports \cup {Here}
      BY <1>5, <1>9, <2>1 DEF Parse, CommentSkipped, OutsideLine, ContractBegins, UnitBegins, UnitContinues,
                              ScopeLine, ContractLines
    <3> QED BY <1>2, <1>5, <2>1, <3>1
  <2>2. CASE l.kind # "import"
    <3>1. imports' = imports
      BY <2>2 DEF Parse, CommentSkipped, OutsideLine, ContractBegins, UnitBegins, UnitContinues,
                   ScopeLine, parserVars
    <3> QED BY <1>2, <1>5, <2>2, <3>1
  <2> QED BY <2>1, <2>2
<1>11. current' <=> scopes' # <<>>
  <2>1. CASE CommentSkipped(l)
    <3>1. current' = current /\ Delta(l) = 0
      BY <2>1, BracesOf DEF CommentSkipped, parserVars
    <3> QED BY <1>5, <1>7, <3>1
  <2>2. CASE OutsideLine(l)
    <3>1. ~current /\ current' = current /\ scopes = <<>> /\ l.kind \notin ContractLines \cup {"comment"}
      BY <1>5, <2>2 DEF OutsideLine
    <3>2. l.kind = "import"
      BY <1>1, <1>7, <3>1, FitsIs DEF Reads, InHeader, InContract, InBody, Second, NoName
    <3>3. Delta(l) = 0
      BY <3>2, BracesOf
    <3> QED BY <1>7, <3>1, <3>3
  <2>3. CASE ContractBegins(l)
    <3>1. current' /\ Level = 0 /\ l.kind \in {"contract", "upgradeable"}
      BY <1>4, <1>5, <1>7, <2>3 DEF ContractBegins, ContractLines, Odd
    <3>2. Delta(l) = 1
      BY <3>1, BracesOf
    <3> QED BY <1>7, <3>1, <3>2
  <2>4. CASE UnitBegins(l)
    <3>1. current /\ current' = current /\ Level = 1 /\ l.kind \in {"function", "oneLiner", "signature", "modifier"}
      BY <1>4, <1>8, <2>4 DEF UnitBegins, FunctionLines, Odd
    <3>2. Delta(l) \in {0, 1}
      BY <3>1, BracesOf
    <3> QED BY <1>7, <3>1, <3>2
  <2>5. CASE UnitContinues(l)
    <3>1. current /\ current' = current /\ InUnit
      BY <1>5, <2>5 DEF UnitContinues
    <3>2. scopes' # <<>>
      BY <1>9, <3>1 DEF Outside, Begins, IsOne, Continues, Ends
    <3> QED BY <3>1, <3>2
  <2>6. CASE ScopeLine(l)
    <3>1. current /\ (current' <=> ~(contractDepth + Delta(l) <= 0))
      <4>1. CASE contractDepth + Delta(l) <= 0
        BY <2>6, <4>1 DEF ScopeLine
      <4>2. CASE ~(contractDepth + Delta(l) <= 0)
        <5>1. current /\ current' = current
          BY <2>6, <4>2 DEF ScopeLine
        <5>2. current = TRUE
          BY <2>6 DEF ScopeLine
        <5> QED BY <4>2, <5>1
      <4> QED BY <4>1, <4>2
    <3>2. contractDepth + Delta(l) = Level'
      BY <1>7, <1>8, <3>1
    <3>3. contractDepth + Delta(l) <= 0 <=> Level' = 0
      BY <1>7, <3>2
    <3> QED BY <1>7, <3>1, <3>3
  <2> QED BY <2>1, <2>2, <2>3, <2>4, <2>5, <2>6 DEF Parse
<1> DEFINE Goal == /\ ~InUnit' => unit' = NoUnit /\ contracts' = source'
                   /\ InUnit' => /\ unit' \in Items /\ contracts' # <<>> /\ source' = Finished(unit)'
                                 /\ unitDepth' = Level' - 1
<1>12. ASSUME Outside(l) PROVE Goal
  <2>1. ~InUnit /\ ~InUnit' /\ unit = NoUnit /\ contracts = source
        /\ l.kind \notin FunctionLines \cup {"modifier"}
    BY <1>4, <1>5, <1>12 DEF Outside, FunctionLines, Odd
  <2>2. unit' = NoUnit
    BY <2>1 DEF Parse, CommentSkipped, OutsideLine, ContractBegins, UnitBegins, UnitContinues, ScopeLine,
                parserVars
  <2>3. CASE source' = source /\ l.kind \notin ContractLines \cup {"variable", "lockVariable"}
    <3>1. contracts' = contracts
      BY <2>1, <2>3 DEF Parse, CommentSkipped, OutsideLine, ContractBegins, UnitBegins, UnitContinues, ScopeLine,
                  parserVars
    <3> QED BY <2>1, <2>2, <2>3, <3>1
  <2>4. CASE ContractLine(l)
    <3>1. ~current /\ l.kind \in ContractLines /\ l.kind # "comment"
      BY <1>5, <2>4 DEF ContractLine, ContractLines
    <3>2. ContractBegins(l)
      BY <3>1 DEF Parse, CommentSkipped, OutsideLine, UnitBegins, UnitContinues, ScopeLine
    <3>3. contracts' = Append(contracts, [line |-> Here, items |-> <<>>, vars |-> {}])
      BY <3>2 DEF ContractBegins, Decl
    <3> QED BY <2>1, <2>2, <2>4, <3>3 DEF ContractLine
  <2>5. CASE VariableLine(l)
    <3>1. current /\ contractDepth = 1 /\ l.kind \in {"variable", "lockVariable"}
      BY <1>5, <1>7, <1>8, <2>5 DEF VariableLine
    <3>2. ScopeLine(l)
      BY <2>1, <3>1 DEF Parse, CommentSkipped, OutsideLine, ContractBegins, UnitBegins, UnitContinues
    <3>3. contracts' = [contracts EXCEPT ![Len(contracts)].vars = @ \cup {l.kind}]
      BY <3>1, <3>2 DEF ScopeLine
    <3> QED BY <2>1, <2>2, <2>5, <3>3 DEF VariableLine, WithVariable
  <2> QED BY <1>12, <2>3, <2>4, <2>5 DEF Outside
<1>13. ASSUME Begins(l) \/ IsOne(l) PROVE UnitBegins(l) /\ contracts = source /\ unit = NoUnit /\ Level = 1
  <2>1. ~InUnit /\ unit = NoUnit /\ contracts = source /\ current /\ contractDepth = 1 /\ Level = 1
        /\ l.kind \in FunctionLines \cup {"modifier"}
    BY <1>4, <1>5, <1>7, <1>8, <1>13 DEF Begins, IsOne, FunctionLines, Odd
  <2>2. l.kind # "comment"
    BY <2>1 DEF FunctionLines
  <2> QED BY <2>1, <2>2 DEF Parse, CommentSkipped, OutsideLine, ContractBegins, UnitContinues, ScopeLine
<1>14. ASSUME Begins(l) PROVE Goal
  <2> DEFINE u == Item(UnitKind(l), l)
  <2>1. UnitBegins(l) /\ contracts = source /\ unit = NoUnit /\ Level = 1
    BY <1>13, <1>14
  <2>2. Delta(l) = Opens(l) /\ Opens(l) \in {0, 1}
    BY <1>14, BracesOf DEF Begins
  <2>3. ~(Delta(l) <= 0 /\ Opens(l) > 0)
    BY <2>2
  <2>4. unit' = u /\ unitDepth' = Delta(l) /\ contracts' = contracts
    BY <2>1, <2>3 DEF UnitBegins
  <2>5. u \in Items /\ InUnit'
    BY <1>1, <1>2, <1>14, ItemType DEF Begins, InUnit
  <2>6. source' = Finished(u)
    BY <1>14, <2>1 DEF Begins, Begun, Finished
  <2>7. Finished(unit)' = Finished(u)
    BY <2>4 DEF Finished
  <2>8. contracts' # <<>>
    BY <1>1, <2>1, <2>4 DEF CountInv, UnitBegins
  <2>9. unitDepth' = Level' - 1
    BY <1>7, <2>1, <2>2, <2>4
  <2> QED BY <2>4, <2>5, <2>6, <2>7, <2>8, <2>9
<1>15. ASSUME IsOne(l) PROVE Goal
  <2> DEFINE u == Item(UnitKind(l), l)
  <2>1. UnitBegins(l) /\ contracts = source /\ unit = NoUnit /\ ~InUnit'
    BY <1>13, <1>15 DEF IsOne
  <2>2. Delta(l) = 0 /\ Opens(l) = 1
    BY <1>15, BracesOf DEF IsOne
  <2>3. contracts' = Finished(u) /\ unit' = unit
    BY <2>1, <2>2 DEF UnitBegins
  <2> QED BY <1>15, <2>1, <2>3 DEF IsOne, Begun, Finished
<1>16. ASSUME Continues(l) \/ Ends(l), l.kind # "comment"
       PROVE  /\ UnitContinues(l) /\ Longer(unit) \in Items /\ source' = Finished(Longer(unit))
              /\ unitDepth + Delta(l) = Level' - 1 /\ contracts # <<>>
  <2>1. InUnit /\ unit \in Items /\ contracts # <<>> /\ source = Finished(unit) /\ unitDepth = Level - 1
        /\ current /\ source' = Grown /\ l.kind \notin ContractLines
    BY <1>5, <1>7, <1>16 DEF Continues, Ends, ContractLines
  <2>2. UnitContinues(l)
    BY <1>9, <1>16, <2>1 DEF Parse, CommentSkipped, OutsideLine, ContractBegins, UnitBegins, ScopeLine
  <2>3. source' = Finished(Longer(unit))
    BY <1>1, <2>1, GrownFinished DEF CountInv
  <2>4. unitDepth + Delta(l) = Level' - 1
    BY <1>7, <2>1 DEF Delta, Opens, Closes
  <2> QED BY <1>1, <2>1, <2>2, <2>3, <2>4, LongerIs
<1>17. ASSUME Continues(l), l.kind # "comment" PROVE Goal
  <2>1. /\ UnitContinues(l) /\ Longer(unit) \in Items /\ source' = Finished(Longer(unit))
        /\ unitDepth + Delta(l) = Level' - 1 /\ contracts # <<>>
    BY <1>16, <1>17
  <2>2. Second' \in {"function", "modifier"} /\ InUnit'
    BY <1>4, <1>17 DEF Continues, InUnit, Odd
  <2>3. ~(unitDepth + Delta(l) <= 0)
    BY <1>7, <2>1, <2>2
  <2>4. unit' = Longer(unit) /\ unitDepth' = unitDepth + Delta(l) /\ contracts' = contracts
    BY <2>1, <2>3 DEF UnitContinues, Longer
  <2>5. Finished(unit)' = Finished(Longer(unit))
    BY <2>4 DEF Finished
  <2> QED BY <2>1, <2>2, <2>4, <2>5
<1>18. ASSUME Continues(l), l.kind = "comment" PROVE Goal
  <2>1. UNCHANGED <<contracts, unit, unitDepth>>
    BY <1>18 DEF Parse, CommentSkipped, OutsideLine, ContractBegins, UnitBegins, UnitContinues, ScopeLine,
                ContractLines, FunctionLines, parserVars
  <2>2. InUnit /\ InUnit' /\ source' = source /\ Delta(l) = 0
    BY <1>18, BracesOf DEF Continues, InUnit
  <2>3. Finished(unit)' = Finished(unit)
    BY <2>1 DEF Finished
  <2> QED BY <1>5, <1>7, <2>1, <2>2, <2>3
<1>19. ASSUME Ends(l) PROVE Goal
  <2>1. /\ UnitContinues(l) /\ source' = Finished(Longer(unit))
        /\ unitDepth + Delta(l) = Level' - 1 /\ ~InUnit'
    BY <1>16, <1>19 DEF Ends
  <2>2. Level' = 1
    <3>1. Level = 2 /\ Delta(l) = 0 - 1
      BY <1>19, BracesOf DEF Ends
    <3> QED BY <1>7, <3>1
  <2>3. unitDepth + Delta(l) <= 0
    BY <2>1, <2>2
  <2>4. unit' = NoUnit /\ contracts' = Finished(Longer(unit))
    BY <2>1, <2>3 DEF UnitContinues, Longer
  <2> QED BY <2>1, <2>4
<1>20. Goal
  BY <1>9, <1>12, <1>14, <1>15, <1>17, <1>18, <1>19
<1> QED BY <1>3, <1>6, <1>10, <1>11, <1>20

-----------------------------------------------------------------------------
(* The functions that are complete, and the one that is not *)

\* The functions among the first n items of c, and those of contract k that are not open
Complete(c, n) == {Whole(c.items[j]) : j \in {i \in 1..n : c.items[i].kind = "function"}}
DoneOf(k) == Complete(source[k], IF InUnit /\ k = Len(source) THEN Len(source[k].items) - 1
                                                             ELSE Len(source[k].items))
\* The open function as far as it goes
OpenBlock == [name |-> OpenItem.name, lines |-> FromTo(OpenItem.lines[1], Len(file))]

\* The block that line l completes
News(l) ==
  IF l.kind = "oneLiner" THEN {[name |-> l.name, lines |-> <<Here>>]}
  ELSE IF InFunction /\ Ends(l) THEN {[name |-> OpenItem.name, lines |-> FromTo(OpenItem.lines[1], Here)]}
  ELSE {}

\* Items that stay the same are complete with the same functions.
LEMMA CompleteSame ==
  ASSUME NEW c, NEW d, NEW n, \A j \in 1..n : d.items[j] = c.items[j]
  PROVE  Complete(d, n) = Complete(c, n)
BY DEF Complete

\* One more item, and one more complete function if it is one.
LEMMA CompleteMore ==
  ASSUME NEW c, NEW n \in Nat
  PROVE  Complete(c, n + 1) = Complete(c, n) \cup (IF c.items[n + 1].kind = "function"
                                                   THEN {Whole(c.items[n + 1])} ELSE {})
<1> DEFINE S(m) == {i \in 1..m : c.items[i].kind = "function"}
<1>1. S(n + 1) = S(n) \cup (IF c.items[n + 1].kind = "function" THEN {n + 1} ELSE {})
  OBVIOUS
<1>2. \A m : Complete(c, m) = {Whole(c.items[j]) : j \in S(m)}
  BY DEF Complete
<1> HIDE DEF S
<1> QED BY <1>1, <1>2

\* The numbers from a to n, as a sequence.
LEMMA FromToIs ==
  ASSUME NEW a \in Nat, NEW n \in Nat, a >= 1, a <= n
  PROVE  /\ FromTo(a, n) \in Seq(1..n) /\ Len(FromTo(a, n)) = n - a + 1 /\ FromTo(a, n) # <<>>
         /\ \A i \in 1..(n - a + 1) : FromTo(a, n)[i] = a + i - 1
         /\ FromTo(a, n)[1] = a
         /\ Append(FromTo(a, n), n + 1) = FromTo(a, n + 1)
         /\ \A x \in a..n : \E i \in 1..Len(FromTo(a, n)) : FromTo(a, n)[i] = x
<1> DEFINE m == n - a + 1
           s == FromTo(a, n)
           t == FromTo(a, n + 1)
<1>1. m \in Nat /\ m >= 1 /\ (n + 1) - a + 1 = m + 1
  OBVIOUS
<1>2. s = [i \in 1..m |-> a + i - 1] /\ t = [i \in 1..(m + 1) |-> a + i - 1]
  BY <1>1 DEF FromTo
<1>3. (\A i \in 1..m : a + i - 1 \in 1..n) /\ \A i \in 1..(m + 1) : a + i - 1 \in 1..(n + 1)
  OBVIOUS
<1>4. s \in Seq(1..n) /\ Len(s) = m /\ t \in Seq(1..(n + 1)) /\ Len(t) = m + 1
  <2> DEFINE f(i) == a + i - 1
  <2>1. s = [i \in 1..m |-> f(i)] /\ t = [i \in 1..(m + 1) |-> f(i)]
    BY <1>2
  <2>2. (\A i \in 1..m : f(i) \in 1..n) /\ \A i \in 1..(m + 1) : f(i) \in 1..(n + 1)
    BY <1>3
  <2> HIDE DEF f, s, t, m
  <2>3. s \in [1..m -> 1..n] /\ t \in [1..(m + 1) -> 1..(n + 1)]
    BY <2>1, <2>2
  <2>4. m + 1 \in Nat
    BY <1>1
  <2> QED BY <1>1, <2>3, <2>4, SeqDef, LenProperties
<1>5. \A i \in 1..m : s[i] = a + i - 1
  BY <1>2
<1>6. \A i \in 1..(m + 1) : t[i] = a + i - 1
  BY <1>2
<1>7. s # <<>> /\ s[1] = a
  <2>1. s # <<>>
    <3> HIDE DEF s, m
    <3> QED BY <1>1, <1>4, EmptySeq
  <2>2. 1 \in 1..m
    BY <1>1
  <2>3. s[1] = a + 1 - 1
    <3> HIDE DEF s, m
    <3> QED BY <1>5, <2>2
  <2> QED BY <2>1, <2>3
<1>8. Append(s, n + 1) = t
  <2> DEFINE u == Append(s, n + 1)
  <2>0. s \in Seq(1..(n + 1)) /\ n + 1 \in 1..(n + 1)
    <3>1. 1..n \subseteq 1..(n + 1)
      OBVIOUS
    <3>2. \A i \in 1..Len(s) : s[i] \in 1..(n + 1)
      <4> HIDE DEF s
      <4> QED BY <1>4, <3>1, ElementOfSeq
    <3>3. s \in [1..m -> 1..(n + 1)]
      <4> HIDE DEF m
      <4> QED BY <1>2, <1>4, <3>2
    <3> HIDE DEF s, m
    <3> QED BY <1>1, <3>3, SeqDef
  <2>1. u \in Seq(1..(n + 1)) /\ Len(u) = m + 1 /\ (\A i \in 1..m : u[i] = s[i]) /\ u[m + 1] = n + 1
    <3> HIDE DEF s, m
    <3> QED BY <1>4, <2>0, AppendProperties
  <2>2. \A i \in 1..(m + 1) : u[i] = t[i]
    <3>1. \A i \in 1..(m + 1) : i \in 1..m \/ i = m + 1
      BY <1>1
    <3>2. n + 1 = a + (m + 1) - 1
      OBVIOUS
    <3>3. m + 1 \in 1..(m + 1)
      BY <1>1
    <3> HIDE DEF s, t, u, m
    <3> QED BY <1>5, <1>6, <2>1, <3>1, <3>2, <3>3
  <2> HIDE DEF s, t, u, m
  <2> QED BY <1>4, <2>1, <2>2, SeqEqual DEF u
<1>9. \A x \in a..n : \E i \in 1..Len(s) : s[i] = x
  <2> TAKE x \in a..n
  <2>1. x - a + 1 \in 1..m /\ a + (x - a + 1) - 1 = x
    OBVIOUS
  <2> HIDE DEF s, m
  <2> QED BY <1>4, <1>5, <2>1
<1> QED
  <2> HIDE DEF s, t
  <2>1. Len(s) = n - a + 1
    BY <1>4
  <2> QED BY <1>4, <1>5, <1>7, <1>8, <1>9, <2>1 DEF s, t

\* The functions of a contract whose items stay, and whose last is not open, stay.
LEMMA DoneSame ==
  ASSUME NEW k, source'[k].items = source[k].items,
         ~(InUnit /\ k = Len(source)), ~(InUnit' /\ k = Len(source'))
  PROVE  DoneOf(k)' = DoneOf(k)
<1>1. DoneOf(k) = Complete(source[k], Len(source[k].items))
  BY DEF DoneOf
<1>2. DoneOf(k)' = Complete(source'[k], Len(source'[k].items))
  BY DEF DoneOf, Complete, Whole
<1> QED BY <1>1, <1>2, CompleteSame

\* The complete functions after a step.
LEMMA DoneAfter ==
  ASSUME NEW k
  PROVE  DoneOf(k)' = Complete(source'[k], IF InUnit' /\ k = Len(source') THEN Len(source'[k].items) - 1
                                                                       ELSE Len(source'[k].items))
<1>1. \A c, n : Complete(c, n)' = Complete(c, n)
  BY DEF Complete, Whole
<1> QED BY <1>1 DEF DoneOf

\* A line completes News of the last contract, and nothing of the others.
LEMMA DoneStep ==
  ASSUME Grammar, NEW l, Reads(l)
  PROVE  /\ source' = source \/ source' # <<>>
         /\ \A k \in 1..Len(source) :
              /\ DoneOf(k)' = DoneOf(k) \cup (IF k = Len(source) THEN News(l) ELSE {})
              /\ source'[k].line = source[k].line
         /\ source = <<>> => News(l) = {}
         /\ scopes = <<>> => News(l) = {}
         /\ IF scopes = <<>> /\ l.kind \in ContractLines
            THEN /\ Len(source') = Len(source) + 1 /\ News(l) = {} /\ \A k : k = Len(source) + 1 => DoneOf(k)' = {}
                 /\ source'[Len(source) + 1].line = Here
            ELSE Len(source') = Len(source)
<1>1. Typed /\ Shape /\ OpenInv /\ (scopes # <<>> => source # <<>>)
  BY DEF Grammar
<1>2. Moves(l) /\ l \in LineChoices(style) /\ Len(file) \in Nat /\ Here = Len(file) + 1 /\ Len(source) \in Nat
  BY <1>1, GrammarStep, FileIs, LenProperties DEF Typed
<1>3. InContract \/ InUnit => scopes # <<>>
  BY <1>1, TopIs DEF InContract, InUnit, Second, NoName
<1>0. PICK m : m = Len(source)
  OBVIOUS
<1> USE <1>0
<1> DEFINE Old == /\ source' # <<>> /\ Len(source') = m
                  /\ \A k \in 1..m : /\ DoneOf(k)' = DoneOf(k) \cup (IF k = m THEN News(l) ELSE {})
                                     /\ source'[k].line = source[k].line
\* All that changes is the last contract.
<1>4. ASSUME source # <<>>, Len(source') = m,
             \A k \in 1..m : (k # m => source'[k] = source[k]) /\ source'[k].line = source[k].line,
             DoneOf(m)' = DoneOf(m) \cup News(l)
      PROVE  Old
  <2>1. m # 0 /\ source' # <<>>
    BY <1>1, <1>4, EmptySeq DEF Typed
  <2>2. ASSUME NEW k \in 1..m PROVE DoneOf(k)' = DoneOf(k) \cup (IF k = m THEN News(l) ELSE {})
    <3>1. CASE k = m
      BY <1>4, <3>1
    <3>2. CASE k # m
      <4>1. source'[k].items = source[k].items
        BY <1>4, <3>2
      <4>2. DoneOf(k)' = DoneOf(k)
        BY <1>4, <3>2, <4>1, DoneSame
      <4> QED BY <3>2, <4>2
    <3> QED BY <3>1, <3>2
  <2> QED BY <1>4, <2>1, <2>2
<1>5. ASSUME Outside(l) PROVE News(l) = {} /\ ~InUnit /\ ~InUnit'
  BY <1>5 DEF Outside, News, InFunction, InUnit
<1>6. ASSUME Outside(l), ~ContractLine(l)
      PROVE  /\ Len(source') = m /\ (source' = source \/ source' # <<>>)
             /\ \A k \in 1..m : DoneOf(k)' = DoneOf(k) /\ source'[k].line = source[k].line
  <2>1. /\ Len(source') = m /\ (source' = source \/ source' # <<>>)
        /\ \A k \in 1..m : source'[k].items = source[k].items /\ source'[k].line = source[k].line
    <3>1. CASE source' = source
      BY <3>1
    <3>2. CASE VariableLine(l)
      <4>1. source # <<>> /\ source' = WithVariable(l) /\ l.kind \in Kinds
        BY <1>1, <1>3, <3>2, FileIs DEF VariableLine
      <4>2. /\ source' \in Seq(Contracts) /\ Len(source') = m
            /\ \A k \in 1..m : source'[k].items = source[k].items /\ source'[k].line = source[k].line
        BY <1>1, <4>1, WithVariableIs
      <4>3. m # 0
        BY <1>1, <4>1, EmptySeq DEF Typed
      <4> QED BY <4>2, <4>3, EmptySeq
    <3> QED BY <1>6, <3>1, <3>2 DEF Outside
  <2> QED BY <1>5, <1>6, <2>1, DoneSame
<1>7. ASSUME ContractLine(l)
      PROVE  /\ scopes = <<>> /\ l.kind \in ContractLines /\ source' # <<>>
             /\ Len(source') = m + 1 /\ News(l) = {} /\ DoneOf(m + 1)' = {}
             /\ source'[m + 1].line = Here
             /\ \A k \in 1..m : DoneOf(k)' = DoneOf(k) /\ source'[k].line = source[k].line
  <2>0. Outside(l)
    <3>1. ~InUnit /\ l.kind \in ContractLines
      BY <1>3, <1>7 DEF ContractLine
    <3>2. ~InUnit'
      BY <1>7 DEF ContractLine, Lands, InUnit, NoName
    <3>3. l.kind \notin {"function", "signature", "oneLiner", "modifier", "bareModifier", "attributes"}
      BY <3>1 DEF ContractLines
    <3> QED BY <1>7, <3>1, <3>2, <3>3 DEF Outside
  <2>1. ~InUnit /\ ~InUnit' /\ News(l) = {}
    BY <1>5, <2>0
  <2> DEFINE c == [line |-> Here, items |-> <<>>, vars |-> {}]
  <2>2. /\ source' # <<>> /\ Len(source') = m + 1
        /\ \A k \in 1..m : source'[k] = source[k]
        /\ source'[m + 1] = c
    BY <1>1, <1>2, <1>7, NewContractIs DEF ContractLine
  <2>3. \A k \in 1..m : DoneOf(k)' = DoneOf(k)
    BY <2>1, <2>2, DoneSame
  <2>4. DoneOf(m + 1)' = {}
    <3>1. Len(source'[m + 1].items) = 0
      BY <2>2, EmptySeq
    <3>2. DoneOf(m + 1)' = Complete(source'[m + 1], 0)
      BY <2>1, <3>1, DoneAfter
    <3>3. 1..0 = {}
      OBVIOUS
    <3> QED BY <3>2, <3>3 DEF Complete
  <2>5. source'[m + 1].line = Here
    BY <2>2
  <2> QED BY <1>7, <2>1, <2>2, <2>3, <2>4, <2>5 DEF ContractLine
<1> DEFINE its == source[m].items
           n   == Len(its)
           x   == Item(UnitKind(l), l)
<1>8. ASSUME Begins(l) \/ IsOne(l) PROVE Old
  <2>1. source # <<>> /\ source' = Begun(l) /\ ~InUnit
    BY <1>1, <1>3, <1>8 DEF Begins, IsOne
  <2>2. /\ Len(source') = m /\ m \in 1..m /\ n \in Nat
        /\ \A k \in 1..m : (k # m => source'[k] = source[k]) /\ source'[k].line = source[k].line
    BY <1>1, <1>2, <2>1, BegunIs, LastIs DEF LastContract
  <2>3. /\ Len(source'[m].items) = n + 1
        /\ \A j \in 1..n : source'[m].items[j] = its[j]
        /\ source'[m].items[n + 1] = x
    <3>1. Len(source'[m].items) = n + 1 /\ (\A j \in 1..n : source'[m].items[j] = its[j])
      BY <1>1, <1>2, <2>1, <2>2, OpenBegun DEF LastContract
    <3>2. OpenItem' = x
      BY <1>1, <1>2, <2>1, OpenBegun
    <3>3. OpenItem' = source'[m].items[Len(source'[m].items)]
      BY <2>2 DEF OpenItem, LastItem, LastContract
    <3> HIDE DEF x
    <3> QED BY <3>1, <3>2, <3>3
  <2>4. DoneOf(m) = Complete(source[m], n)
    BY <2>1 DEF DoneOf
  <2>5. Complete(source'[m], n) = Complete(source[m], n)
    <3> DEFINE c == source[m]
               d == source'[m]
    <3>1. \A j \in 1..n : d.items[j] = c.items[j]
      BY <2>3
    <3> HIDE DEF c, d, n
    <3>2. Complete(d, n) = Complete(c, n)
      BY <3>1, CompleteSame
    <3> QED BY <3>2 DEF c, d
  <2>6. DoneOf(m)' = DoneOf(m) \cup News(l)
    <3>1. CASE Begins(l)
      <4>1. InUnit' /\ News(l) = {}
        BY <2>1, <3>1 DEF Begins, InUnit, InFunction, News
      <4>2. DoneOf(m)' = Complete(source'[m], Len(source'[m].items) - 1)
        BY <2>2, <4>1, DoneAfter
      <4>3. Len(source'[m].items) - 1 = n
        <5> HIDE DEF n, x
        <5> QED BY <2>2, <2>3
      <4> HIDE DEF n, x
      <4> QED BY <2>4, <2>5, <4>1, <4>2, <4>3
    <3>2. CASE IsOne(l)
      <4>1. ~InUnit'
        BY <3>2 DEF IsOne
      <4>2. DoneOf(m)' = Complete(source'[m], n + 1)
        BY <2>3, <4>1, DoneAfter
      <4>3. x.kind = "function" /\ x.name = l.name /\ x.lines = <<Here>>
        <5>1. UnitKind(l) = "function"
          BY <3>2 DEF IsOne, UnitKind, FunctionLines
        <5> QED BY <1>1, <1>2, <5>1, ItemType
      <4>4. Whole(x) = [name |-> l.name, lines |-> <<Here>>]
        <5>1. Whole(x) = [name |-> l.name, lines |-> [i \in 1..(Here - Here + 1) |-> Here + i - 1]]
          <6> HIDE DEF x
          <6>1. Len(x.lines) = 1 /\ x.lines[1] = Here
            BY <4>3
          <6> QED BY <4>3, <6>1 DEF Whole
        <5>2. [i \in 1..(Here - Here + 1) |-> Here + i - 1] = <<Here>>
          <6> DEFINE h == Here
          <6>1. h \in Nat
            BY <1>2
          <6> HIDE DEF h
          <6>2. [i \in 1..(h - h + 1) |-> h + i - 1] = <<h>>
            <7>1. h - h + 1 = 1 /\ \A i \in 1..1 : h + i - 1 = h
              BY <6>1
            <7>2. [i \in 1..1 |-> h + i - 1] = [i \in 1..1 |-> h]
              BY <7>1
            <7>3. [i \in 1..1 |-> h] = <<h>>
              OBVIOUS
            <7> QED BY <7>1, <7>2, <7>3
          <6> QED BY <6>2 DEF h
        <5> QED BY <5>1, <5>2
      <4>5. News(l) = {[name |-> l.name, lines |-> <<Here>>]}
        BY <3>2 DEF IsOne, News
      <4>6. Complete(source'[m], n + 1) = Complete(source'[m], n) \cup {Whole(x)}
        <5> HIDE DEF x, n
        <5> QED BY <2>2, <2>3, <4>3, CompleteMore
      <4> HIDE DEF x, n
      <4> QED BY <2>4, <2>5, <4>2, <4>4, <4>5, <4>6
    <3> QED BY <1>8, <3>1, <3>2
  <2> QED BY <1>4, <2>1, <2>2, <2>6
<1>9. ASSUME Continues(l) \/ Ends(l)
      PROVE  /\ source # <<>> /\ InUnit /\ n \in Nat /\ n >= 1
             /\ l.kind # "oneLiner"
             /\ Len(source') = m /\ m \in 1..m
             /\ \A k \in 1..m : (k # m => source'[k] = source[k]) /\ source'[k].line = source[k].line
             /\ Len(source'[m].items) = n
             /\ \A j \in 1..(n - 1) : source'[m].items[j] = its[j]
             /\ l.kind # "comment" => source'[m].items[n] = Longer(OpenItem)
             /\ OpenItem \in Items
  <2>1. /\ source # <<>> /\ InUnit /\ LastContract.items # <<>> /\ l.kind # "oneLiner"
        /\ source' = IF l.kind = "comment" THEN source ELSE Grown
    BY <1>1, <1>3, <1>9 DEF Continues, Ends, OpenInv, Bodies, FunctionLines
  <2>2. m \in 1..m /\ n \in Nat /\ n \in 1..n /\ OpenItem \in Items
    BY <1>1, <2>1, LastIs DEF LastContract, OpenItem
  <2>3. n >= 1
    <3> HIDE DEF n
    <3> QED BY <2>2
  <2>4. CASE l.kind = "comment"
    <3>1. source' = source
      BY <2>1, <2>4
    <3>2. \A k \in 1..m : (k # m => source'[k] = source[k]) /\ source'[k].line = source[k].line
      BY <3>1
    <3> HIDE DEF n
    <3> QED BY <2>1, <2>2, <2>3, <2>4, <3>1, <3>2 DEF n
  <2>5. CASE source' = Grown /\ l.kind # "comment"
    <3>1. /\ Len(source') = m
          /\ \A k \in 1..m : (k # m => source'[k] = source[k]) /\ source'[k].line = source[k].line
      BY <1>1, <2>1, <2>5, GrownIs
    <3>2. /\ OpenItem' = Longer(OpenItem) /\ Len(source'[m].items) = n
          /\ \A j \in 1..(n - 1) : source'[m].items[j] = its[j]
      BY <1>1, <2>1, <2>5, <3>1, OpenGrown DEF LastContract
    <3>3. source'[m].items[n] = Longer(OpenItem)
      BY <3>1, <3>2 DEF OpenItem, LastItem, LastContract
    <3> QED BY <2>1, <2>2, <2>3, <3>1, <3>2, <3>3
  <2> QED BY <2>1, <2>4, <2>5
<1>10. ASSUME Continues(l) \/ Ends(l)
       PROVE  /\ DoneOf(m) = Complete(source[m], n - 1)
              /\ Complete(source'[m], n - 1) = Complete(source[m], n - 1)
  <2>1. DoneOf(m) = Complete(source[m], n - 1)
    BY <1>9, <1>10 DEF DoneOf
  <2> DEFINE c == source[m]
             d == source'[m]
             i == n - 1
  <2>2. \A j \in 1..i : d.items[j] = c.items[j]
    BY <1>9, <1>10
  <2>3. Complete(d, i) = Complete(c, i)
    <3> HIDE DEF c, d, i
    <3> QED BY <2>2, CompleteSame
  <2> QED BY <2>1, <2>3
<1>11. ASSUME Continues(l) PROVE Old
  <2>1. InUnit' /\ ~Ends(l)
    BY <1>11 DEF Continues, Ends, InUnit
  <2>2. News(l) = {}
    BY <1>9, <1>11, <2>1 DEF News
  <2>3. DoneOf(m)' = Complete(source'[m], n - 1)
    BY <1>9, <1>11, <2>1, DoneAfter
  <2>4. DoneOf(m)' = DoneOf(m) \cup News(l)
    BY <1>10, <1>11, <2>2, <2>3
  <2> QED BY <1>4, <1>9, <1>11, <2>4
<1>12. ASSUME Ends(l) PROVE Old
  <2> DEFINE f == Longer(OpenItem)
  <2>1. ~InUnit' /\ l.kind = "close" /\ source'[m].items[n] = f /\ OpenItem \in Items /\ n \in Nat /\ n >= 1
    BY <1>9, <1>12 DEF Ends
  <2>2. DoneOf(m)' = Complete(source'[m], n)
    BY <1>9, <1>12, <2>1, DoneAfter
  <2>3. Complete(source'[m], n) = Complete(source'[m], n - 1) \cup (IF f.kind = "function" THEN {Whole(f)} ELSE {})
    <3>1. n - 1 \in Nat /\ (n - 1) + 1 = n
      <4> HIDE DEF n
      <4> QED BY <2>1
    <3>2. Complete(source'[m], (n - 1) + 1) =
            Complete(source'[m], n - 1) \cup (IF source'[m].items[(n - 1) + 1].kind = "function"
                                              THEN {Whole(source'[m].items[(n - 1) + 1])} ELSE {})
      <4> HIDE DEF n
      <4> QED BY <3>1, CompleteMore
    <3> HIDE DEF n, f
    <3> QED BY <2>1, <3>1, <3>2
  <2>4. f.kind = "function" <=> InFunction
    BY <1>1, <1>9, <1>12, <2>1, LongerIs DEF OpenInv
  <2>5. Whole(f) = [name |-> OpenItem.name, lines |-> FromTo(OpenItem.lines[1], Here)]
    <3>1. /\ f.name = OpenItem.name /\ f.lines[1] = OpenItem.lines[1]
          /\ f.lines[Len(f.lines)] = Here
      BY <1>1, <2>1, LongerIs
    <3> HIDE DEF f
    <3> QED BY <3>1 DEF Whole, FromTo
  <2>6. News(l) = IF InFunction THEN {Whole(f)} ELSE {}
    BY <1>9, <1>12, <2>5 DEF News
  <2>7. DoneOf(m)' = DoneOf(m) \cup News(l)
    <3> HIDE DEF f, n
    <3> QED BY <1>10, <1>12, <2>2, <2>3, <2>4, <2>6
  <2> QED BY <1>4, <1>9, <1>12, <2>7
<1>13. ~Outside(l) => scopes # <<>>
  BY <1>2, <1>3, GrammarStep DEF Begins, IsOne, Continues, Ends
<1>14. scopes = <<>> /\ l.kind \in ContractLines => ContractLine(l)
  <2>1. Outside(l) => ContractLine(l) \/ VariableLine(l) \/ l.kind \notin ContractLines
    BY DEF Outside
  <2>2. VariableLine(l) => l.kind \notin ContractLines
    BY DEF VariableLine, ContractLines
  <2> QED BY <1>13, <2>1, <2>2
<1>15. CASE Outside(l) /\ ~ContractLine(l)
  BY <1>5, <1>6, <1>14, <1>15
<1>16. CASE ContractLine(l)
  BY <1>2, <1>7, <1>16
<1>17. CASE ~Outside(l)
  <2>1. Old
    BY <1>8, <1>11, <1>12, <1>17, GrammarStep
  <2> QED BY <1>1, <1>13, <1>17, <2>1
<1> QED BY <1>15, <1>16, <1>17

-----------------------------------------------------------------------------
(* What a line does to the open function *)

\* The open function with the line that is read
OpenBlockHere == [name |-> OpenItem.name, lines |-> FromTo(OpenItem.lines[1], Here)]
Opened(l)     == [name |-> l.name, lines |-> <<Here>>]

NoFunction(l) ==
  /\ ~InFunction /\ ~InFunction' /\ l.kind \notin FunctionLines /\ News(l) = {}
BeginsFunction(l) ==
  /\ ~InFunction /\ InFunction' /\ l.kind \in {"function", "signature"} /\ News(l) = {}
  /\ Level' = Delta(l) + 1 /\ Delta(l) = Opens(l) /\ OpenBlock' = Opened(l)
IsFunction(l) ==
  /\ ~InFunction /\ ~InFunction' /\ l.kind = "oneLiner" /\ News(l) = {Opened(l)}
  /\ Delta(l) = 0 /\ Opens(l) = 1
KeepsFunction(l) ==
  /\ InFunction /\ InFunction' /\ l.kind # "oneLiner" /\ News(l) = {} /\ OpenBlock' = OpenBlockHere
  /\ \/ Level' >= 2
     \/ /\ Second = "signature" /\ Second' = "signature" /\ l.kind \in {"comment", "attributes"} /\ Opens(l) = 0
        /\ \A i \in OpenItem.lines[1]..Len(file) : Opens(file[i]) = 0
EndsFunction(l) ==
  /\ InFunction /\ ~InFunction' /\ News(l) = {OpenBlockHere} /\ Level' = 1
  /\ \E i \in OpenItem.lines[1]..Len(file) : Opens(file[i]) = 1

\* A line is in no function, begins one, is one, goes on with one or ends one.
LEMMA FunctionCases ==
  ASSUME Grammar, NEW l, Reads(l), l.kind # "declaration"
  PROVE  /\ NoFunction(l) \/ BeginsFunction(l) \/ IsFunction(l) \/ KeepsFunction(l) \/ EndsFunction(l)
         /\ Level \in Nat /\ Level' = Level + Delta(l) /\ Delta(l) \in Int /\ Opens(l) \in {0, 1}
         /\ InFunction => OpenItem.lines[1] \in 1..Len(file)
         /\ Len(file) \in Nat /\ Here = Len(file) + 1
<1>1. Typed /\ Shape /\ OpenInv /\ (scopes # <<>> => source # <<>>) /\ Typed' /\ Shape'
  BY GrammarStep DEF Grammar
<1>2. /\ Moves(l) /\ l \in LineChoices(style) /\ Len(file) \in Nat /\ Here = Len(file) + 1
      /\ Len(file') = Here
  BY <1>1, GrammarStep, FileIs
<1>3. InContract \/ InUnit => scopes # <<>>
  BY <1>1, TopIs DEF InContract, InUnit, Second, NoName
<1>4. /\ Outside(l) \/ Begins(l) \/ IsOne(l) \/ Continues(l) \/ Ends(l)
      /\ Level \in Nat /\ Level' = Level + Delta(l) /\ Delta(l) = Opens(l) - Closes(l)
      /\ Opens(l) \in {0, 1} /\ Closes(l) \in {0, 1}
      /\ InFunction => InUnit
      /\ InFunction' => InUnit'
      /\ Second' \in {"function", "modifier"} => Level' >= 2
  BY <1>1, GrammarStep, LevelIs, LevelUpAfter, BracesOf DEF InFunction, InUnit
<1>5. InFunction => OpenItem.lines[1] \in 1..Len(file)
  BY <1>1, <1>4 DEF OpenInv
<1>6. CASE Outside(l)
  <2>1. l.kind \notin FunctionLines /\ ~InFunction /\ ~InFunction' /\ l.kind # "oneLiner"
    BY <1>4, <1>6 DEF Outside, FunctionLines
  <2> QED BY <1>2, <1>4, <1>5, <2>1 DEF NoFunction, News
<1>7. CASE Begins(l)
  <2>1. /\ source # <<>> /\ source' = Begun(l) /\ ~InFunction /\ Level = 1 /\ News(l) = {}
        /\ (InFunction' <=> l.kind \in {"function", "signature"})
    <3>1. source # <<>> /\ source' = Begun(l) /\ ~InFunction /\ Level = 1
      BY <1>1, <1>3, <1>4, <1>7, LevelIs DEF Begins
    <3>2. InFunction' <=> l.kind \in {"function", "signature"}
      BY <1>7 DEF Begins, InFunction
    <3>3. News(l) = {}
      BY <1>7, <3>1 DEF Begins, News
    <3> QED BY <3>1, <3>2, <3>3
  <2>2. CASE InFunction'
    <3>1. Closes(l) = 0
      BY <2>1, <2>2, BracesOf
    <3>2. Level' = Delta(l) + 1 /\ Delta(l) = Opens(l)
      BY <1>4, <2>1, <3>1
    <3>3. OpenItem'.name = l.name /\ OpenItem'.lines = <<Here>>
      BY <1>1, <1>2, <2>1, OpenBegun, ItemType
    <3>4. FromTo(Here, Here) = <<Here>>
      <4> DEFINE h == Here
      <4>1. h \in Nat
        BY <1>2
      <4> HIDE DEF h
      <4>2. FromTo(h, h) = <<h>>
        <5>1. h - h + 1 = 1 /\ \A i \in 1..1 : h + i - 1 = h
          BY <4>1
        <5>2. [i \in 1..1 |-> h + i - 1] = [i \in 1..1 |-> h]
          BY <5>1
        <5>3. [i \in 1..1 |-> h] = <<h>>
          OBVIOUS
        <5> QED BY <5>1, <5>2, <5>3 DEF FromTo
      <4> QED BY <4>2 DEF h
    <3>5. OpenItem'.lines[1] = Here
      BY <3>3
    <3>6. OpenBlock' = [name |-> OpenItem'.name, lines |-> FromTo(OpenItem'.lines[1], Len(file'))]
      BY DEF OpenBlock, FromTo
    <3>7. OpenBlock' = Opened(l)
      BY <1>2, <3>3, <3>4, <3>5, <3>6 DEF Opened
    <3> QED BY <1>2, <1>4, <1>5, <2>1, <2>2, <3>2, <3>7 DEF BeginsFunction
  <2>3. CASE ~InFunction'
    <3>1. l.kind \notin FunctionLines
      BY <1>7, <2>1, <2>3 DEF Begins, FunctionLines
    <3> QED BY <1>2, <1>4, <1>5, <2>1, <2>3, <3>1 DEF NoFunction
  <2> QED BY <2>2, <2>3
<1>8. CASE IsOne(l)
  <2>1. ~InFunction /\ ~InFunction' /\ l.kind = "oneLiner" /\ Delta(l) = 0 /\ Opens(l) = 1
    BY <1>4, <1>8, BracesOf DEF IsOne
  <2> QED BY <1>2, <1>4, <1>5, <2>1 DEF IsFunction, News, Opened
<1>9. ASSUME Continues(l) \/ Ends(l)
      PROVE  InUnit /\ source # <<>> /\ LastContract.items # <<>> /\ l.kind \notin FunctionLines
  BY <1>1, <1>3, <1>9 DEF Continues, Ends, OpenInv, Bodies, FunctionLines
<1>10. CASE Continues(l) /\ Second = "modifier"
  <2>1. ~InFunction /\ ~InFunction'
    BY <1>10 DEF Continues, InFunction
  <2>2. News(l) = {}
    BY <1>9, <1>10, <2>1 DEF News, FunctionLines
  <2> QED BY <1>2, <1>4, <1>5, <1>9, <1>10, <2>1, <2>2 DEF NoFunction
<1>11. CASE Continues(l) /\ Second # "modifier"
  <2>1. InFunction /\ InFunction' /\ ~Ends(l)
    BY <1>11 DEF Continues, Ends, InFunction, InUnit
  <2>2. News(l) = {} /\ l.kind # "oneLiner"
    BY <1>9, <1>11, <2>1 DEF News, FunctionLines
  <2>3. OpenItem'.name = OpenItem.name /\ OpenItem'.lines[1] = OpenItem.lines[1]
    <3>1. CASE source' = source
      BY <3>1 DEF OpenItem, LastContract, LastItem
    <3>2. CASE source' = Grown
      BY <1>1, <1>9, <1>11, <3>2, OpenGrown, LongerIs
    <3> QED BY <1>11, <3>1, <3>2 DEF Continues
  <2>4. OpenBlock' = OpenBlockHere
    <3>1. OpenBlock' = [name |-> OpenItem'.name, lines |-> FromTo(OpenItem'.lines[1], Len(file'))]
      BY DEF OpenBlock, FromTo
    <3> QED BY <1>2, <2>3, <3>1 DEF OpenBlockHere
  <2>5. CASE Second' = "signature"
    <3>1. Second = "signature" /\ l.kind \in {"comment", "attributes"}
      BY <1>11, <2>5 DEF Continues
    <3>2. Opens(l) = 0
      BY <3>1, BracesOf
    <3>3. \A i \in OpenItem.lines[1]..Len(file) : Opens(file[i]) = 0
      BY <1>1, <2>1, <1>4, <3>1 DEF OpenInv
    <3> QED BY <1>2, <1>4, <1>5, <2>1, <2>2, <2>4, <2>5, <3>1, <3>2, <3>3 DEF KeepsFunction
  <2>6. CASE Second' # "signature"
    <3>1. Second' = "function"
      BY <2>1, <2>6 DEF InFunction
    <3> QED BY <1>2, <1>4, <1>5, <2>1, <2>2, <2>4, <3>1 DEF KeepsFunction
  <2> QED BY <2>5, <2>6
<1>12. CASE Ends(l) /\ Second = "modifier"
  <2>1. ~InFunction /\ ~InFunction'
    BY <1>4, <1>12 DEF Ends, InFunction
  <2>2. News(l) = {}
    BY <1>9, <1>12, <2>1 DEF News, FunctionLines
  <2> QED BY <1>2, <1>4, <1>5, <1>9, <1>12, <2>1, <2>2 DEF NoFunction
<1>13. CASE Ends(l) /\ Second # "modifier"
  <2>1. InFunction /\ ~InFunction' /\ Second = "function" /\ Level = 2 /\ l.kind = "close"
    BY <1>4, <1>13 DEF Ends, InFunction
  <2>2. Delta(l) = 0 - 1
    BY <2>1, BracesOf
  <2>3. Level' = 1
    BY <1>4, <2>1, <2>2
  <2>4. News(l) = {OpenBlockHere}
    BY <1>13, <2>1 DEF News, OpenBlockHere
  <2>5. \E i \in OpenItem.lines[1]..Len(file) : Opens(file[i]) = 1
    BY <1>1, <1>4, <2>1 DEF OpenInv
  <2> QED BY <1>2, <1>4, <1>5, <2>1, <2>3, <2>4, <2>5 DEF EndsFunction
<1> QED BY <1>4, <1>6, <1>7, <1>8, <1>10, <1>11, <1>12, <1>13

-----------------------------------------------------------------------------
(* extractFunctions *)

\* extractFunctions' state st: the blocks done, and the open one with its braces
CutIs(st, done, inside, block, depth) ==
  /\ st = [open |-> st.open, depth |-> st.depth, done |-> st.done]
  /\ st.done \in Seq(Members(st.done)) /\ Members(st.done) = done
  /\ IF inside THEN st.open = block /\ st.depth = depth ELSE st.open = NoBlock /\ st.depth = 0

\* A sequence with one more member.
LEMMA MembersAppend ==
  ASSUME NEW s, s \in Seq(Members(s)), NEW x
  PROVE  /\ Append(s, x) \in Seq(Members(Append(s, x)))
         /\ Members(Append(s, x)) = Members(s) \cup {x}
<1> DEFINE n == Len(s)
           t == Append(s, x)
           S == Members(s) \cup {x}
<1>1. s \in Seq(S) /\ n \in Nat
  BY SeqMonotonic, LenProperties
<1>2. t \in Seq(S) /\ Len(t) = n + 1 /\ (\A i \in 1..n : t[i] = s[i]) /\ t[n + 1] = x
  <2> HIDE DEF S
  <2>1. x \in S
    BY DEF S
  <2> QED BY <1>1, <2>1, AppendProperties
<1>3. \A i \in 1..(n + 1) : i \in 1..n \/ i = n + 1
  BY <1>1
<1>4. n + 1 \in 1..(n + 1) /\ \A i \in 1..n : i \in 1..(n + 1)
  BY <1>1
<1>5. Members(s) = {s[i] : i \in 1..n} /\ Members(t) = {t[i] : i \in 1..(n + 1)}
  BY <1>2 DEF Members
<1>6. Members(t) = S
  <2> HIDE DEF t, n
  <2> QED BY <1>2, <1>3, <1>4, <1>5
<1> QED BY <1>2, <1>6

\* A block with its lines changed
LEMMA BlockRecord ==
  ASSUME NEW o, NEW s, NEW b, NEW r, r = [name |-> o, lines |-> s]
  PROVE  [r EXCEPT !.lines = b] = [name |-> o, lines |-> b]
<1> DEFINE R == [name : {o}, lines : {s, b}]
           q == [r EXCEPT !.lines = b]
<1>1. r \in R
  OBVIOUS
<1>2. q \in R /\ q.name = o /\ q.lines = b
  BY <1>1
<1>3. \A x \in R : x = [name |-> x.name, lines |-> x.lines]
  OBVIOUS
<1> QED
  <2> HIDE DEF q, R
  <2>1. q = [name |-> q.name, lines |-> q.lines]
    BY <1>2, <1>3
  <2>2. q = [name |-> o, lines |-> b]
    BY <1>2, <2>1
  <2> QED BY <2>2 DEF q

\* The block of the open function, with the line that is read.
LEMMA OpenBlockIs ==
  ASSUME Len(file) \in Nat, Here = Len(file) + 1, OpenItem.lines[1] \in 1..Len(file)
  PROVE  /\ OpenBlock # NoBlock /\ [OpenBlock EXCEPT !.lines = Append(@, Here)] = OpenBlockHere
         /\ Append(OpenBlock.lines, Here) = OpenBlockHere.lines
         /\ HasBrace(OpenBlockHere.lines) <=> \E i \in OpenItem.lines[1]..Len(file) : Opens(file[i]) = 1
         /\ Len(OpenBlockHere.lines) > 1
<1> DEFINE n == Len(file)
           a == OpenItem.lines[1]
           s == FromTo(a, n)
           t == FromTo(a, n + 1)
<1>1. a \in Nat /\ n \in Nat /\ a >= 1 /\ a <= n /\ n + 1 \in Nat /\ a <= n + 1
  OBVIOUS
<1>2. s # <<>> /\ Append(s, n + 1) = t
  <2> HIDE DEF a, n, s, t
  <2> QED BY <1>1, FromToIs DEF s, t
<1>3. /\ Len(t) = (n + 1) - a + 1 /\ \A i \in 1..((n + 1) - a + 1) : t[i] = a + i - 1
      /\ \A x \in a..(n + 1) : \E i \in 1..Len(t) : t[i] = x
  <2> HIDE DEF a, n, s, t
  <2> QED BY <1>1, FromToIs DEF t
<1>4. OpenBlock = [name |-> OpenItem.name, lines |-> s] /\ OpenBlockHere = [name |-> OpenItem.name, lines |-> t]
  BY DEF OpenBlock, OpenBlockHere
<1>5. OpenBlock # NoBlock
  <2> HIDE DEF s
  <2> QED BY <1>2, <1>4 DEF NoBlock
<1>6. [OpenBlock EXCEPT !.lines = Append(@, Here)] = OpenBlockHere /\ Append(OpenBlock.lines, Here) = OpenBlockHere.lines
  <2> DEFINE name == OpenItem.name
  <2>1. [[name |-> name, lines |-> s] EXCEPT !.lines = Append(@, n + 1)] = [name |-> name, lines |-> Append(s, n + 1)]
    <3> HIDE DEF s, name, n
    <3> DEFINE r == [name |-> name, lines |-> s]
    <3>1. r.lines = s
      OBVIOUS
    <3>2. [r EXCEPT !.lines = Append(s, n + 1)] = [name |-> name, lines |-> Append(s, n + 1)]
      <4> HIDE DEF r
      <4> QED BY BlockRecord DEF r
    <3> QED BY <3>1, <3>2
  <2>2. OpenBlock.lines = s /\ OpenBlockHere.lines = t
    <3> HIDE DEF s, t
    <3> QED BY <1>4
  <2> HIDE DEF s, t
  <2> QED BY <1>2, <1>4, <2>1, <2>2
<1>7. Len(t) > 1
  <2> HIDE DEF t, a, n
  <2> QED BY <1>1, <1>3
<1>8. HasBrace(t) <=> \E i \in a..n : Opens(file[i]) = 1
  <2>1. HasBrace(t) <=> \E i \in 1..Len(t) : t[i] # n + 1 /\ Opens(file[t[i]]) = 1
    <3> HIDE DEF t
    <3> QED BY DEF HasBrace
  <2>2. \A i \in 1..Len(t) : t[i] \in a..(n + 1)
    <3> TAKE i \in 1..Len(t)
    <3> HIDE DEF t, a, n
    <3>1. i \in 1..((n + 1) - a + 1) /\ t[i] = a + i - 1
      BY <1>3
    <3>2. a + i - 1 \in a..(n + 1)
      BY <1>1, <3>1
    <3> QED BY <3>1, <3>2
  <2>3. \A x : x \in a..(n + 1) /\ x # n + 1 <=> x \in a..n
    <3> HIDE DEF a, n
    <3> QED BY <1>1
  <2> HIDE DEF t, a, n
  <2> QED BY <1>3, <2>1, <2>2, <2>3
<1> HIDE DEF t
<1>9. OpenBlockHere.lines = t
  BY <1>4
<1> QED BY <1>5, <1>6, <1>7, <1>8, <1>9

\* A step of extractFunctions is right: it closes a block when the language closes the
\* function and never else, in a file where every function has a body
\* (function_block.go counts braces only from a line that has some).
LEMMA CutStep ==
  ASSUME Grammar, NEW l, Reads(l), l.kind # "declaration",
         NEW st, NEW D, CutIs(st, D, InFunction, OpenBlock, Level - 1)
  PROVE  CutIs(Cut(st, l, Here), D \cup News(l), InFunction', OpenBlock', Level' - 1)
<1>1. /\ NoFunction(l) \/ BeginsFunction(l) \/ IsFunction(l) \/ KeepsFunction(l) \/ EndsFunction(l)
      /\ Level \in Nat /\ Level' = Level + Delta(l) /\ Delta(l) \in Int /\ Opens(l) \in {0, 1}
      /\ InFunction => OpenItem.lines[1] \in 1..Len(file)
      /\ Len(file) \in Nat /\ Here = Len(file) + 1
  BY FunctionCases
<1>2. /\ st = [open |-> st.open, depth |-> st.depth, done |-> st.done]
      /\ st.done \in Seq(Members(st.done)) /\ Members(st.done) = D
      /\ IF InFunction THEN st.open = OpenBlock /\ st.depth = Level - 1
                       ELSE st.open = NoBlock /\ st.depth = 0
  BY DEF CutIs
<1> DEFINE block == IF st.open = NoBlock THEN Opened(l) ELSE [st.open EXCEPT !.lines = Append(@, Here)]
           depth == st.depth + Delta(l)
           Stop  == [open |-> NoBlock, depth |-> 0, done |-> Append(st.done, block)]
           Go    == [open |-> block, depth |-> depth, done |-> st.done]
<1>3. st.open = NoBlock /\ l.kind \notin FunctionLines => Cut(st, l, Here) = st
  BY DEF Cut
<1>4. ~(st.open = NoBlock /\ l.kind \notin FunctionLines) =>
        Cut(st, l, Here) = IF depth = 0 /\ (Opens(l) = 1 \/ HasBrace(block.lines)) THEN Stop ELSE Go
  <2>1. [st EXCEPT !.open = block, !.depth = depth] = Go
    <3> HIDE DEF block, depth
    <3> DEFINE o == st.open
               d == st.depth
               s == st.done
    <3>1. st = [open |-> o, depth |-> d, done |-> s]
      BY <1>2
    <3> HIDE DEF o, d, s
    <3>2. [st EXCEPT !.open = block, !.depth = depth] = [open |-> block, depth |-> depth, done |-> s]
      <4> DEFINE R == [open : {o, block}, depth : {d, depth}, done : {s}]
                 q == [st EXCEPT !.open = block, !.depth = depth]
      <4>1. st \in R
        BY <3>1
      <4>2. q \in R /\ q.open = block /\ q.depth = depth /\ q.done = s
        BY <4>1
      <4>3. \A x \in R : x = [open |-> x.open, depth |-> x.depth, done |-> x.done]
        OBVIOUS
      <4> HIDE DEF q, R
      <4>4. q = [open |-> q.open, depth |-> q.depth, done |-> q.done]
        BY <4>2, <4>3
      <4>5. q = [open |-> block, depth |-> depth, done |-> s]
        BY <4>2, <4>4
      <4> QED BY <4>5 DEF q
    <3> QED BY <3>1, <3>2 DEF Go, s
  <2> QED BY <2>1 DEF Cut, Opened
<1>5. CutIs(Stop, D \cup {block}, FALSE, OpenBlock', Level' - 1)
  <2> HIDE DEF block
  <2> QED BY <1>2, MembersAppend DEF CutIs
<1>6. CutIs(Go, D, TRUE, block, depth)
  <2> HIDE DEF block, depth
  <2> QED BY <1>2 DEF CutIs
<1>7. CASE NoFunction(l)
  <2>1. Cut(st, l, Here) = st
    BY <1>2, <1>3, <1>7 DEF NoFunction
  <2> QED BY <1>2, <1>7, <2>1 DEF NoFunction, CutIs
<1>8. CASE BeginsFunction(l)
  <2>1. block = Opened(l) /\ depth = Delta(l) /\ l.kind \in FunctionLines
    BY <1>1, <1>2, <1>8 DEF BeginsFunction, FunctionLines
  <2>2. ~(depth = 0 /\ (Opens(l) = 1 \/ HasBrace(block.lines)))
    <3>1. block.lines = <<Here>> /\ ~HasBrace(<<Here>>)
      <4>1. block.lines = <<Here>>
        <5> HIDE DEF block
        <5> QED BY <2>1 DEF Opened
      <4>2. \A i \in 1..Len(<<Here>>) : <<Here>>[i] = Here
        OBVIOUS
      <4> QED BY <4>1, <4>2 DEF HasBrace
    <3> HIDE DEF block, depth
    <3> QED BY <1>1, <1>8, <2>1, <3>1 DEF BeginsFunction
  <2>3. Cut(st, l, Here) = Go
    <3> HIDE DEF block, depth, Go, Stop
    <3> QED BY <1>4, <2>1, <2>2
  <2>4. D \cup News(l) = D /\ OpenBlock' = block /\ Level' - 1 = depth /\ InFunction'
    <3> HIDE DEF block, depth
    <3> QED BY <1>1, <1>8, <2>1 DEF BeginsFunction
  <2> HIDE DEF block, depth, Go, Stop
  <2> QED BY <1>6, <2>3, <2>4 DEF CutIs
<1>9. CASE IsFunction(l)
  <2>1. block = Opened(l) /\ depth = 0 /\ l.kind \in FunctionLines /\ Opens(l) = 1
    BY <1>2, <1>9 DEF IsFunction, FunctionLines
  <2>2. Cut(st, l, Here) = Stop
    <3> HIDE DEF block, depth, Go, Stop
    <3> QED BY <1>4, <2>1
  <2>3. D \cup News(l) = D \cup {block} /\ ~InFunction'
    <3> HIDE DEF block, depth
    <3> QED BY <1>9, <2>1 DEF IsFunction
  <2> HIDE DEF block, depth, Go, Stop
  <2> QED BY <1>5, <2>2, <2>3 DEF CutIs
<1>10. ASSUME InFunction
       PROVE  block = OpenBlockHere /\ depth = Level' - 1 /\ st.open # NoBlock
  <2>1. depth = Level' - 1
    BY <1>1, <1>2, <1>10
  <2> HIDE DEF depth
  <2> QED BY <1>1, <1>2, <1>10, <2>1, OpenBlockIs
<1>11. CASE KeepsFunction(l)
  <2>1. block = OpenBlockHere /\ depth = Level' - 1 /\ st.open # NoBlock
    BY <1>10, <1>11 DEF KeepsFunction
  <2>2. ~(depth = 0 /\ (Opens(l) = 1 \/ HasBrace(block.lines)))
    <3> HIDE DEF block, depth
    <3>1. CASE Level' >= 2
      BY <1>1, <2>1, <3>1
    <3>2. CASE Opens(l) = 0 /\ \A i \in OpenItem.lines[1]..Len(file) : Opens(file[i]) = 0
      <4>1. ~HasBrace(OpenBlockHere.lines)
        BY <1>1, <1>11, <3>2, OpenBlockIs DEF KeepsFunction
      <4> QED BY <2>1, <3>2, <4>1
    <3> QED BY <1>11, <3>1, <3>2 DEF KeepsFunction
  <2>3. Cut(st, l, Here) = Go
    <3> HIDE DEF block, depth, Go, Stop
    <3> QED BY <1>4, <2>1, <2>2
  <2>4. D \cup News(l) = D /\ OpenBlock' = block /\ Level' - 1 = depth /\ InFunction'
    <3> HIDE DEF block, depth
    <3> QED BY <1>11, <2>1 DEF KeepsFunction
  <2> HIDE DEF block, depth, Go, Stop
  <2> QED BY <1>6, <2>3, <2>4 DEF CutIs
<1>12. CASE EndsFunction(l)
  <2>1. block = OpenBlockHere /\ depth = Level' - 1 /\ st.open # NoBlock
    BY <1>10, <1>12 DEF EndsFunction
  <2>2. depth = 0 /\ HasBrace(block.lines)
    <3> HIDE DEF block, depth
    <3>1. HasBrace(OpenBlockHere.lines)
      BY <1>1, <1>12, OpenBlockIs DEF EndsFunction
    <3> QED BY <1>12, <2>1, <3>1 DEF EndsFunction
  <2>3. Cut(st, l, Here) = Stop
    <3> HIDE DEF block, depth, Go, Stop
    <3> QED BY <1>4, <2>1, <2>2
  <2>4. D \cup News(l) = D \cup {block} /\ ~InFunction'
    <3> HIDE DEF block, depth
    <3> QED BY <1>12, <2>1 DEF EndsFunction
  <2> HIDE DEF block, depth, Go, Stop
  <2> QED BY <1>5, <2>3, <2>4 DEF CutIs
<1> QED BY <1>1, <1>7, <1>8, <1>9, <1>11, <1>12

\* The complete functions of the file
DoneAll == UNION {DoneOf(k) : k \in 1..Len(source)}

\* A line completes News of the whole file.
LEMMA AllDoneStep ==
  ASSUME Grammar, NEW l, Reads(l)
  PROVE  DoneAll' = DoneAll \cup News(l)
<1>0. PICK m : m = Len(source)
  OBVIOUS
<1>1. m \in Nat /\ (source = <<>> <=> m = 0)
  BY <1>0, EmptySeq, LenProperties DEF Grammar, Typed
<1>2. \A k \in 1..m : DoneOf(k)' = DoneOf(k) \cup (IF k = m THEN News(l) ELSE {})
  BY <1>0, DoneStep
<1>3. DoneAll' = UNION {DoneOf(k)' : k \in 1..Len(source')}
  BY DEF DoneAll
<1>4. DoneAll = UNION {DoneOf(k) : k \in 1..m}
  BY <1>0 DEF DoneAll
<1>5. UNION {DoneOf(k)' : k \in 1..m} = DoneAll \cup News(l)
  <2>1. CASE m = 0
    <3>1. News(l) = {} /\ 1..m = {}
      BY <1>1, <2>1, DoneStep
    <3> QED BY <1>4, <3>1
  <2>2. CASE m # 0
    <3>1. m \in 1..m
      BY <1>1, <2>2
    <3> QED BY <1>2, <1>4, <3>1
  <2> QED BY <2>1, <2>2
<1>6. CASE Len(source') = m
  BY <1>3, <1>5, <1>6
<1>7. CASE Len(source') # m
  <2>1. Len(source') = m + 1 /\ \A k : k = m + 1 => DoneOf(k)' = {}
    BY <1>0, <1>7, DoneStep
  <2>2. 1..(m + 1) = (1..m) \cup {m + 1} /\ DoneOf(m + 1)' = {}
    BY <1>1, <2>1
  <2>3. UNION {DoneOf(k)' : k \in 1..(m + 1)} = UNION {DoneOf(k)' : k \in 1..m}
    BY <2>2
  <2> QED BY <1>3, <1>5, <2>1, <2>3
<1> QED BY <1>6, <1>7

\* extractFunctions has them, if every function so far has a body.
CutInv ==
  ~Has({"declaration"}) =>
    CutIs([open |-> cut, depth |-> cutDepth, done |-> functions], DoneAll, InFunction, OpenBlock, Level - 1)

\* A line keeps the blocks of extractFunctions the complete functions.
LEMMA CutsStep ==
  ASSUME Grammar, CutInv, NEW l, Reads(l), CutLine(l)
  PROVE  CutInv'
<1> SUFFICES ASSUME ~Has({"declaration"})'
             PROVE  CutIs([open |-> cut', depth |-> cutDepth', done |-> functions'],
                          DoneAll', InFunction', OpenBlock', Level' - 1)
  BY DEF CutInv, CutIs, Members, NoBlock
<1>1. ~Has({"declaration"}) /\ l.kind # "declaration"
  <2> DEFINE K == {"declaration"}
  <2>1. ~Has(K)' /\ Typed
    BY DEF Grammar
  <2>2. ~Has(K) /\ l.kind \notin K
    <3> HIDE DEF K
    <3> QED BY <2>1, HasStep
  <2> QED BY <2>2
<1> DEFINE st  == [open |-> cut, depth |-> cutDepth, done |-> functions]
           new == Cut(st, l, Here)
<1>2. CutIs(st, DoneAll, InFunction, OpenBlock, Level - 1)
  BY <1>1 DEF CutInv
<1>3. CutIs(new, DoneAll \cup News(l), InFunction', OpenBlock', Level' - 1)
  <2> HIDE DEF st
  <2> QED BY <1>1, <1>2, CutStep
<1>4. cut' = new.open /\ cutDepth' = new.depth /\ functions' = new.done
  BY DEF CutLine
<1> HIDE DEF new
<1>5. new = [open |-> cut', depth |-> cutDepth', done |-> functions']
  BY <1>3, <1>4 DEF CutIs
<1> QED BY <1>3, <1>5, AllDoneStep

-----------------------------------------------------------------------------
(* extractFunctionBlocks *)

\* So has extractFunctionBlocks, but for three layouts more.
PartInv ==
  ~Has({"declaration", "oneLiner", "attributes"}) /\ ~AfterSignature =>
    /\ CutIs([open |-> part, depth |-> partDepth, done |-> parts], DoneAll, InFunction, OpenBlock, Level - 1)
    /\ Second = "signature" => Len(file) >= 1 /\ file[Len(file)].kind = "signature"

\* A line keeps the blocks of extractFunctionBlocks the complete functions.
LEMMA PartsStep ==
  ASSUME Grammar, PartInv, NEW l, Reads(l), CutPart(l)
  PROVE  PartInv'
<1> SUFFICES ASSUME ~Has({"declaration", "oneLiner", "attributes"})', ~AfterSignature'
             PROVE  /\ CutIs([open |-> part', depth |-> partDepth', done |-> parts'],
                             DoneAll', InFunction', OpenBlock', Level' - 1)
                    /\ Second' = "signature" => Len(file') >= 1 /\ file'[Len(file')].kind = "signature"
  BY DEF PartInv, CutIs, Members, NoBlock
<1>1. ~Has({"declaration", "oneLiner", "attributes"}) /\ l.kind \notin {"declaration", "oneLiner", "attributes"}
  <2> DEFINE K == {"declaration", "oneLiner", "attributes"}
  <2>1. ~Has(K)' /\ Typed
    BY DEF Grammar
  <2>2. ~Has(K) /\ l.kind \notin K
    <3> HIDE DEF K
    <3> QED BY <2>1, HasStep
  <2> QED BY <2>2
<1>2. /\ Len(file) \in Nat /\ Here = Len(file) + 1 /\ Len(file') = Len(file) + 1 /\ file'[Len(file) + 1] = l
      /\ \A i \in 1..Len(file) : file'[i] = file[i]
  BY FileIs DEF Grammar
<1>3. ~AfterSignature /\ (Len(file) >= 1 /\ file[Len(file)].kind = "signature" => l.kind # "comment")
  <2> DEFINE n == Len(file)
  <2>1. ~\E i \in 1..n : file'[i].kind = "signature" /\ file'[i + 1].kind = "comment"
    <3>1. Len(file') - 1 = n
      BY <1>2
    <3> QED BY <3>1 DEF AfterSignature
  <2>2. ASSUME AfterSignature PROVE FALSE
    <3>1. PICK i \in 1..(n - 1) : file[i].kind = "signature" /\ file[i + 1].kind = "comment"
      BY <2>2 DEF AfterSignature
    <3>2. i \in 1..n /\ i + 1 \in 1..n
      BY <1>2
    <3> HIDE DEF n
    <3> QED BY <1>2, <2>1, <3>1, <3>2 DEF n
  <2>3. ASSUME n >= 1, file[n].kind = "signature", l.kind = "comment" PROVE FALSE
    <3>1. n \in 1..n
      BY <1>2, <2>3
    <3> HIDE DEF n
    <3>2. \A i \in 1..n : file'[i] = file[i]
      BY <1>2 DEF n
    <3>3. file'[n + 1] = l
      BY <1>2 DEF n
    <3> QED BY <2>1, <2>3, <3>1, <3>2, <3>3
  <2> QED BY <2>2, <2>3
<1> DEFINE st == [open |-> part, depth |-> partDepth, done |-> parts]
           new == [open |-> part', depth |-> partDepth', done |-> parts']
<1>4. /\ CutIs(st, DoneAll, InFunction, OpenBlock, Level - 1)
      /\ Second = "signature" => Len(file) >= 1 /\ file[Len(file)].kind = "signature"
  BY <1>1, <1>3 DEF PartInv
<1>5. /\ parts \in Seq(Members(parts)) /\ Members(parts) = DoneAll
      /\ IF InFunction THEN part = OpenBlock /\ partDepth = Level - 1
                       ELSE part = NoBlock /\ partDepth = 0
  BY <1>4 DEF CutIs
<1>6. Second = "signature" => l.kind \notin {"comment", "attributes"}
  BY <1>1, <1>3, <1>4
<1>7. Second' = "signature" => Len(file') >= 1 /\ file'[Len(file')].kind = "signature"
  <2> SUFFICES ASSUME Second' = "signature"
               PROVE  Len(file') >= 1 /\ file'[Len(file')].kind = "signature"
    OBVIOUS
  <2>1. Begins(l)
    <3>1. InUnit'
      BY DEF InUnit
    <3>2. ~Continues(l)
      BY <1>6 DEF Continues
    <3> QED BY <3>1, <3>2, GrammarStep DEF Outside, IsOne, Ends
  <2>2. l.kind = "signature"
    BY <2>1 DEF Begins
  <2> QED BY <1>2, <2>2
<1>8. /\ NoFunction(l) \/ BeginsFunction(l) \/ KeepsFunction(l) \/ EndsFunction(l)
      /\ Level \in Nat /\ Level' = Level + Delta(l) /\ Delta(l) \in Int
      /\ InFunction => OpenItem.lines[1] \in 1..Len(file)
  BY <1>1, FunctionCases DEF IsFunction
<1> DEFINE D == DoneAll \cup News(l)
           block == IF part = NoBlock THEN Opened(l) ELSE [part EXCEPT !.lines = Append(@, Here)]
           depth == (IF part = NoBlock THEN 0 ELSE partDepth) + Delta(l)
<1>9. /\ part = NoBlock /\ l.kind \notin FunctionLines => UNCHANGED partVars
      /\ ~(part = NoBlock /\ l.kind \notin FunctionLines) =>
           IF depth = 0 /\ Len(block.lines) > 1
           THEN parts' = Append(parts, block) /\ part' = NoBlock /\ partDepth' = 0
           ELSE part' = block /\ partDepth' = depth /\ UNCHANGED parts
  BY DEF CutPart, Opened
<1>10. CASE NoFunction(l)
  <2>1. UNCHANGED partVars
    BY <1>5, <1>9, <1>10 DEF NoFunction
  <2>2. part' = part /\ partDepth' = partDepth /\ parts' = parts
    BY <2>1 DEF partVars
  <2>3. CutIs(new, D, InFunction', OpenBlock', Level' - 1)
    BY <1>4, <1>10, <2>2 DEF NoFunction, CutIs
  <2> QED BY <1>7, <2>3, AllDoneStep
<1>11. CASE BeginsFunction(l)
  <2>1. block = Opened(l) /\ depth = Delta(l) /\ part = NoBlock /\ l.kind \in FunctionLines
    BY <1>5, <1>8, <1>11 DEF BeginsFunction, FunctionLines
  <2>2. Len(block.lines) = 1
    <3> HIDE DEF block
    <3> QED BY <2>1 DEF Opened
  <2>3. part' = block /\ partDepth' = depth /\ parts' = parts
    <3> HIDE DEF block, depth
    <3> QED BY <1>9, <2>1, <2>2
  <2>4. InFunction' /\ D = DoneAll /\ OpenBlock' = block /\ Level' - 1 = depth
    <3> HIDE DEF block, depth
    <3> QED BY <1>8, <1>11, <2>1 DEF BeginsFunction
  <2>5. CutIs(new, D, InFunction', OpenBlock', Level' - 1)
    <3> HIDE DEF block, depth, D
    <3> QED BY <1>5, <2>3, <2>4 DEF CutIs
  <2> QED BY <1>7, <2>5, AllDoneStep
<1>12. ASSUME InFunction
       PROVE  block = OpenBlockHere /\ depth = Level' - 1 /\ part # NoBlock /\ Len(block.lines) > 1
  <2>1. part = OpenBlock /\ part # NoBlock /\ [part EXCEPT !.lines = Append(@, Here)] = OpenBlockHere
        /\ Len(OpenBlockHere.lines) > 1
    BY <1>2, <1>5, <1>8, <1>12, OpenBlockIs
  <2>2. depth = Level' - 1
    BY <1>5, <1>8, <1>12, <2>1
  <2> HIDE DEF depth
  <2> QED BY <2>1, <2>2
<1>13. CASE KeepsFunction(l)
  <2>1. block = OpenBlockHere /\ depth = Level' - 1 /\ part # NoBlock
    BY <1>12, <1>13 DEF KeepsFunction
  <2>2. depth # 0
    <3> HIDE DEF depth, block
    <3>1. Level' >= 2
      BY <1>6, <1>13 DEF KeepsFunction
    <3> QED BY <1>8, <2>1, <3>1
  <2>3. part' = block /\ partDepth' = depth /\ parts' = parts
    <3> HIDE DEF block, depth
    <3> QED BY <1>9, <2>1, <2>2
  <2>4. InFunction' /\ D = DoneAll /\ OpenBlock' = block /\ Level' - 1 = depth
    <3> HIDE DEF block, depth
    <3> QED BY <1>13, <2>1 DEF KeepsFunction
  <2>5. CutIs(new, D, InFunction', OpenBlock', Level' - 1)
    <3> HIDE DEF block, depth, D
    <3> QED BY <1>5, <2>3, <2>4 DEF CutIs
  <2> QED BY <1>7, <2>5, AllDoneStep
<1>14. CASE EndsFunction(l)
  <2>1. block = OpenBlockHere /\ depth = Level' - 1 /\ part # NoBlock /\ Len(block.lines) > 1
    BY <1>12, <1>14 DEF EndsFunction
  <2>2. depth = 0
    <3> HIDE DEF depth, block
    <3> QED BY <1>14, <2>1 DEF EndsFunction
  <2>3. parts' = Append(parts, block) /\ part' = NoBlock /\ partDepth' = 0
    <3> HIDE DEF block, depth
    <3> QED BY <1>9, <2>1, <2>2
  <2>4. ~InFunction' /\ D = DoneAll \cup {block}
    <3> HIDE DEF block, depth
    <3> QED BY <1>14, <2>1 DEF EndsFunction
  <2>5. CutIs(new, D, InFunction', OpenBlock', Level' - 1)
    <3> HIDE DEF block, depth, D
    <3> QED BY <1>5, <2>3, <2>4, MembersAppend DEF CutIs
  <2> QED BY <1>7, <2>5, AllDoneStep
<1> QED BY <1>8, <1>10, <1>11, <1>13, <1>14

-----------------------------------------------------------------------------
(* extractContracts *)

\* The lines of the contract that is open
Taken == IF InHeader THEN header ELSE gathered

\* extractContracts holds the lines of the open contract, and a block of every
\* finished one that begins at its line.
GatherInv ==
  /\ ~InHeader => header = <<>>
  /\ InHeader \/ scopes = <<>> => gathered = <<>>
  /\ gatheredDepth = Level
  /\ Taken \in Seq(1..Len(file)) /\ (scopes # <<>> => Taken # <<>> /\ Taken[1] = LastContract.line)
  /\ blocks \in Seq(Seq(1..Len(file)))
  /\ Len(blocks) = IF scopes = <<>> THEN Len(source) ELSE Len(source) - 1
  /\ \A k \in 1..Len(blocks) : blocks[k] # <<>> /\ blocks[k][1] = source[k].line

\* A line that belongs to a contract
Taking(l) == scopes # <<>> \/ l.kind \in ContractLines

\* What extractContracts does with a line, by whether a contract is open before and after it.
LEMMA GatherMoves ==
  ASSUME Grammar, GatherInv, NEW l, Reads(l), GatherContract(l)
  PROVE  /\ gatheredDepth' = Level'
         /\ ~InHeader' => header' = <<>>
         /\ InHeader' \/ scopes' = <<>> => gathered' = <<>>
         /\ ~Taking(l) => scopes = <<>> /\ scopes' = <<>> /\ blocks' = blocks
         /\ Taking(l) /\ scopes' # <<>> => Taken' = Append(Taken, Here) /\ blocks' = blocks
         /\ Taking(l) /\ scopes' = <<>> => blocks' = Append(blocks, Append(Taken, Here))
<1>1. Typed /\ Shape /\ Typed' /\ Shape'
  BY GrammarStep DEF Grammar
<1>2. /\ Level \in Nat /\ Level' \in Nat /\ Level' = Level + Delta(l) /\ Delta(l) = Opens(l) - Closes(l)
      /\ Opens(l) \in {0, 1} /\ Closes(l) \in {0, 1}
      /\ ~InHeader => (Level = 0 <=> scopes = <<>>)
      /\ ~InHeader' => (Level' = 0 <=> scopes' = <<>>)
      /\ InHeader => Level = 0 /\ scopes # <<>>
      /\ scopes' = <<>> => ~InHeader'
  <2>1. InHeader => Level = 0 /\ scopes # <<>>
    BY <1>1, LevelIs, TopIs DEF InHeader
  <2>2. scopes' = <<>> => ~InHeader'
    BY EmptySeq DEF InHeader
  <2> QED BY <1>1, <2>1, <2>2, GrammarStep, LevelUp, LevelUpAfter, BracesOf
<1>3. /\ ~InHeader => header = <<>>
      /\ InHeader => header # <<>>
      /\ InHeader \/ scopes = <<>> => gathered = <<>>
      /\ ~InHeader /\ scopes # <<>> => gathered # <<>>
      /\ gatheredDepth = Level
  BY <1>2 DEF GatherInv, Taken
<1>4. \/ l.kind = "comment"
      \/ scopes = <<>> /\ l.kind \in ContractLines \cup {"import"}
      \/ InHeader /\ l.kind \in {"parents", "base", "brace"}
      \/ scopes # <<>> /\ ~InHeader /\ l.kind # "bareContract"
  <2>1. Second \in {"signature", "constructorHead"} \/ InBody \/ InContract => scopes # <<>> /\ ~InHeader
    BY <1>1, TopIs DEF InBody, InContract, InHeader, Second, NoName
  <2>2. "bareContract" \notin Bodies \cup Statements
    BY DEF Bodies, FunctionLines, Statements
  <2> QED BY <1>1, <2>1, <2>2, FitsIs DEF Reads
<1>5. CASE ~Taking(l)
  <2>1. scopes = <<>> /\ l.kind \notin ContractLines
    BY <1>5 DEF Taking
  <2>2. gathered = <<>> /\ header = <<>> /\ UNCHANGED gatherVars
    BY <1>2, <1>3, <2>1 DEF GatherContract
  <2>3. Delta(l) = 0 /\ l.kind # "bareContract"
    <3>1. l.kind \in {"comment", "import"}
      BY <1>2, <1>4, <2>1
    <3> QED BY <3>1, BracesOf
  <2>4. ~InHeader /\ ~InHeader'
    BY <1>1, <1>2, <2>1, <2>3, GrammarStep, HeaderFrom
  <2>5. scopes' = <<>> /\ Level' = Level
    BY <1>2, <2>1, <2>3, <2>4
  <2> QED BY <1>3, <1>5, <2>1, <2>2, <2>4, <2>5 DEF gatherVars
<1>6. CASE Taking(l) /\ gathered # <<>>
  <2>1. scopes # <<>> /\ ~InHeader /\ ~InHeader' /\ Taken = gathered
    <3>1. scopes # <<>> /\ ~InHeader
      BY <1>3, <1>6
    <3>2. l.kind # "bareContract"
      BY <1>4, <3>1
    <3> QED BY <1>1, <3>1, <3>2, GrammarStep, HeaderFrom DEF Taken
  <2> DEFINE depth == gatheredDepth + Delta(l)
  <2>2. depth = Level' /\ (depth <= 0 <=> scopes' = <<>>)
    <3>1. depth = Level'
      BY <1>2, <1>3
    <3>2. depth <= 0 <=> Level' = 0
      <4> HIDE DEF depth
      <4> QED BY <1>2, <3>1
    <3> QED BY <1>2, <2>1, <3>1, <3>2
  <2>3. /\ gathered'      = IF depth <= 0 THEN <<>> ELSE Append(gathered, Here)
        /\ gatheredDepth' = IF depth <= 0 THEN 0 ELSE depth
        /\ blocks'        = IF depth <= 0 THEN Append(blocks, Append(gathered, Here)) ELSE blocks
        /\ header' = header
    BY <1>6 DEF GatherContract
  <2> HIDE DEF depth
  <2> QED BY <1>2, <1>3, <1>6, <2>1, <2>2, <2>3 DEF Taken
<1>7. CASE Taking(l) /\ gathered = <<>>
  <2>1. /\ Taken = header /\ Level = 0
        /\ header # <<>> \/ l.kind \in ContractLines
        /\ InHeader \/ scopes = <<>>
    BY <1>2, <1>3, <1>7 DEF Taken, Taking
  <2>2. CASE Opens(l) = 0
    <3>1. header' = Append(header, Here) /\ UNCHANGED <<gathered, gatheredDepth, blocks>>
      BY <1>7, <2>1, <2>2 DEF GatherContract
    <3>2. InHeader'
      <4>1. CASE InHeader
        <5>1. l.kind \in {"comment", "parents", "base"}
          BY <1>2, <1>4, <2>2, <4>1, BracesOf
        <5>2. scopes' = scopes
          <6>1. Fits(l) /\ scopes' = Scoped(l)
            BY DEF Reads, Follow
          <6> QED BY <5>1, <6>1, ScopedIs
        <5> QED BY <4>1, <5>2 DEF InHeader
      <4>2. CASE ~InHeader
        <5>1. scopes = <<>> /\ l.kind \in ContractLines
          BY <1>7, <2>1, <4>2 DEF Taking
        <5>2. l.kind = "bareContract"
          BY <2>2, <5>1, BracesOf DEF ContractLines
        <5>3. scopes' = <<"header">>
          <6>1. scopes' = Append(scopes, "header")
            BY <1>1, <5>2, ScopedIs DEF Reads, Follow
          <6> QED BY <5>1, <6>1
        <5> QED BY <5>3 DEF InHeader
      <4> QED BY <4>1, <4>2
    <3>3. Level' = Level /\ scopes' # <<>>
      <4>1. Closes(l) = 0
        <5>1. l.kind \in {"comment", "parents", "base", "import", "brace"} \cup ContractLines
          BY <1>2, <1>4, <2>1
        <5> QED BY <2>2, <5>1, BracesOf DEF ContractLines
      <4> QED BY <1>2, <2>2, <3>2, <4>1
    <3> QED BY <1>3, <1>7, <2>1, <3>1, <3>2, <3>3 DEF Taken
  <2>3. CASE Opens(l) = 1
    <3>1. /\ header' = <<>>
          /\ gathered'      = IF Delta(l) <= 0 THEN <<>> ELSE Append(header, Here)
          /\ gatheredDepth' = IF Delta(l) <= 0 THEN 0 ELSE Delta(l)
          /\ blocks'        = IF Delta(l) <= 0 THEN Append(blocks, Append(header, Here)) ELSE blocks
      BY <1>7, <2>1, <2>3 DEF GatherContract
    <3>2. ~InHeader'
      <4>1. CASE InHeader
        <5>1. l.kind = "brace"
          BY <1>2, <1>4, <2>3, <4>1, BracesOf
        <5>2. Level' = 1
          BY <1>2, <2>1, <5>1, BracesOf
        <5>3. InHeader' => Level' = 0
          BY DEF Level
        <5> QED BY <5>2, <5>3
      <4>2. CASE ~InHeader
        <5>1. l.kind # "bareContract"
          BY <2>3, BracesOf
        <5> QED BY <1>1, <4>2, <5>1, GrammarStep, HeaderFrom
      <4> QED BY <4>1, <4>2
    <3>3. Delta(l) = Level' /\ (Delta(l) <= 0 <=> scopes' = <<>>)
      <4>1. Delta(l) = Level'
        BY <1>2, <2>1
      <4>2. Delta(l) <= 0 <=> Level' = 0
        BY <1>2, <4>1
      <4> QED BY <1>2, <3>2, <4>1, <4>2
    <3>4. header' = <<>> /\ gatheredDepth' = Level'
      BY <1>2, <3>1, <3>3
    <3>5. CASE scopes' = <<>>
      <4>1. gathered' = <<>> /\ blocks' = Append(blocks, Append(Taken, Here))
        BY <2>1, <3>1, <3>3, <3>5
      <4> QED BY <1>7, <3>2, <3>4, <3>5, <4>1
    <3>6. CASE scopes' # <<>>
      <4>1. gathered' = Append(Taken, Here) /\ blocks' = blocks
        BY <2>1, <3>1, <3>3, <3>6
      <4> QED BY <1>7, <3>2, <3>4, <3>6, <4>1 DEF Taken
    <3> QED BY <3>5, <3>6
  <2> QED BY <1>2, <2>2, <2>3
<1> QED BY <1>5, <1>6, <1>7

\* A line keeps the blocks of extractContracts those of the contracts, one for one.
LEMMA GatherStep ==
  ASSUME Grammar, GatherInv, NEW l, Reads(l), GatherContract(l)
  PROVE  GatherInv'
<1>0. PICK n, m : n = Len(file) /\ m = Len(source)
  OBVIOUS
<1>1. /\ gatheredDepth' = Level'
      /\ ~InHeader' => header' = <<>>
      /\ InHeader' \/ scopes' = <<>> => gathered' = <<>>
      /\ ~Taking(l) => scopes = <<>> /\ scopes' = <<>> /\ blocks' = blocks
      /\ Taking(l) /\ scopes' # <<>> => Taken' = Append(Taken, Here) /\ blocks' = blocks
      /\ Taking(l) /\ scopes' = <<>> => blocks' = Append(blocks, Append(Taken, Here))
  BY GatherMoves
<1>2. /\ n \in Nat /\ Here = n + 1 /\ Len(file') = n + 1 /\ m \in Nat
      /\ (scopes # <<>> => m # 0)
  BY <1>0, FileIs, LenProperties, EmptySeq DEF Grammar, Typed
<1>3. /\ Taken \in Seq(1..n) /\ (scopes # <<>> => Taken # <<>> /\ Taken[1] = source[m].line)
      /\ blocks \in Seq(Seq(1..n)) /\ Len(blocks) = (IF scopes = <<>> THEN m ELSE m - 1)
      /\ \A k \in 1..Len(blocks) : blocks[k] # <<>> /\ blocks[k][1] = source[k].line
      /\ (scopes = <<>> => Taken = <<>>)
  <2>1. scopes = <<>> => ~InHeader
    BY EmptySeq DEF InHeader
  <2> QED BY <1>0, <2>1 DEF GatherInv, LastContract, Taken
<1>4. /\ \A k \in 1..m : source'[k].line = source[k].line
      /\ IF scopes = <<>> /\ l.kind \in ContractLines
         THEN Len(source') = m + 1 /\ source'[m + 1].line = n + 1
         ELSE Len(source') = m
  BY <1>0, <1>2, DoneStep
<1> DEFINE new == Append(Taken, n + 1)
           S   == Seq(1..(n + 1))
<1>5. S = Seq(1..Len(file')) /\ Seq(1..n) \subseteq S /\ blocks \in Seq(S) /\ Taken \in S
  <2>1. ASSUME NEW s \in Seq(1..n) PROVE s \in S
    <3>1. 1..n \subseteq 1..(n + 1)
      BY <1>2
    <3> QED BY <3>1, SeqMonotonic
  <2>2. blocks \in Seq(S)
    <3> HIDE DEF S
    <3> QED BY <1>3, <2>1, SeqMonotonic
  <2> QED BY <1>2, <1>3, <2>1, <2>2
<1>6. /\ new \in S /\ new # <<>>
      /\ new[1] = source'[Len(source')].line \/ ~Taking(l)
  <2>1. new \in S /\ Len(new) = Len(Taken) + 1 /\ (\A i \in 1..Len(Taken) : new[i] = Taken[i])
        /\ new[Len(Taken) + 1] = n + 1
    <3>1. n + 1 \in 1..(n + 1)
      BY <1>2
    <3> QED BY <1>5, <3>1, AppendProperties
  <2>2. new # <<>>
    BY <1>3, AppendProperties
  <2>3. CASE scopes # <<>>
    <3>1. Len(Taken) \in Nat /\ Len(Taken) # 0
      BY <1>3, <2>3, EmptySeq, LenProperties
    <3>2. 1 \in 1..Len(Taken)
      BY <3>1
    <3>3. new[1] = source[m].line
      <4> HIDE DEF new
      <4> QED BY <1>3, <2>1, <2>3, <3>2
    <3>4. Len(source') = m /\ m \in 1..m
      BY <1>2, <1>4, <2>3
    <3> QED BY <1>4, <2>1, <2>2, <3>3, <3>4
  <2>4. CASE scopes = <<>>
    <3>1. Len(Taken) = 0
      BY <1>3, <2>4, EmptySeq
    <3>2. new[1] = n + 1
      <4> HIDE DEF new
      <4> QED BY <2>1, <3>1
    <3> QED BY <1>4, <2>1, <2>2, <2>4, <3>2 DEF Taking
  <2> QED BY <2>3, <2>4
<1>8. CASE ~Taking(l) \/ scopes' # <<>>
  <2>1. blocks' = blocks
    BY <1>1, <1>8
  <2>2. \A k \in 1..Len(blocks) : k \in 1..m
    <3> DEFINE b == Len(blocks)
    <3>1. b = m \/ b = m - 1
      BY <1>3
    <3>2. m \in Nat
      BY <1>2
    <3> HIDE DEF b
    <3>3. \A k \in 1..b : k \in 1..m
      BY <3>1, <3>2
    <3> QED BY <3>3 DEF b
  <2>3. \A k \in 1..Len(blocks') : blocks'[k] # <<>> /\ blocks'[k][1] = source'[k].line
    BY <1>3, <1>4, <2>1, <2>2
  <2>4. Taken' \in S /\ (scopes' # <<>> => Taken' # <<>> /\ Taken'[1] = LastContract'.line)
    <3>1. CASE ~Taking(l)
      <4>1. scopes' = <<>> /\ Taken' = <<>>
        <5>1. ~InHeader' /\ scopes' = <<>>
          BY <1>1, <3>1, EmptySeq DEF InHeader
        <5> QED BY <1>1, <5>1 DEF Taken
      <4> QED BY <4>1, EmptySeq
    <3>2. CASE Taking(l)
      <4> HIDE DEF new, S
      <4>1. Taken' = new
        BY <1>1, <1>2, <1>8, <3>2 DEF new
      <4> QED BY <1>6, <3>2, <4>1 DEF LastContract
    <3> QED BY <3>1, <3>2
  <2>5. Len(blocks') = IF scopes' = <<>> THEN Len(source') ELSE Len(source') - 1
    <3>1. CASE ~Taking(l)
      BY <1>1, <1>3, <1>4, <2>1, <3>1 DEF Taking
    <3>2. CASE Taking(l)
      <4>1. scopes' # <<>>
        BY <1>8, <3>2
      <4>2. CASE scopes = <<>>
        BY <1>2, <1>3, <1>4, <2>1, <3>2, <4>1, <4>2 DEF Taking
      <4>3. CASE scopes # <<>>
        BY <1>3, <1>4, <2>1, <4>1, <4>3
      <4> QED BY <4>2, <4>3
    <3> QED BY <3>1, <3>2
  <2> HIDE DEF S, new
  <2> QED BY <1>1, <1>5, <2>1, <2>3, <2>4, <2>5 DEF GatherInv
<1>9. CASE Taking(l) /\ scopes' = <<>>
  <2>1. blocks' = Append(blocks, new)
    BY <1>1, <1>2, <1>9
  <2> DEFINE b == Len(blocks)
  <2>2. /\ blocks' \in Seq(S) /\ Len(blocks') = b + 1 /\ b \in Nat
        /\ \A k \in 1..b : blocks'[k] = blocks[k]
        /\ blocks'[b + 1] = new
    <3> HIDE DEF new, S
    <3> QED BY <1>5, <1>6, <2>1, AppendProperties, LenProperties
  <2> HIDE DEF b
  <2>3. b + 1 = Len(source') /\ b <= m
    <3>1. b = IF scopes = <<>> THEN m ELSE m - 1
      BY <1>3 DEF b
    <3>2. CASE scopes = <<>>
      BY <1>2, <1>4, <1>9, <3>1, <3>2 DEF Taking
    <3>3. CASE scopes # <<>>
      BY <1>2, <1>4, <3>1, <3>3
    <3> QED BY <3>2, <3>3
  <2>4. \A k \in 1..Len(blocks') : blocks'[k] # <<>> /\ blocks'[k][1] = source'[k].line
    <3> TAKE k \in 1..Len(blocks')
    <3>1. k \in 1..b \/ k = b + 1
      BY <2>2
    <3>2. CASE k \in 1..b
      <4>1. k \in 1..m
        BY <1>2, <2>2, <2>3, <3>2
      <4> QED BY <1>3, <1>4, <2>2, <3>2, <4>1 DEF b
    <3>3. CASE k = b + 1
      <4> HIDE DEF new
      <4> QED BY <1>6, <1>9, <2>2, <2>3, <3>3
    <3> QED BY <3>1, <3>2, <3>3
  <2>5. Taken' = <<>>
    <3>1. ~InHeader'
      BY <1>9, EmptySeq DEF InHeader
    <3> QED BY <1>1, <1>9, <3>1 DEF Taken
  <2>6. Taken' \in S
    BY <2>5, EmptySeq
  <2> HIDE DEF S
  <2> QED BY <1>1, <1>5, <1>9, <2>2, <2>3, <2>4, <2>6 DEF GatherInv
<1> QED BY <1>8, <1>9

-----------------------------------------------------------------------------
(* extractContractFunctions: the lines of a contract, cut one by one *)

\* Some line of ls opens a brace.
HasOpen(ls, f) == \E i \in 1..Len(ls) : Opens(f[ls[i]]) = 1

\* The block that line n of file f goes to, and what is known after that line
BlockWith(st, n, f) == IF st.open = NoBlock THEN [name |-> f[n].name, lines |-> <<n>>]
                       ELSE [st.open EXCEPT !.lines = Append(@, n)]
CutOf(st, n, f) ==
  IF st.open = NoBlock /\ f[n].kind \notin FunctionLines THEN st
  ELSE IF st.depth + Delta(f[n]) = 0 /\ (Opens(f[n]) = 1 \/ HasOpen(BlockWith(st, n, f).lines, f))
       THEN [open |-> NoBlock, depth |-> 0, done |-> Append(st.done, BlockWith(st, n, f))]
       ELSE [st EXCEPT !.open = BlockWith(st, n, f), !.depth = st.depth + Delta(f[n])]

\* What extractFunctions knows, of a file of N lines
IsCut(st, N) ==
  /\ st = [open |-> st.open, depth |-> st.depth, done |-> st.done]
  /\ st.open = [name |-> st.open.name, lines |-> st.open.lines]
  /\ st.open.lines \in Seq(1..N)

\* g is extractFunctions run over the lines b of file f.
FoldOf(g, b, f) ==
  /\ g = [i \in 0..Len(b) |-> g[i]]
  /\ g[0] = NoCut
  /\ \A i \in 1..Len(b) : g[i] = CutOf(g[i - 1], b[i], f)
  /\ \A i \in 0..Len(b) : IsCut(g[i], Len(f))

\* The block a line goes to has that line as its last.
LEMMA BlockWithIs ==
  ASSUME NEW N \in Nat, NEW st, IsCut(st, N), NEW n \in 1..N, NEW f
  PROVE  /\ BlockWith(st, n, f) = [name |-> BlockWith(st, n, f).name, lines |-> BlockWith(st, n, f).lines]
         /\ BlockWith(st, n, f).lines = (IF st.open = NoBlock THEN <<n>> ELSE Append(st.open.lines, n))
         /\ BlockWith(st, n, f).lines \in Seq(1..N)
<1>1. CASE st.open = NoBlock
  <2>1. BlockWith(st, n, f) = [name |-> f[n].name, lines |-> <<n>>]
    BY <1>1 DEF BlockWith
  <2>2. <<n>> \in Seq(1..N)
    OBVIOUS
  <2> QED BY <1>1, <2>1, <2>2
<1>2. CASE st.open # NoBlock
  <2> DEFINE o == st.open.name
             s == st.open.lines
             t == Append(s, n)
  <2>1. st.open = [name |-> o, lines |-> s] /\ s \in Seq(1..N)
    BY DEF IsCut
  <2>2. [st.open EXCEPT !.lines = t] = [name |-> o, lines |-> t]
    <3> HIDE DEF o, s, t
    <3> QED BY <2>1, BlockRecord
  <2>3. BlockWith(st, n, f) = [name |-> o, lines |-> t]
    BY <1>2, <2>2 DEF BlockWith
  <2>4. t \in Seq(1..N)
    <3> HIDE DEF s
    <3> QED BY <2>1, AppendProperties
  <2>5. BlockWith(st, n, f).lines = t
    <3> HIDE DEF t
    <3> QED BY <2>3
  <2> HIDE DEF t, o
  <2>6. BlockWith(st, n, f) = [name |-> BlockWith(st, n, f).name, lines |-> BlockWith(st, n, f).lines]
    BY <2>3
  <2> QED BY <1>2, <2>4, <2>5, <2>6 DEF t
<1> QED BY <1>1, <1>2

\* A step of the fold keeps to the lines there are.
LEMMA CutOfTyped ==
  ASSUME NEW N \in Nat, NEW st, IsCut(st, N), NEW n \in 1..N, NEW f
  PROVE  IsCut(CutOf(st, n, f), N)
<1> DEFINE block == BlockWith(st, n, f)
           depth == st.depth + Delta(f[n])
           new   == CutOf(st, n, f)
<1>1. block = [name |-> block.name, lines |-> block.lines] /\ block.lines \in Seq(1..N)
  BY BlockWithIs
<1>2. NoBlock = [name |-> NoBlock.name, lines |-> NoBlock.lines] /\ NoBlock.lines \in Seq(1..N)
  <2>1. <<>> \in Seq(1..N)
    BY EmptySeq
  <2> QED BY <2>1 DEF NoBlock
<1>3. [st EXCEPT !.open = block, !.depth = depth] = [open |-> block, depth |-> depth, done |-> st.done]
  <2>1. st = [open |-> st.open, depth |-> st.depth, done |-> st.done]
    BY DEF IsCut
  <2> DEFINE R == [open : {st.open, block}, depth : {st.depth, depth}, done : {st.done}]
             q == [st EXCEPT !.open = block, !.depth = depth]
  <2> HIDE DEF block, depth
  <2>2. st \in R
    BY <2>1
  <2>3. q \in R /\ q.open = block /\ q.depth = depth /\ q.done = st.done
    BY <2>2
  <2>4. \A x \in R : x = [open |-> x.open, depth |-> x.depth, done |-> x.done]
    OBVIOUS
  <2> HIDE DEF q, R
  <2>5. q = [open |-> q.open, depth |-> q.depth, done |-> q.done]
    BY <2>3, <2>4
  <2>6. q = [open |-> block, depth |-> depth, done |-> st.done]
    BY <2>3, <2>5
  <2> QED BY <2>6 DEF q
<1>4. \/ new = st
      \/ new = [open |-> NoBlock, depth |-> 0, done |-> Append(st.done, block)]
      \/ new = [open |-> block, depth |-> depth, done |-> st.done]
  BY <1>3 DEF CutOf
<1> HIDE DEF new, block, depth
<1>5. IsCut(new, N)
  BY <1>1, <1>2, <1>4 DEF IsCut
<1> QED BY <1>5 DEF new

\* ... and depends on no later line.
LEMMA CutOfSame ==
  ASSUME NEW N \in Nat, NEW st, IsCut(st, N), NEW n \in 1..N, NEW f, NEW h, \A i \in 1..N : h[i] = f[i]
  PROVE  CutOf(st, n, h) = CutOf(st, n, f)
<1>1. BlockWith(st, n, h) = BlockWith(st, n, f) /\ h[n] = f[n]
  BY DEF BlockWith
<1>2. PICK ls : ls = BlockWith(st, n, f).lines
  OBVIOUS
<1>3. ls \in Seq(1..N)
  BY <1>2, BlockWithIs
<1>4. \A i \in 1..Len(ls) : ls[i] \in 1..N
  BY <1>3
<1>5. HasOpen(ls, h) <=> HasOpen(ls, f)
  BY <1>4 DEF HasOpen
<1> QED BY <1>1, <1>2, <1>5 DEF CutOf

\* extractFunctions' step, of a line that was read before
LEMMA CutPast ==
  ASSUME Len(file) \in Nat, NEW st, IsCut(st, Len(file)), NEW n \in 1..Len(file)
  PROVE  Cut(st, file[n], n) = CutOf(st, n, file)
<1>1. PICK ls : ls = BlockWith(st, n, file).lines
  OBVIOUS
<1>2. ls \in Seq(1..Len(file))
  BY <1>1, BlockWithIs
<1>3. \A i \in 1..Len(ls) : ls[i] \in 1..Len(file) /\ ls[i] # Len(file) + 1
  BY <1>2
<1>4. HasBrace(ls) <=> HasOpen(ls, file)
  BY <1>3 DEF HasBrace, HasOpen, Here
<1> QED BY <1>1, <1>4 DEF CutOf, Cut, BlockWith

\* ... and of the line that is being read
LEMMA CutHere ==
  ASSUME Len(file) \in Nat, NEW st, IsCut(st, Len(file)), NEW f, \A i \in 1..Len(file) : f[i] = file[i]
  PROVE  Cut(st, f[Here], Here) = CutOf(st, Here, f)
<1>0. PICK n : n = Len(file)
  OBVIOUS
<1>1. PICK ls : ls = BlockWith(st, n + 1, f).lines
  OBVIOUS
<1>2. ls \in Seq(1..(n + 1))
  <2>1. IsCut(st, n + 1)
    <3>1. 1..n \subseteq 1..(n + 1)
      BY <1>0
    <3>2. st.open.lines \in Seq(1..(n + 1))
      BY <1>0, <3>1, SeqMonotonic DEF IsCut
    <3> QED BY <3>2 DEF IsCut
  <2>2. n + 1 \in Nat /\ n + 1 \in 1..(n + 1)
    BY <1>0
  <2> QED BY <1>1, <2>1, <2>2, BlockWithIs
<1>3. \A i \in 1..Len(ls) : ls[i] \in 1..n \/ ls[i] = n + 1
  <2> DEFINE N == n + 1
  <2> DEFINE S == 1..N
  <2>1. ls \in Seq(S)
    BY <1>2
  <2>2. \A i \in 1..Len(ls) : ls[i] \in S
    <3> HIDE DEF S
    <3> QED BY <2>1
  <2> QED BY <1>0, <2>2
<1>4. Opens(f[n + 1]) = 1 \/ HasBrace(ls) <=> Opens(f[n + 1]) = 1 \/ HasOpen(ls, f)
  <2>1. \A i \in 1..n : i # n + 1 /\ f[i] = file[i]
    BY <1>0
  <2>2. HasBrace(ls) <=> \E i \in 1..Len(ls) : ls[i] # n + 1 /\ Opens(file[ls[i]]) = 1
    BY <1>0 DEF HasBrace, Here
  <2> QED BY <1>3, <2>1, <2>2 DEF HasOpen
<1>5. Here = n + 1
  BY <1>0 DEF Here
<1>6. Cut(st, f[n + 1], n + 1) = CutOf(st, n + 1, f)
  BY <1>1, <1>4 DEF CutOf, Cut, BlockWith
<1> QED BY <1>5, <1>6

\* A set of natural numbers has a least element.
LEMMA LeastElement ==
  ASSUME NEW T, T \subseteq Nat, T # {}
  PROVE  \E x \in T : \A y \in T : x <= y
<1> DEFINE Less == {p \in Nat \X Nat : p[1] < p[2]}
<1>1. OpToRel(<, Nat) = Less
  BY DEF OpToRel
<1>2. IsWellFoundedOn(Less, Nat)
  BY <1>1, NatLessThanWellFounded
<1>3. PICK x \in T : \A y \in T : ~(<<y, x>> \in Less)
  <2> HIDE DEF Less
  <2> QED BY <1>2, WFMin
<1>4. ASSUME NEW y \in T PROVE x <= y
  <2>1. x \in Nat /\ y \in Nat
    OBVIOUS
  <2>2. ~(y < x)
    BY <1>3, <2>1
  <2> QED BY <2>1, <2>2
<1> QED BY <1>4

\* Induction over the natural numbers, for a set instead of a predicate.
LEMMA NaturalInduction ==
  ASSUME NEW T, 0 \in T, \A n \in Nat : n \in T => n + 1 \in T
  PROVE  Nat \subseteq T
<1> SUFFICES ASSUME ~(Nat \subseteq T) PROVE FALSE
  OBVIOUS
<1>1. PICK x \in Nat \ T : \A y \in Nat \ T : x <= y
  BY LeastElement
<1>2. x # 0
  BY <1>1
<1>3. x - 1 \in Nat /\ x - 1 \in T
  BY <1>1, <1>2
<1> QED BY <1>1, <1>2, <1>3

\* The fold over no lines.
LEMMA FoldEmpty ==
  ASSUME NEW f, Len(f) \in Nat
  PROVE  FoldOf([i \in 0..0 |-> NoCut], <<>>, f)
<1> DEFINE g == [i \in 0..0 |-> NoCut]
<1>1. Len(<<>>) = 0 /\ 1..0 = {} /\ g[0] = NoCut /\ \A i \in 0..0 : i = 0
  BY EmptySeq
<1>2. IsCut(NoCut, Len(f))
  <2>1. <<>> \in Seq(1..Len(f))
    BY EmptySeq
  <2> QED BY <2>1 DEF IsCut, NoCut, NoBlock
<1>3. g = [i \in 0..0 |-> g[i]]
  OBVIOUS
<1> HIDE DEF g
<1>4. \A i \in 1..0 : g[i] = CutOf(g[i - 1], <<>>[i], f)
  BY <1>1
<1>5. \A i \in 0..0 : IsCut(g[i], Len(f))
  BY <1>1, <1>2
<1>6. FoldOf(g, <<>>, f)
  BY <1>1, <1>3, <1>4, <1>5 DEF FoldOf
<1> QED BY <1>6 DEF g

\* A fold stays when the file grows.
LEMMA FoldSame ==
  ASSUME NEW f, NEW h, Len(f) \in Nat, Len(h) = Len(f) + 1, \A i \in 1..Len(f) : h[i] = f[i],
         NEW b \in Seq(1..Len(f)), NEW g, FoldOf(g, b, f)
  PROVE  FoldOf(g, b, h)
<1>0. PICK N : N = Len(f)
  OBVIOUS
<1>1. N \in Nat /\ Len(h) = N + 1 /\ (\A i \in 1..N : h[i] = f[i]) /\ b \in Seq(1..N)
  BY <1>0
<1>2. /\ g = [i \in 0..Len(b) |-> g[i]] /\ g[0] = NoCut
      /\ \A i \in 1..Len(b) : g[i] = CutOf(g[i - 1], b[i], f)
      /\ \A i \in 0..Len(b) : IsCut(g[i], N)
  BY <1>0 DEF FoldOf
<1>3. \A i \in 0..Len(b) : IsCut(g[i], N + 1)
  <2> TAKE i \in 0..Len(b)
  <2>1. 1..N \subseteq 1..(N + 1)
    BY <1>1
  <2>2. PICK ls : ls = g[i].open.lines
    OBVIOUS
  <2>3. ls \in Seq(1..(N + 1))
    <3>1. ls \in Seq(1..N)
      BY <1>2, <2>2 DEF IsCut
    <3> QED BY <2>1, <3>1, SeqMonotonic
  <2> QED BY <1>2, <2>2, <2>3 DEF IsCut
<1>4. ASSUME NEW i \in 1..Len(b)
      PROVE  g[i] = CutOf(g[i - 1], b[i], h)
  <2>1. i - 1 \in 0..Len(b)
    BY <1>1, LenProperties
  <2>2. b[i] \in 1..N
    <3> DEFINE S == 1..N
    <3>1. b \in Seq(S)
      BY <1>1
    <3>2. b[i] \in S
      <4> HIDE DEF S
      <4> QED BY <3>1
    <3> QED BY <3>2
  <2>3. IsCut(g[i - 1], N)
    BY <1>2, <2>1
  <2>4. CutOf(g[i - 1], b[i], h) = CutOf(g[i - 1], b[i], f)
    BY <1>1, <2>2, <2>3, CutOfSame
  <2> QED BY <1>2, <2>4
<1> QED BY <1>1, <1>2, <1>3, <1>4 DEF FoldOf

\* ... and takes one more line.
LEMMA FoldMore ==
  ASSUME NEW f, NEW h, Len(f) \in Nat, Len(h) = Len(f) + 1, \A i \in 1..Len(f) : h[i] = f[i],
         NEW b \in Seq(1..Len(f)), NEW g, FoldOf(g, b, f)
  PROVE  \E q : /\ FoldOf(q, Append(b, Len(f) + 1), h)
                /\ q[Len(Append(b, Len(f) + 1))] = CutOf(g[Len(b)], Len(f) + 1, h)
<1>0. PICK n, N : n = Len(b) /\ N = Len(f) + 1
  OBVIOUS
<1> DEFINE c == Append(b, N)
           last == CutOf(g[n], N, h)
           q == [i \in 0..(n + 1) |-> IF i = n + 1 THEN last ELSE g[i]]
<1>1. n \in Nat /\ N \in Nat /\ N \in 1..N
  BY <1>0, LenProperties
<1>2. Len(c) = n + 1 /\ (\A i \in 1..n : c[i] = b[i]) /\ c[n + 1] = N
  <2>1. b \in Seq(1..N)
    <3>1. 1..Len(f) \subseteq 1..N
      BY <1>0
    <3> QED BY <3>1, SeqMonotonic
  <2> QED BY <1>0, <1>1, <2>1, AppendProperties
<1>3. /\ g[0] = NoCut
      /\ \A i \in 1..n : g[i] = CutOf(g[i - 1], b[i], h)
      /\ \A i \in 0..n : IsCut(g[i], N)
  <2>1. FoldOf(g, b, h)
    BY FoldSame
  <2> QED BY <1>0, <2>1 DEF FoldOf
<1>4. IsCut(last, N)
  <2>1. IsCut(g[n], N)
    BY <1>1, <1>3
  <2> QED BY <1>1, <2>1, CutOfTyped
<1> HIDE DEF c, last
<1>5. /\ q[0] = g[0] /\ q[n + 1] = last /\ \A i \in 0..n : q[i] = g[i]
  BY <1>1
<1>6. q = [i \in 0..(n + 1) |-> q[i]]
  OBVIOUS
<1> HIDE DEF q
<1>7. \A i \in 1..(n + 1) : q[i] = CutOf(q[i - 1], c[i], h)
  <2> TAKE i \in 1..(n + 1)
  <2>1. CASE i \in 1..n
    <3>1. q[i] = g[i] /\ q[i - 1] = g[i - 1] /\ c[i] = b[i]
      BY <1>1, <1>2, <1>5, <2>1
    <3> QED BY <1>3, <2>1, <3>1
  <2>2. CASE i = n + 1
    <3>1. i - 1 = n /\ n \in 0..n
      BY <1>1, <2>2
    <3>2. q[i] = last /\ q[i - 1] = g[n] /\ c[i] = N
      BY <1>2, <1>5, <2>2, <3>1
    <3> QED BY <3>2 DEF last
  <2> QED BY <1>1, <2>1, <2>2
<1>8. \A i \in 0..(n + 1) : IsCut(q[i], N)
  <2>1. \A i \in 0..(n + 1) : i \in 0..n \/ i = n + 1
    BY <1>1
  <2> QED BY <1>3, <1>4, <1>5, <2>1
<1>9. FoldOf(q, c, h) /\ q[Len(c)] = last
  BY <1>0, <1>2, <1>3, <1>5, <1>6, <1>7, <1>8 DEF FoldOf
<1> QED BY <1>0, <1>9 DEF c, last

\* What extractContractFunctions finds is what the fold has at the end.
LEMMA FunctionsOfFold ==
  ASSUME Len(file) \in Nat, NEW b \in Seq(1..Len(file)), NEW g, FoldOf(g, b, file)
  PROVE  ContractFunctions(b) = g[Len(b)].done
<1> DEFINE n == Len(b)
           body(h, i) == IF i = 0 THEN NoCut
                         ELSE CHOOSE st \in {Cut(before, file[b[i]], b[i]) : before \in {h[i - 1]}} : TRUE
           Eq(h) == h = [i \in 0..n |-> body(h, i)]
           K == CHOOSE h : Eq(h)
<1>1. n \in Nat /\ \A i \in 1..n : b[i] \in 1..Len(file) /\ i - 1 \in 0..n /\ i \in 0..n /\ i # 0
  <2> DEFINE S == 1..Len(file)
  <2>1. n \in Nat
    BY LenProperties
  <2>2. \A i \in 1..n : b[i] \in S
    <3>1. b \in Seq(S)
      OBVIOUS
    <3> HIDE DEF S
    <3> QED BY <3>1
  <2> HIDE DEF n
  <2> QED BY <2>1, <2>2
<1>2. \A h, i : i # 0 => body(h, i) = Cut(h[i - 1], file[b[i]], b[i])
  OBVIOUS
<1>3. /\ g = [i \in 0..n |-> g[i]] /\ g[0] = NoCut
      /\ \A i \in 1..n : g[i] = CutOf(g[i - 1], b[i], file)
      /\ \A i \in 0..n : IsCut(g[i], Len(file))
  BY DEF FoldOf
<1>4. \A i \in 1..n : g[i] = Cut(g[i - 1], file[b[i]], b[i])
  <2> TAKE i \in 1..n
  <2>1. b[i] \in 1..Len(file) /\ IsCut(g[i - 1], Len(file))
    BY <1>1, <1>3
  <2>2. Cut(g[i - 1], file[b[i]], b[i]) = CutOf(g[i - 1], b[i], file)
    BY <2>1, CutPast
  <2> QED BY <1>3, <2>2
<1>5. ContractFunctions(b) = K[n].done
  BY DEF ContractFunctions
<1>6. Eq(g)
  <2>1. \A i \in 0..n : g[i] = body(g, i)
    <3> TAKE i \in 0..n
    <3>1. CASE i = 0
      BY <1>3, <3>1
    <3>2. CASE i # 0
      <4>1. i \in 1..n
        BY <1>1, <3>2
      <4>2. body(g, i) = Cut(g[i - 1], file[b[i]], b[i])
        BY <1>2, <3>2
      <4> HIDE DEF body
      <4> QED BY <1>4, <4>1, <4>2
    <3> QED BY <3>1, <3>2
  <2> HIDE DEF body
  <2> QED BY <1>3, <2>1
<1>7. Eq(K)
  <2> HIDE DEF Eq
  <2> QED BY <1>6
<1>8. K[0] = NoCut /\ \A i \in 1..n : K[i] = Cut(K[i - 1], file[b[i]], b[i])
  <2> HIDE DEF K
  <2>1. \A i \in 0..n : K[i] = body(K, i)
    <3> HIDE DEF body
    <3> QED BY <1>7
  <2>2. 0 \in 0..n /\ body(K, 0) = NoCut
    BY <1>1
  <2>3. \A i \in 1..n : i \in 0..n /\ body(K, i) = Cut(K[i - 1], file[b[i]], b[i])
    BY <1>1, <1>2
  <2> HIDE DEF body
  <2> QED BY <2>1, <2>2, <2>3
<1> HIDE DEF K, n
<1>9. K[n] = g[n]
  <2> DEFINE T == {i \in Nat : i <= n => g[i] = K[i]}
  <2>1. 0 \in T
    BY <1>3, <1>8
  <2>2. ASSUME NEW i \in Nat, i \in T PROVE i + 1 \in T
    <3> SUFFICES ASSUME i + 1 <= n PROVE g[i + 1] = K[i + 1]
      OBVIOUS
    <3>1. i + 1 \in 1..n /\ (i + 1) - 1 = i /\ g[i] = K[i]
      BY <1>1, <2>2
    <3>2. g[i + 1] = Cut(g[i], file[b[i + 1]], b[i + 1]) /\ K[i + 1] = Cut(K[i], file[b[i + 1]], b[i + 1])
      BY <1>4, <1>8, <3>1
    <3> QED BY <3>1, <3>2
  <2>3. Nat \subseteq T
    <3> HIDE DEF T
    <3> QED BY <2>1, <2>2, NaturalInduction
  <2> QED BY <1>1, <2>3
<1> QED BY <1>5, <1>9 DEF n

\* No line of block b is a function without a body.
Bare(b, f) == \A i \in 1..Len(b) : f[b[i]].kind # "declaration"

\* Cut one by one, the lines of b give the functions done, and leave block open.
Folded(b, f, done, inside, block, depth) ==
  Bare(b, f) => \E g : FoldOf(g, b, f) /\ CutIs(g[Len(b)], done, inside, block, depth)

\* extractContractFunctions finds the complete functions of each contract.
GatherData ==
  /\ scopes # <<>> =>
       \A k : k = Len(source) => Folded(Taken, file, DoneOf(k), InFunction, OpenBlock, Level - 1)
  /\ \A k \in 1..Len(blocks) : Folded(blocks[k], file, DoneOf(k), FALSE, NoBlock, 0)

\* Nothing is found in no lines.
LEMMA NoneFolded ==
  ASSUME NEW f, Len(f) \in Nat, NEW block, NEW depth
  PROVE  Folded(<<>>, f, {}, FALSE, block, depth)
<1> DEFINE g == [i \in 0..0 |-> NoCut]
<1>1. FoldOf(g, <<>>, f)
  BY FoldEmpty
<1>2. Len(<<>>) = 0 /\ g[0] = NoCut
  BY EmptySeq
<1>3. CutIs(NoCut, {}, FALSE, block, depth)
  <2>1. <<>> \in Seq({}) /\ Members(<<>>) = {}
    BY EmptySeq DEF Members
  <2> QED BY <2>1 DEF CutIs, NoCut
<1> HIDE DEF g
<1> QED BY <1>1, <1>2, <1>3 DEF Folded

\* What was found in earlier lines stays.
LEMMA FoldedStays ==
  ASSUME NEW f, NEW h, Len(f) \in Nat, Len(h) = Len(f) + 1, \A i \in 1..Len(f) : h[i] = f[i],
         NEW b \in Seq(1..Len(f)), NEW done, NEW inside, NEW block, NEW depth,
         Folded(b, f, done, inside, block, depth)
  PROVE  Folded(b, h, done, inside, block, depth)
<1>1. \A i \in 1..Len(b) : b[i] \in 1..Len(f)
  <2> DEFINE S == 1..Len(f)
  <2>1. b \in Seq(S)
    OBVIOUS
  <2>2. \A i \in 1..Len(b) : b[i] \in S
    <3> HIDE DEF S
    <3> QED BY <2>1
  <2> QED BY <2>2
<1>2. Bare(b, h) => Bare(b, f)
  BY <1>1 DEF Bare
<1>3. \A g : FoldOf(g, b, f) => FoldOf(g, b, h)
  BY FoldSame
<1> QED BY <1>2, <1>3 DEF Folded

\* The line that is read joins the lines of the contract it is in.
LEMMA FoldedStep ==
  ASSUME Grammar, NEW l, Reads(l), NEW b \in Seq(1..Len(file)), NEW D,
         Folded(b, file, D, InFunction, OpenBlock, Level - 1)
  PROVE  Folded(Append(b, Here), file', D \cup News(l), InFunction', OpenBlock', Level' - 1)
<1>1. PICK n, c, h : n = Len(file) /\ c = Append(b, n + 1) /\ h = file'
  OBVIOUS
<1>2. /\ n \in Nat /\ Here = n + 1 /\ Len(h) = n + 1 /\ h[n + 1] = l
      /\ \A i \in 1..n : h[i] = file[i]
  BY <1>1, FileIs DEF Grammar
<1>3. /\ Len(b) \in Nat /\ Len(c) = Len(b) + 1
      /\ \A i \in 1..Len(b) : c[i] = b[i] /\ b[i] \in 1..n
      /\ c[Len(b) + 1] = n + 1
  <2> DEFINE S == 1..(n + 1)
             T == 1..n
  <2>1. b \in Seq(T) /\ T \subseteq S /\ n + 1 \in S
    BY <1>1, <1>2
  <2> HIDE DEF S, T
  <2>2. b \in Seq(S) /\ \A i \in 1..Len(b) : b[i] \in T
    BY <2>1, SeqMonotonic
  <2>3. Len(b) \in Nat /\ Len(c) = Len(b) + 1 /\ (\A i \in 1..Len(b) : c[i] = b[i]) /\ c[Len(b) + 1] = n + 1
    BY <1>1, <2>1, <2>2, AppendProperties, LenProperties
  <2> QED BY <2>2, <2>3 DEF T
<1>4. SUFFICES ASSUME Bare(c, h)
               PROVE  \E q : FoldOf(q, c, h) /\ CutIs(q[Len(c)], D \cup News(l), InFunction', OpenBlock', Level' - 1)
  BY <1>1, <1>2 DEF Folded
<1>5. Bare(b, file) /\ l.kind # "declaration"
  <2>1. \A i \in 1..Len(b) : i \in 1..Len(c)
    BY <1>3
  <2>2. Len(b) + 1 \in 1..Len(c)
    BY <1>3
  <2> QED BY <1>2, <1>3, <1>4, <2>1, <2>2 DEF Bare
<1>6. PICK g : FoldOf(g, b, file) /\ CutIs(g[Len(b)], D, InFunction, OpenBlock, Level - 1)
  BY <1>5 DEF Folded
<1>7. PICK st : st = g[Len(b)]
  OBVIOUS
<1>8. CutIs(Cut(st, l, Here), D \cup News(l), InFunction', OpenBlock', Level' - 1)
  BY <1>5, <1>6, <1>7, CutStep
<1>9. PICK q : FoldOf(q, c, h) /\ q[Len(c)] = CutOf(st, n + 1, h)
  BY <1>1, <1>2, <1>6, <1>7, FoldMore
<1>10. Cut(st, l, Here) = CutOf(st, n + 1, h)
  <2>1. IsCut(st, Len(file))
    <3>1. Len(b) \in 0..Len(b)
      BY <1>3
    <3> QED BY <1>6, <1>7, <3>1 DEF FoldOf
  <2>2. Cut(st, h[Here], Here) = CutOf(st, Here, h)
    BY <1>1, <1>2, <2>1, CutHere
  <2> QED BY <1>2, <2>2
<1> QED BY <1>8, <1>9, <1>10

\* A line keeps the functions found in each contract's own lines its complete functions.
LEMMA GatherDataStep ==
  ASSUME Grammar, GatherInv, GatherData, NEW l, Reads(l), GatherContract(l)
  PROVE  GatherData'
<1>0. PICK n, m, h, c : n = Len(file) /\ m = Len(source) /\ h = file' /\ c = Append(Taken, n + 1)
  OBVIOUS
<1>1. /\ ~Taking(l) => scopes = <<>> /\ scopes' = <<>> /\ blocks' = blocks
      /\ Taking(l) /\ scopes' # <<>> => Taken' = Append(Taken, Here) /\ blocks' = blocks
      /\ Taking(l) /\ scopes' = <<>> => blocks' = Append(blocks, Append(Taken, Here))
  BY GatherMoves
<1>2. /\ n \in Nat /\ Here = n + 1 /\ Len(h) = n + 1 /\ m \in Nat
      /\ (scopes # <<>> => m # 0)
      /\ \A i \in 1..n : h[i] = file[i]
  BY <1>0, FileIs, LenProperties, EmptySeq DEF Grammar, Typed
<1>3. /\ Taken \in Seq(1..n) /\ blocks \in Seq(Seq(1..n)) /\ Len(blocks) = (IF scopes = <<>> THEN m ELSE m - 1)
      /\ (scopes = <<>> => Taken = <<>>)
  <2>1. scopes = <<>> => ~InHeader
    BY EmptySeq DEF InHeader
  <2> QED BY <1>0, <2>1 DEF GatherInv, Taken
<1>4. /\ \A k \in 1..m : DoneOf(k)' = DoneOf(k) \cup (IF k = m THEN News(l) ELSE {})
      /\ scopes = <<>> => News(l) = {}
      /\ IF scopes = <<>> /\ l.kind \in ContractLines
         THEN Len(source') = m + 1 /\ \A k : k = m + 1 => DoneOf(k)' = {}
         ELSE Len(source') = m
  BY <1>0, DoneStep
<1>5. \A k \in 1..Len(blocks) : Folded(blocks[k], h, DoneOf(k)', FALSE, NoBlock, 0)
  <2> TAKE k \in 1..Len(blocks)
  <2>1. PICK D, b : D = DoneOf(k) /\ b = blocks[k]
    OBVIOUS
  <2>2. k \in 1..m /\ (k = m => scopes = <<>>)
    <3>1. PICK j : j = Len(blocks)
      OBVIOUS
    <3>2. k \in 1..j /\ ((j = m /\ scopes = <<>>) \/ j = m - 1) /\ m \in Nat
      BY <1>2, <1>3, <3>1
    <3> QED BY <3>2
  <2>3. DoneOf(k)' = D
    BY <1>4, <2>1, <2>2
  <2>4. b \in Seq(1..n)
    <3> DEFINE S == Seq(1..n)
    <3>1. blocks \in Seq(S)
      BY <1>3
    <3> HIDE DEF S
    <3>2. b \in S
      BY <2>1, <3>1
    <3> QED BY <3>2 DEF S
  <2>5. Folded(b, file, D, FALSE, NoBlock, 0)
    BY <2>1 DEF GatherData
  <2>6. Folded(b, h, D, FALSE, NoBlock, 0)
    BY <1>0, <1>2, <2>4, <2>5, FoldedStays
  <2> QED BY <2>1, <2>3, <2>6
<1>6. ASSUME Taking(l), NEW k, k = Len(source')
      PROVE  Folded(c, h, DoneOf(k)', InFunction', OpenBlock', Level' - 1)
  <2>1. CASE scopes = <<>>
    <3>1. ~InFunction
      BY <2>1, EmptySeq DEF InFunction, Second, NoName
    <3>2. Folded(<<>>, file, {}, FALSE, OpenBlock, Level - 1)
      BY <1>0, <1>2, NoneFolded
    <3>3. Folded(Taken, file, {}, InFunction, OpenBlock, Level - 1)
      BY <1>3, <2>1, <3>1, <3>2 DEF Folded, CutIs
    <3>4. Folded(c, h, {} \cup News(l), InFunction', OpenBlock', Level' - 1)
      BY <1>0, <1>2, <1>3, <3>3, FoldedStep
    <3>5. DoneOf(k)' = {} /\ News(l) = {}
      BY <1>4, <1>6, <2>1 DEF Taking
    <3> QED BY <3>4, <3>5
  <2>2. CASE scopes # <<>>
    <3>1. k = m /\ m \in 1..m
      BY <1>2, <1>4, <1>6, <2>2
    <3>2. PICK D : D = DoneOf(k)
      OBVIOUS
    <3>3. Folded(Taken, file, D, InFunction, OpenBlock, Level - 1)
      BY <1>0, <2>2, <3>1, <3>2 DEF GatherData
    <3>4. Folded(c, h, D \cup News(l), InFunction', OpenBlock', Level' - 1)
      BY <1>0, <1>2, <1>3, <3>3, FoldedStep
    <3>5. DoneOf(k)' = D \cup News(l)
      BY <1>4, <3>1, <3>2
    <3> QED BY <3>4, <3>5
  <2> QED BY <2>1, <2>2
<1>7. CASE ~Taking(l)
  BY <1>0, <1>1, <1>5, <1>7 DEF GatherData
<1>8. CASE Taking(l) /\ scopes' # <<>>
  <2>1. Taken' = c /\ blocks' = blocks
    BY <1>0, <1>1, <1>2, <1>8
  <2> QED BY <1>0, <1>5, <1>6, <1>8, <2>1 DEF GatherData
<1>9. CASE Taking(l) /\ scopes' = <<>>
  <2>1. PICK j : j = Len(blocks)
    OBVIOUS
  <2>2. blocks' = Append(blocks, c)
    BY <1>0, <1>1, <1>2, <1>9
  <2>3. j \in Nat /\ Len(blocks') = j + 1 /\ blocks'[j + 1] = c /\ \A k \in 1..j : blocks'[k] = blocks[k]
    <3> DEFINE S == Seq(1..n)
    <3>1. blocks \in Seq(S \cup {c})
      <4>1. blocks \in Seq(S)
        BY <1>3
      <4> HIDE DEF S
      <4> QED BY <4>1, SeqMonotonic
    <3> HIDE DEF S
    <3> QED BY <2>1, <2>2, <3>1, AppendProperties, LenProperties
  <2>4. j + 1 = Len(source')
    <3>1. j = IF scopes = <<>> THEN m ELSE m - 1
      BY <1>3, <2>1
    <3> QED BY <1>2, <1>4, <1>9, <3>1 DEF Taking
  <2>5. Folded(c, h, DoneOf(j + 1)', FALSE, NoBlock, 0)
    <3>1. Folded(c, h, DoneOf(j + 1)', InFunction', OpenBlock', Level' - 1)
      BY <1>6, <1>9, <2>4
    <3>2. ~InFunction'
      BY <1>9, EmptySeq DEF InFunction, Second, NoName
    <3> QED BY <3>1, <3>2 DEF Folded, CutIs
  <2>6. \A k \in 1..(j + 1) : Folded(blocks'[k], h, DoneOf(k)', FALSE, NoBlock, 0)
    <3> TAKE k \in 1..(j + 1)
    <3>1. k \in 1..j \/ k = j + 1
      BY <2>3
    <3> QED BY <1>5, <2>1, <2>3, <2>5, <3>1
  <2> QED BY <1>0, <1>9, <2>3, <2>6 DEF GatherData
<1> QED BY <1>7, <1>8, <1>9

-----------------------------------------------------------------------------
(* All of them *)

\* What every line preserves
ReadingInv == Grammar /\ CountInv /\ ParserInv /\ CutInv /\ PartInv /\ GatherInv /\ GatherData

\* The readers start in a state of the invariant.
LEMMA ReadingInit == ParseInit => ReadingInv
<1> SUFFICES ASSUME ParseInit PROVE ReadingInv
  OBVIOUS
<1>1. Grammar
  BY GrammarInit
<1>2. /\ Len(scopes) = 0 /\ Len(file) = 0 /\ Len(source) = 0 /\ Len(contracts) = 0 /\ Len(blocks) = 0
      /\ 1..0 = {}
  BY EmptySeq DEF ParseInit
<1>3. ~InHeader /\ Second = NoName /\ ~InUnit /\ ~InFunction /\ Level = 0
  BY <1>2 DEF InHeader, Second, InUnit, InFunction, Level, NoName
<1>4. CountInv
  BY EmptySeq DEF CountInv, ParseInit
<1>5. ParserInv
  BY <1>2, <1>3 DEF ParserInv, ParseInit
<1>6. CutIs([open |-> NoBlock, depth |-> 0, done |-> <<>>], DoneAll, InFunction, OpenBlock, Level - 1)
  <2>1. DoneAll = {}
    BY <1>2 DEF DoneAll
  <2>2. <<>> \in Seq({}) /\ Members(<<>>) = {}
    BY EmptySeq DEF Members
  <2> QED BY <1>3, <2>1, <2>2 DEF CutIs
<1>7. CutInv /\ PartInv
  BY <1>3, <1>6 DEF CutInv, PartInv, ParseInit, NoName
<1>8. GatherInv
  <2>1. /\ header = <<>> /\ gathered = <<>> /\ gatheredDepth = 0 /\ blocks = <<>> /\ scopes = <<>>
    BY DEF ParseInit
  <2>2. Taken = <<>>
    BY <2>1 DEF Taken
  <2>3. <<>> \in Seq(1..Len(file)) /\ <<>> \in Seq(Seq(1..Len(file)))
    BY EmptySeq
  <2> QED BY <1>2, <1>3, <2>1, <2>2, <2>3 DEF GatherInv
<1>9. GatherData
  <2>1. scopes = <<>>
    BY DEF ParseInit
  <2> QED BY <1>2, <2>1 DEF GatherData
<1> QED BY <1>1, <1>4, <1>5, <1>7, <1>8, <1>9 DEF ReadingInv

\* A line keeps all of them right.
LEMMA ReadingStep == ReadingInv /\ ReadLine => ReadingInv'
<1> SUFFICES ASSUME ReadingInv, ReadLine PROVE ReadingInv'
  OBVIOUS
<1>1. Grammar /\ CountInv /\ ParserInv /\ CutInv /\ PartInv /\ GatherInv /\ GatherData
  BY DEF ReadingInv
<1>2. PICK l \in LineChoices(style) :
        /\ Fits(l) /\ file' = Append(file, l) /\ UNCHANGED style
        /\ Follow(l) /\ Parse(l) /\ CutLine(l) /\ CutPart(l) /\ GatherContract(l)
  BY DEF ReadLine
<1>3. Reads(l)
  BY <1>2 DEF Reads
<1>4. Grammar' /\ CountInv' /\ ParserInv'
  BY <1>1, <1>2, <1>3, GrammarStep, CountStep, ParserStep
<1>5. CutInv' /\ PartInv'
  BY <1>1, <1>2, <1>3, CutsStep, PartsStep
<1>6. GatherInv' /\ GatherData'
  BY <1>1, <1>2, <1>3, GatherStep, GatherDataStep
<1> QED BY <1>4, <1>5, <1>6 DEF ReadingInv

\* So does a scan, which reads none.
LEMMA ReadingKept == ReadingInv /\ UNCHANGED parseVars => ReadingInv'
<1> SUFFICES ASSUME ReadingInv, UNCHANGED parseVars PROVE ReadingInv'
  OBVIOUS
<1>1. /\ UNCHANGED <<style, file, scopes, source>>
      /\ UNCHANGED <<contracts, imports, current, contractDepth, unit, unitDepth>>
      /\ UNCHANGED <<cut, cutDepth, functions, part, partDepth, parts>>
      /\ UNCHANGED <<header, gathered, gatheredDepth, blocks>>
  BY DEF parseVars, grammarVars, parserVars, cutVars, partVars, gatherVars
<1>2. Grammar /\ CountInv /\ ParserInv /\ CutInv /\ PartInv /\ GatherInv /\ GatherData
  BY DEF ReadingInv
<1>3. InHeader' = InHeader /\ Second' = Second /\ InUnit' = InUnit /\ InFunction' = InFunction /\ Level' = Level
      /\ Taken' = Taken
  BY <1>1 DEF InHeader, Second, InUnit, InFunction, Level, Taken
<1>4. LastContract' = LastContract /\ OpenItem' = OpenItem /\ OpenBlock' = OpenBlock
      /\ Items' = Items /\ Contracts' = Contracts
  BY <1>1 DEF LastContract, OpenItem, LastItem, OpenBlock, Items, Names, Contracts
<1>5. \A k : DoneOf(k)' = DoneOf(k)
  BY <1>1, <1>3 DEF DoneOf
<1>6. DoneAll' = DoneAll
  BY <1>1, <1>5 DEF DoneAll
<1>7. /\ Has({"declaration"})' = Has({"declaration"}) /\ Has(Odd)' = Has(Odd)
      /\ Has({"declaration", "oneLiner", "attributes"})' = Has({"declaration", "oneLiner", "attributes"})
      /\ AfterSignature' = AfterSignature
  BY <1>1 DEF Has, AfterSignature, Odd
<1>8. Grammar'
  BY <1>1, <1>2, <1>3, <1>4 DEF Grammar, Typed, Shape, OpenInv
<1>9. CountInv'
  BY <1>1, <1>2, <1>3, <1>4 DEF CountInv, NoUnit
<1>10. ParserInv'
  BY <1>1, <1>2, <1>3, <1>4, <1>7 DEF ParserInv, NoUnit, Finished
<1>11. CutInv'
  BY <1>1, <1>2, <1>3, <1>4, <1>6, <1>7 DEF CutInv
<1>12. PartInv'
  BY <1>1, <1>2, <1>3, <1>4, <1>6, <1>7 DEF PartInv
<1>13. GatherInv'
  BY <1>1, <1>2, <1>3, <1>4 DEF GatherInv
<1>14. GatherData'
  BY <1>1, <1>2, <1>3, <1>4, <1>5 DEF GatherData
<1> QED BY <1>8, <1>9, <1>10, <1>11, <1>12, <1>13, <1>14 DEF ReadingInv

\* Of a finished contract every function is complete.
LEMMA DoneIs ==
  ASSUME NEW k, ~InUnit
  PROVE  DoneOf(k) = {Whole(f) : f \in Functions(<<source[k]>>)}
<1> DEFINE c == source[k]
           J == {i \in 1..Len(c.items) : c.items[i].kind = "function"}
<1>1. DoneOf(k) = {Whole(c.items[j]) : j \in J}
  BY DEF DoneOf, Complete
<1>2. Functions(<<c>>) = {c.items[i] : i \in J}
  <2>1. Len(<<c>>) = 1 /\ <<c>>[1] = c /\ 1..1 = {1}
    OBVIOUS
  <2> QED BY <2>1 DEF Functions
<1> HIDE DEF J
<1> QED BY <1>1, <1>2

\* Between contracts every function of the file is complete.
LEMMA DoneAllIs ==
  ASSUME ~InUnit
  PROVE  DoneAll = {Whole(f) : f \in Functions(source)}
<1> DEFINE J(k) == {i \in 1..Len(source[k].items) : source[k].items[i].kind = "function"}
<1>1. \A k : DoneOf(k) = {Whole(source[k].items[j]) : j \in J(k)}
  BY DEF DoneOf, Complete
<1>2. Functions(source) = UNION {{source[k].items[i] : i \in J(k)} : k \in 1..Len(source)}
  BY DEF Functions
<1>3. DoneAll = UNION {DoneOf(k) : k \in 1..Len(source)}
  BY DEF DoneAll
<1> HIDE DEF J
<1> QED BY <1>1, <1>2, <1>3

\* The invariant gives the count and, between contracts, what the readers agree on.
LEMMA ReadingInvSays == ReadingInv => ReadingIsRight
<1> SUFFICES ASSUME ReadingInv PROVE ReadingIsRight
  OBVIOUS
<1>1. Grammar /\ CountInv /\ ParserInv /\ CutInv /\ PartInv /\ GatherInv /\ GatherData
  BY DEF ReadingInv
<1>2. DepthIsTrue
  <2>1. Braces = Level
    BY <1>1, BracesAre DEF Grammar
  <2> QED BY <1>1, <2>1 DEF CountInv, DepthIsTrue
<1>3. ASSUME scopes = <<>>
      PROVE  ~InHeader /\ ~InUnit /\ ~InFunction
  BY <1>3, EmptySeq DEF InHeader, InUnit, InFunction, Second, NoName
<1>4. ASSUME scopes = <<>>,
             ~Has({"declaration", "attributes", "emptyContract", "bareContract", "bareModifier"})
      PROVE  contracts = source /\ imports = {i \in 1..Len(file) : file[i].kind = "import"} /\ ~current
  <2>1. ~Has(Odd)
    BY <1>4 DEF Odd
  <2> QED BY <1>1, <1>3, <1>4, <2>1 DEF ParserInv
<1>5. ASSUME scopes = <<>>, ~Has({"declaration"})
      PROVE  Members(functions) = {Whole(f) : f \in Functions(source)}
  <2>1. CutIs([open |-> cut, depth |-> cutDepth, done |-> functions], DoneAll, InFunction, OpenBlock, Level - 1)
    BY <1>1, <1>5 DEF CutInv
  <2>2. Members(functions) = DoneAll
    BY <2>1 DEF CutIs
  <2> QED BY <1>3, <1>5, <2>2, DoneAllIs
<1>6. ASSUME scopes = <<>>, ~Has({"declaration", "oneLiner", "attributes"}), ~AfterSignature
      PROVE  Members(parts) = {Whole(f) : f \in Functions(source)}
  <2>1. CutIs([open |-> part, depth |-> partDepth, done |-> parts], DoneAll, InFunction, OpenBlock, Level - 1)
    BY <1>1, <1>6 DEF PartInv
  <2>2. Members(parts) = DoneAll
    BY <2>1 DEF CutIs
  <2> QED BY <1>3, <1>6, <2>2, DoneAllIs
<1>7. ASSUME scopes = <<>>, NEW k \in 1..Len(source)
      PROVE  Len(blocks) = Len(source) /\ k \in 1..Len(blocks) /\ blocks[k][1] = source[k].line
  BY <1>1, <1>7 DEF GatherInv
<1>8. ASSUME scopes = <<>>, NEW k \in 1..Len(source),
             \A i \in 1..Len(blocks[k]) : file[blocks[k][i]].kind # "declaration"
      PROVE  Members(ContractFunctions(blocks[k])) = {Whole(f) : f \in Functions(<<source[k]>>)}
  <2>1. PICK b : b = blocks[k]
    OBVIOUS
  <2>2. b \in Seq(1..Len(file)) /\ Len(file) \in Nat
    <3> DEFINE S == Seq(1..Len(file))
    <3>1. blocks \in Seq(S) /\ k \in 1..Len(blocks)
      BY <1>1, <1>7, <1>8 DEF GatherInv
    <3>2. b \in S
      <4> HIDE DEF S
      <4> QED BY <2>1, <3>1
    <3>3. Len(file) \in Nat
      BY <1>1, LenProperties DEF Grammar, Typed
    <3> QED BY <3>2, <3>3
  <2>3. Bare(b, file)
    BY <1>8, <2>1 DEF Bare
  <2>4. Folded(b, file, DoneOf(k), FALSE, NoBlock, 0)
    BY <1>1, <1>7, <1>8, <2>1 DEF GatherData
  <2>5. PICK g : FoldOf(g, b, file) /\ CutIs(g[Len(b)], DoneOf(k), FALSE, NoBlock, 0)
    BY <2>3, <2>4 DEF Folded
  <2>6. ContractFunctions(b) = g[Len(b)].done
    BY <2>2, <2>5, FunctionsOfFold
  <2>7. Members(g[Len(b)].done) = DoneOf(k)
    BY <2>5 DEF CutIs
  <2> QED BY <1>3, <1>8, <2>1, <2>6, <2>7, DoneIs
<1>9. scopes = <<>> => Len(blocks) = Len(source)
  BY <1>1 DEF GatherInv
<1>10. ReadersAgree
  BY <1>4, <1>5, <1>6, <1>7, <1>8, <1>9 DEF ReadersAgree
<1> QED BY <1>2, <1>10 DEF ReadingIsRight

\* For every style of files, of any length and with any heads and names: the parser
\* of the inheritance graph never loses count of the braces, and between contracts
\* the parser, extractFunctions, extractFunctionBlocks and extractContracts with
\* extractContractFunctions see exactly the contracts and functions that are there,
\* but for the layouts ReadersAgree names.
THEOREM ReadersReadRight == DetectorsSpec => []ReadingIsRight
<1>1. DetectorsInit => ReadingInv
  BY ReadingInit DEF DetectorsInit
<1>2. ReadingInv /\ [DetectorsNext]_detectorVars => ReadingInv'
  <2>1. [DetectorsNext]_detectorVars => ReadLine \/ UNCHANGED parseVars
    BY DEF DetectorsNext, WriteLine, Scan, detectorVars
  <2> QED BY <2>1, ReadingStep, ReadingKept
<1> QED BY <1>1, <1>2, ReadingInvSays, PTL DEF DetectorsSpec
=============================================================================
