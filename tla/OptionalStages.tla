--------------------------- MODULE OptionalStages ---------------------------
(***************************************************************************)
(* The scan command with --onchain and --formal (cmd/solsec/main.go): the  *)
(* project is scanned, then the addresses (OnChainScan), and the findings  *)
(* of both go to the formal verification bridge (FormalVerification),      *)
(* whose findings join the report.  What rule overrides, exclusions and    *)
(* suppression take away in between is the business of other modules.      *)
(*                                                                         *)
(* A scan may be killed at any time.  What it leaves in the project's      *)
(* directory is then there for the next scan: a test file of Echidna's     *)
(* ends in .sol and holds the whole contract it was made for.              *)
(***************************************************************************)
EXTENDS OnChainScan, FormalVerification

CONSTANTS
  Projects,     \* what a scan finds in the project: sequences of findings
  AddressLists, \* the --address lists; <<>> stands for no --onchain
  MaxScans, MaxKills

ASSUME DetectorsAssumption == Kinds \subseteq Detectors
ASSUME AddressesAssumption == AddressLists \subseteq Seq(Address)
\* The findings in the project's own files are about these files.
ASSUME ProjectsAssumption ==
  Projects \subseteq {p \in Seq(Findings) : \A i \in DOMAIN p : p[i].file \in Files /\ p[i].file.copy = 0}

VARIABLES
  project,   \* the findings in the project's own files
  stage,     \* how far the scan has come
  found,     \* the results so far
  report,    \* what the reporters are given
  left,      \* for each kill, the contract whose test file stayed, or NoFile
  scans

stageVars == <<project, stage, found, report, left, scans>>
vars == <<chainVars, formalVars, stageVars>>

Original(f) == [of |-> f.of, copy |-> 0]

Init ==
  /\ project \in Projects
  /\ \E world \in Worlds : ChainIdle(<<>>, world)
  /\ FormalIdle /\ stage = "idle" /\ found = <<>> /\ report = <<>>
  /\ left = <<>> /\ scans = 0

\* The files a tool can read: the project's and those left behind.
OnDisk == {project[i].file : i \in DOMAIN project}
            \cup {[of |-> left[k].of, copy |-> k] :
                    k \in {j \in DOMAIN left : left[j] # NoFile}}

\* A scan of the directory: a file left behind has the findings of the
\* contract it was made for.
CopyOf(k) ==
  LET of == Kept(project, {f \in Range(project) : left[k] # NoFile /\ f.file.of = left[k].of})
  IN [i \in DOMAIN of |-> [of[i] EXCEPT !.file = [of |-> @.of, copy |-> k]]]
ScanProject == project \o Joined([k \in DOMAIN left |-> CopyOf(k)])

Begin ==
  /\ stage = "idle" /\ scans < MaxScans /\ scans' = scans + 1
  /\ \E list \in AddressLists : ChainReset(list)
  /\ found' = ScanProject
  /\ report' = <<>> /\ stage' = "onchain"
  /\ UNCHANGED <<formalVars, project, left>>

OnChainStage ==
  /\ stage = "onchain" /\ OnChainNext
  /\ UNCHANGED <<formalVars, stageVars>>

\* The ticker runs from the client's creation on; its ticks after the last
\* address change nothing that is used again, and are left out.
Ticking == stage = "onchain" /\ ~OnChainDone /\ Tick /\ UNCHANGED <<formalVars, stageVars>>

\* The on-chain results are appended; their client and its counters are
\* not used again.  collectFindings flattens the results for --formal.
AsFinding(f) == [file |-> NoFile, detector |-> f.kind, severity |-> f.severity,
                 function |-> NoName]
Collected == found \o [i \in DOMAIN OnChainFindings |-> AsFinding(OnChainFindings[i])]
ToFormal ==
  /\ stage = "onchain" /\ OnChainDone
  /\ stage' = "formal" /\ ChainReset(<<>>)
  /\ \E now \in {Collected} :
       /\ found' = now
       /\ (\E o \in OptionSet : StartFormal(o, now)) \/ UNCHANGED formalVars
  /\ UNCHANGED <<project, report, left, scans>>

FormalStage ==
  /\ stage = "formal" /\ FormalNext(OnDisk)
  /\ UNCHANGED <<chainVars, stageVars>>

\* formalResultToAnalysisResults, and the report.
Verified(r) == [r.target EXCEPT !.detector = r.tool, !.severity = Critical]
ScriptNote == [file |-> NoFile, detector |-> "formal", severity |-> Info, function |-> NoName]
FormalFindings == [i \in DOMAIN confirmed |-> Verified(confirmed[i])]
                    \o (IF scripts = <<>> THEN <<>> ELSE <<ScriptNote>>)
Finish ==
  /\ stage = "formal" /\ phase \in {"idle", "done"}
  /\ report' = found \o FormalFindings
  /\ stage' = "idle" /\ found' = <<>> /\ FormalReset
  /\ UNCHANGED <<chainVars, project, left, scans>>

\* The process is gone; a test file it had written stays.
Kill ==
  /\ stage # "idle" /\ Len(left) < MaxKills
  /\ left' = Append(left, IF testFile = NoFile THEN NoFile ELSE Original(testFile))
  /\ stage' = "idle" /\ report' = <<>>
  /\ ChainReset(<<>>) /\ FormalReset /\ found' = <<>>
  /\ UNCHANGED <<project, scans>>

Next == Begin \/ OnChainStage \/ Ticking \/ ToFormal \/ FormalStage \/ Finish \/ Kill

Spec == Init /\ [][Next]_vars
          /\ WF_vars(OnChainStage) /\ WF_vars(Ticking) /\ WF_vars(ToFormal)
          /\ WF_vars(FormalStage) /\ WF_vars(Finish)

(***************************************************************************)
(* Properties.                                                             *)
(***************************************************************************)
\* A scan that is not killed reports: the loop over the addresses waits for
\* tokens, which the ticker keeps bringing, and no reply and no tool is
\* waited for without a timeout (etherscan.go:32-36 and 342, runner.go:182).
ScanEnds == stage # "idle" ~> stage = "idle"

\* The scan leaves the project's directory as it was: between two scans, and
\* while no tool or script needs it, no test file is there, but for those of
\* killed scans, at most one each (echidna.go:93-137, pipeline.go:120-142).
DirectoryClean ==
  /\ phase \notin {"tool", "echidna scripts"} => testFile = NoFile
  /\ \A k \in DOMAIN found : found[k].file # NoFile /\ found[k].file.copy # 0 =>
       left[found[k].file.copy] = Original(found[k].file)
=============================================================================
