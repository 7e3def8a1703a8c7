---------------------------- MODULE Suppression ----------------------------
(***************************************************************************)
(* Which findings a scan hides: the inline directives of a source file     *)
(* (Parse and IsSuppressed of internal/suppression/inline.go), the ignore  *)
(* entries of .solsec.yml (config.go), and the order in which the scan     *)
(* command brings them together (internal/suppression/engine.go and        *)
(* cmd/solsec/main.go): the file is analysed first and read again, for its *)
(* directives, later.                                                      *)
(*                                                                         *)
(* One file is enough: the engine keeps the directives per file.  A line   *)
(* is what the directive patterns make of it: the kind of directive and    *)
(* the list of words after it.  Around the scans, the file is written and  *)
(* the clock moves: each uses up one of MaxEvents.                         *)
(***************************************************************************)
EXTENDS Naturals, Sequences, FiniteSets, SequencesExt

CONSTANTS
  Rules,      \* rule ids
  Functions,  \* names of Solidity functions
  Sources,    \* the contents the file may have at first
  Revisions,  \* the contents a write may give it
  Ignores,    \* the ignore list of .solsec.yml
  Star,       \* the id "*", and the words the code turns into it: "all"
  Blank,      \* the empty word next to a comma
  Unread,     \* no directives: the file has not been read, or could not be
  Never,      \* no expiry, or one that is not a date
  Unnamed,    \* no function
  MaxLine, MaxScans, MaxEvents

Ids   == Rules \cup {Star}
Words == Ids \cup {Blank}
Lines == [kind : {"code", "next", "disable", "enable", "long"}, words : Seq(Words)]
Entries == [rule : Ids, function : Functions \cup {Unnamed},
            expiry : Nat \cup {Never}]

ASSUME SourcesAssumption ==
  /\ Sources \cup Revisions \subseteq Seq(Lines)
  /\ \A s \in Sources \cup Revisions : Len(s) <= MaxLine
  /\ Unread \notin Sources \cup Revisions
ASSUME IdsAssumption == Star \notin Rules /\ Blank \notin Ids
ASSUME IgnoresAssumption == Ignores \subseteq Entries /\ Never \notin Nat
ASSUME BoundsAssumption == MaxLine \in Nat /\ MaxScans \in Nat /\ MaxEvents \in Nat

VARIABLES
  disk,      \* the file
  now,       \* the clock
  events,
  pc,        \* how far the scan has come
  scans,     \* scans started before this one
  analysed,  \* the content its findings are about
  source,    \* the content RegisterFile was given
  lineNum,
  open,      \* openBlocks: the line of a block's start, or 0
  nextLine,  \* FileSuppressions.NextLine
  ranges,    \* FileSuppressions.DisabledRanges
  started,   \* ConfigSuppression.now
  warned,    \* the ignore entries warned about as expired
  kept,      \* the findings FilterResults lets through
  before     \* the previous scan's source and kept findings

parser == <<lineNum, open, nextLine, ranges>>
world  == <<disk, now, events>>
suppressionVars == <<world, pc, scans, analysed, source, parser, started, warned, kept, before>>

Contents == Sources \cup Revisions
Findings == [rule : Rules, line : 1..MaxLine, function : Functions \cup {Unnamed}]
FindingsOf(s) == {f \in Findings : f.line <= Len(s)}

\* A range ends at a line, or (End = -1 in the code) with the file: 0 here.
Ranges == [id : Ids, start : 1..MaxLine, end : 0..MaxLine]
NextLines == [line : 2..(MaxLine + 1), id : Ids]
NoBlocks == [i \in Ids |-> 0]

TablesOK ==
  /\ disk \in Contents
  /\ now \in Nat /\ events \in 0..MaxEvents
  /\ pc \in {"analyze", "engine", "read", "parse", "filter", "done"}
  /\ scans \in 0..MaxScans
  /\ analysed \in Contents
  /\ source \in Contents \cup {Unread}
  /\ lineNum \in 0..MaxLine
  /\ open \in [Ids -> 0..MaxLine]
  /\ nextLine \subseteq NextLines
  /\ ranges \subseteq Ranges
  /\ started \in Nat
  /\ warned \subseteq Ignores
  /\ kept \subseteq Findings
  /\ before.kept \subseteq Findings /\ before.source \in Contents \cup {Unread}

SuppressionInit ==
  /\ disk \in Sources
  /\ now = 0 /\ events = 0
  /\ pc = "analyze" /\ scans = 0
  /\ analysed = disk
  /\ source = Unread
  /\ lineNum = 0 /\ open = NoBlocks /\ nextLine = {} /\ ranges = {}
  /\ started = 0 /\ warned = {}
  /\ kept = {} /\ before = [source |-> Unread, kept |-> {}]

-----------------------------------------------------------------------------
(* What a line says *)

\* parseRuleIDs.
RuleIDs(ws) ==
  IF ws = <<>> \/ Star \in ToSet(ws) THEN {Star} ELSE ToSet(ws) \ {Blank}

\* A list of nothing but commas means every rule, in blocks only.
BlockIDs(ws) == IF RuleIDs(ws) = {} THEN {Star} ELSE RuleIDs(ws)

\* nextLinePattern needs a list.  Without one the line matches disablePattern,
\* and "-next-line" is taken for a rule id: that of no rule.
SaysNext(s, n)    == s[n].kind = "next" /\ s[n].words # <<>>
SaysDisable(s, n) == s[n].kind = "disable"
SaysEnable(s, n)  == s[n].kind = "enable"

NextNames(s, n, id) == SaysNext(s, n) /\ id \in RuleIDs(s[n].words)
Opens(s, n, id)     == SaysDisable(s, n) /\ id \in BlockIDs(s[n].words)
Closes(s, n, id)    == SaysEnable(s, n) /\ id \in BlockIDs(s[n].words)

-----------------------------------------------------------------------------
(* The scan *)

Analyze ==
  /\ pc = "analyze"
  /\ analysed' = disk
  /\ pc' = "engine"
  /\ UNCHANGED <<world, scans, source, parser, started, warned, kept, before>>

\* A slip: the comparison the wrong way round.
StartsToApply(e, t) == e.expiry # Never /\ e.expiry >= t

HasExpired(e, t) == e.expiry # Never /\ e.expiry < t

NewEngine ==
  /\ pc = "engine"
  /\ started' = now
  /\ warned' = {e \in Ignores : HasExpired(e, now)}
  /\ pc' = "read"
  /\ UNCHANGED <<world, scans, analysed, source, parser, kept, before>>

\* registerSuppressionSources: a file that cannot be read registers nothing.
ReadSource ==
  /\ pc = "read"
  /\ lineNum' = 0 /\ open' = NoBlocks /\ nextLine' = {} /\ ranges' = {}
  /\ \/ source' = disk /\ pc' = "parse"
     \/ source' = Unread /\ pc' = "filter"
  /\ UNCHANGED <<world, scans, analysed, started, warned, kept, before>>

\* bufio.Scanner gives up at a line longer than its buffer, without a word.
HasLine ==
  /\ pc = "parse"
  /\ lineNum < Len(source)
  /\ source[lineNum + 1].kind # "long"

NextLineDirective ==
  LET n == lineNum + 1 IN
  /\ HasLine
  /\ SaysNext(source, n)
  /\ lineNum' = n
  /\ nextLine' = nextLine \cup {[line |-> n + 1, id |-> i] : i \in RuleIDs(source[n].words)}
  /\ UNCHANGED <<world, pc, scans, analysed, source, open, ranges, started, warned,
                 kept, before>>

\* A slip: a block that is open keeps its start.
OpenedOnce(n) ==
  [i \in Ids |-> IF i \in BlockIDs(source[n].words) /\ open[i] = 0 THEN n ELSE open[i]]

Opened(n) ==
  [i \in Ids |-> IF i \in BlockIDs(source[n].words) THEN n ELSE open[i]]

DisableDirective ==
  LET n == lineNum + 1 IN
  /\ HasLine
  /\ SaysDisable(source, n)
  /\ lineNum' = n
  /\ open' = Opened(n)
  /\ UNCHANGED <<world, pc, scans, analysed, source, nextLine, ranges, started,
                 warned, kept, before>>

Ended(n) == {i \in BlockIDs(source[n].words) : open[i] # 0}

EnableDirective ==
  LET n == lineNum + 1 IN
  /\ HasLine
  /\ SaysEnable(source, n)
  /\ lineNum' = n
  /\ ranges' = ranges \cup {[id |-> i, start |-> open[i], end |-> n] : i \in Ended(n)}
  /\ open' = [i \in Ids |-> IF i \in Ended(n) THEN 0 ELSE open[i]]
  /\ UNCHANGED <<world, pc, scans, analysed, source, nextLine, started, warned,
                 kept, before>>

OtherLine ==
  LET n == lineNum + 1 IN
  /\ HasLine
  /\ ~SaysNext(source, n) /\ ~SaysDisable(source, n) /\ ~SaysEnable(source, n)
  /\ lineNum' = n
  /\ UNCHANGED <<world, pc, scans, analysed, source, open, nextLine, ranges,
                 started, warned, kept, before>>

\* Blocks still open run to the end of the file.
EndOfSource ==
  /\ pc = "parse" /\ ~HasLine
  /\ ranges' = ranges \cup
       {[id |-> i, start |-> open[i], end |-> 0] : i \in {j \in Ids : open[j] # 0}}
  /\ open' = NoBlocks
  /\ pc' = "filter"
  /\ UNCHANGED <<world, scans, analysed, source, lineNum, nextLine, started, warned,
                 kept, before>>

InRange(r, l) == r.start <= l /\ (r.end = 0 \/ l <= r.end)

\* FileSuppressions.IsSuppressed.
Directed(rule, l) ==
  \E id \in {rule, Star} :
    \/ [line |-> l, id |-> id] \in nextLine
    \/ \E r \in ranges : r.id = id /\ InRange(r, l)

\* A slip: the expiry is warned about and not looked at.
AppliesForever(e, f) ==
  /\ e.rule \in {f.rule, Star}
  /\ Unnamed \in {e.function, f.function} \/ e.function = f.function

\* ConfigSuppression.IsSuppressed.  A finding whose text names no function
\* passes for one of any function.
Applies(e, f) ==
  /\ e.rule \in {f.rule, Star}
  /\ ~HasExpired(e, started)
  /\ Unnamed \in {e.function, f.function} \/ e.function = f.function

Ignored(f) == \E e \in Ignores : Applies(e, f)

Filter ==
  /\ pc = "filter"
  /\ kept' = {f \in FindingsOf(analysed) : ~Directed(f.rule, f.line) /\ ~Ignored(f)}
  /\ pc' = "done"
  /\ UNCHANGED <<world, scans, analysed, source, parser, started, warned, before>>

\* Another scan of the same project.
NextScan ==
  /\ pc = "done" /\ scans < MaxScans
  /\ scans' = scans + 1
  /\ before' = [source |-> source, kept |-> kept]
  /\ pc' = "analyze"
  /\ UNCHANGED <<world, analysed, source, parser, started, warned, kept>>

-----------------------------------------------------------------------------
(* Around the scans *)

Write ==
  /\ events < MaxEvents /\ events' = events + 1
  /\ disk' \in Revisions
  /\ UNCHANGED <<now, pc, scans, analysed, source, parser, started, warned, kept, before>>

Tick ==
  /\ events < MaxEvents /\ events' = events + 1
  /\ now' = now + 1
  /\ UNCHANGED <<disk, pc, scans, analysed, source, parser, started, warned, kept, before>>

SuppressionNext ==
  \/ Analyze \/ NewEngine \/ ReadSource
  \/ NextLineDirective \/ DisableDirective \/ EnableDirective \/ OtherLine
  \/ EndOfSource \/ Filter \/ NextScan
  \/ Write \/ Tick

SuppressionSpec == SuppressionInit /\ [][SuppressionNext]_suppressionVars

-----------------------------------------------------------------------------
(* What the directives mean, without a parser *)

\* The lines before the first over-long one.
Visible(s) == {n \in 1..Len(s) : \A k \in 1..n : s[k].kind # "long"}

Turns(s, n, id) == Opens(s, n, id) \/ Closes(s, n, id)

\* Nothing between lines a and b, both excluded, turns id on or off.
Quiet(s, a, b, id) == \A k \in Visible(s) : a < k /\ k < b => ~Turns(s, k, id)

\* Line l is in a block that starts at line a: no directive on id follows a, or
\* the first that does ends the block, and at l or later.  A second start of
\* the same block is a new block, and the lines before it are in none.
InBlock(s, a, l, id) ==
  /\ a \in Visible(s) /\ a <= l /\ Opens(s, a, id)
  /\ \/ Quiet(s, a, MaxLine + 1, id)
     \/ \E b \in Visible(s) : a < b /\ l <= b /\ Closes(s, b, id) /\ Quiet(s, a, b, id)

Covered(s, rule, l) ==
  \E id \in {rule, Star} :
    \/ \E n \in Visible(s) : l = n + 1 /\ NextNames(s, n, id)
    \/ \E a \in 1..MaxLine : InBlock(s, a, l, id)

-----------------------------------------------------------------------------
(* Properties *)

\* The parser, which sees one line at a time and overwrites the start of a
\* block that is started again, suppresses exactly the lines that the
\* directives of the file cover.
DirectivesExact ==
  pc \in {"filter", "done"} /\ source # Unread =>
    \A r \in Rules, l \in 1..MaxLine : Directed(r, l) <=> Covered(source, r, l)

\* Unless the file was written between its analysis and the reading of its
\* directives, a finding is hidden only if the file it was found in covers it,
\* or an ignore entry does that no warning calls expired.
HiddenForAReason ==
  pc = "done" /\ source \in {analysed, Unread} =>
    \A f \in FindingsOf(analysed) \ kept :
      \/ source # Unread /\ Covered(analysed, f.rule, f.line)
      \/ \E e \in Ignores \ warned :
           /\ e.rule \in {f.rule, Star}
           /\ f.function # Unnamed /\ e.function # Unnamed => e.function = f.function

\* Time only brings findings back: what one scan reported, the next scan of the
\* same content does not hide.
ReportedStays ==
  [][pc = "filter" /\ pc' = "done" /\ source = before.source /\ source = analysed =>
       before.kept \cap FindingsOf(analysed) \subseteq kept']_suppressionVars
=============================================================================
