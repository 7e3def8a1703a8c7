----------------------- MODULE InterproceduralProofs -----------------------
(***************************************************************************)
(* Proofs about the two analyses that follow calls: the summaries of       *)
(* internal/taint (TaintSummaries) and the graph of internal/intercontract *)
(* with the searches of its pipeline (CrossContractGraph,                  *)
(* CrossContractTaint).  The two share no variable.                        *)
(***************************************************************************)
EXTENDS TaintSummaries, CrossContractTaint, FiniteSetTheorems, SequenceTheorems,
        WellFoundedInduction, TLAPS

(***************************************************************************)
(* For every source unit and every order in which BuildAll meets the nodes *)
(* of the call graph: a summary invents nothing (NothingInvented), and     *)
(* what it misses it misses along a call between two functions that call   *)
(* each other (SinksLostInRecursionOnly).                                  *)
(*                                                                         *)
(* The second fact needs the shape of the search: the open functions are   *)
(* distinct, none of them has a summary, each leads to those above it, and *)
(* the callees before the site a function is at have a summary or are      *)
(* open.  When a function is summarised, a callee without a summary is     *)
(* open, and so leads back to the function.                                *)
(***************************************************************************)

Typed ==
  /\ program \in Programs
  /\ unbuilt \subseteq Funs
  /\ calls \in Seq(Frames)
  /\ built \subseteq Funs
  /\ summary \in [Funs -> Seq(ParamFlows)]
  /\ \A f \in built : Len(summary[f]) = Len(Params(f))

SearchInv ==
  /\ \A k \in 1..Len(calls) : calls[k].fun \notin built
  /\ \A j, k \in 1..Len(calls) : j # k => calls[j].fun # calls[k].fun
  /\ \A j, k \in 1..Len(calls) : \A f, g \in Funs :
       j <= k /\ calls[j].fun = f /\ calls[k].fun = g => g \in LeadsTo(f)
  /\ \A k \in 1..Len(calls) : \A f, g \in Funs : \A m \in 1..Len(Sites(f)) :
       calls[k].fun = f /\ m < calls[k].next /\ Sites(f)[m].callee = g => g \in built \/ Open(g)
  /\ \A f \in Funs : f \in unbuilt \/ f \in built \/ Open(f)

\* The summary of f has all that f itself does, and all of a callee's outside recursion.
Complete(f) ==
  \A i \in 1..Len(Params(f)) :
    /\ OwnSinks(f, i) \subseteq summary[f][i].sinks
    /\ OwnReturn(f, i) => summary[f][i].returns
    /\ \A t \in Slots :
         Feeds(f, i, t[1], t[2]) =>
           \/ f \in LeadsTo(t[1])
           \/ /\ t[1] \in built
              /\ summary[t[1]][t[2]].sinks \subseteq summary[f][i].sinks
              /\ summary[t[1]][t[2]].returns => summary[f][i].returns

LostInv == \A f \in built : Complete(f)

-----------------------------------------------------------------------------
(* The program *)

LEMMA ProgramTyped ==
  ASSUME Typed, NEW f \in Funs
  PROVE  Params(f) \in Seq(Names) /\ Sites(f) \in Seq(CallSites)
BY ProgramsAssumption DEF Typed, Params, Sites

LEMMA SlotTyped ==
  ASSUME NEW s \in Slots
  PROVE  s[1] \in Funs /\ s[2] \in 1..Len(Params(s[1])) /\ s = <<s[1], s[2]>>
BY DEF Slots

LEMMA SlotMade ==
  ASSUME NEW f \in Funs, NEW i \in 1..Len(Params(f))
  PROVE  <<f, i>> \in Slots
BY DEF Slots

\* No step changes the program, nor what is said of it.
LEMMA ProgramFixed ==
  ASSUME [SummaryNext]_summaryVars
  PROVE  /\ program' = program
         /\ Slots' = Slots
         /\ \A f : Params(f)' = Params(f) /\ Sites(f)' = Sites(f) /\ LeadsTo(f)' = LeadsTo(f)
         /\ \A f, i : OwnSinks(f, i)' = OwnSinks(f, i) /\ OwnReturn(f, i)' = OwnReturn(f, i)
         /\ \A f, i, g, j : Feeds(f, i, g, j)' = Feeds(f, i, g, j)
         /\ ClosedUnderFeeds' = ClosedUnderFeeds
<1>1. program' = program
  BY DEF SummaryNext, summaryVars, Visit, Descend, Summarise
<1>2. \A f : Params(f)' = Params(f) /\ Sites(f)' = Sites(f)
  BY <1>1 DEF Params, Sites
<1>3. Slots' = Slots
  BY <1>2 DEF Slots
<1>4. \A f : LeadsTo(f)' = LeadsTo(f)
  <2>1. \A m, n : CallsResolved(m, n)' = CallsResolved(m, n)
    BY <1>2 DEF CallsResolved
  <2> QED
    BY <2>1 DEF LeadsTo
<1>5. \A f, i : OwnSinks(f, i)' = OwnSinks(f, i)
  BY <1>2 DEF OwnSinks
<1>6. \A f, i : OwnReturn(f, i)' = OwnReturn(f, i)
  BY <1>1, <1>2 DEF OwnReturn
<1>7. \A f, i, g, j : Feeds(f, i, g, j)' = Feeds(f, i, g, j)
  BY <1>2 DEF Feeds
<1>8. ClosedUnderFeeds' = ClosedUnderFeeds
  BY <1>3, <1>7 DEF ClosedUnderFeeds
<1> QED
  BY <1>1, <1>2, <1>3, <1>4, <1>5, <1>6, <1>7, <1>8

LEMMA LeadsToItself ==
  ASSUME NEW f \in Funs
  PROVE  f \in LeadsTo(f)
BY DEF LeadsTo

LEMMA LeadsFurther ==
  ASSUME NEW f, NEW m \in LeadsTo(f), NEW n \in Funs, CallsResolved(m, n)
  PROVE  n \in LeadsTo(f)
BY DEF LeadsTo

\* A parameter ends in itself, and where those it is handed to end.
LEMMA EndsInItself ==
  ASSUME NEW s \in Slots
  PROVE  s \in EndsIn(ClosedUnderFeeds, s)
BY DEF EndsIn

LEMMA EndsFurther ==
  ASSUME NEW s \in Slots, NEW t \in Slots, Feeds(s[1], s[2], t[1], t[2])
  PROVE  EndsIn(ClosedUnderFeeds, t) \subseteq EndsIn(ClosedUnderFeeds, s)
<1>1. ASSUME NEW S \in ClosedUnderFeeds, s \in S
      PROVE  t \in S
  <2> DEFINE e == <<s, t>>
  <2>1. e \in Slots \X Slots /\ e[1] = s /\ e[2] = t
    OBVIOUS
  <2>2. Feeds(e[1][1], e[1][2], e[2][1], e[2][2])
    BY <2>1
  <2> HIDE DEF e
  <2> QED
    BY <1>1, <2>1, <2>2 DEF ClosedUnderFeeds
<1> QED
  BY <1>1 DEF EndsIn

-----------------------------------------------------------------------------
(* The stack of open calls *)

LEMMA InnermostTyped ==
  ASSUME Typed, Building
  PROVE  /\ Len(calls) \in Nat \ {0}
         /\ Innermost = calls[Len(calls)]
         /\ Innermost \in Frames
         /\ Innermost.fun \in Funs
         /\ Innermost.next \in Nat \ {0}
<1>1. calls \in Seq(Frames) /\ calls # <<>>
  BY DEF Typed, Building
<1>2. Len(calls) \in Nat \ {0}
  BY <1>1
<1>3. Innermost \in Frames
  BY <1>1, <1>2 DEF Innermost
<1> QED
  BY <1>2, <1>3 DEF Frames, Innermost

LEMMA ReturnedTyped ==
  ASSUME Typed, Building
  PROVE  /\ Returned \in Seq(Frames)
         /\ Len(Returned) = Len(calls) - 1
         /\ \A k \in 1..Len(Returned) : Returned[k] = calls[k]
<1> DEFINE n == Len(calls) - 1
<1>1. calls \in Seq(Frames) /\ n \in Nat /\ n < Len(calls)
  BY InnermostTyped DEF Typed
<1>2. Returned = SubSeq(calls, 1, n)
  BY DEF Returned
<1>3. n = Len(calls) - 1
  OBVIOUS
<1> HIDE DEF n
<1>4. \A k \in 1..n : calls[k] \in Frames
  BY <1>1
<1>5. /\ SubSeq(calls, 1, n) \in Seq(Frames)
      /\ Len(SubSeq(calls, 1, n)) = IF 1 <= n THEN n - 1 + 1 ELSE 0
      /\ \A k \in 1..(n - 1 + 1) : SubSeq(calls, 1, n)[k] = calls[1 + k - 1]
  <2>1. 1 \in Int /\ n \in Int
    BY <1>1
  <2> QED
    BY <1>4, <2>1, SubSeqProperties, SMTT(30)
<1>6. Len(SubSeq(calls, 1, n)) = n
  BY <1>1, <1>5
<1>7. \A k \in 1..n : SubSeq(calls, 1, n)[k] = calls[k]
  BY <1>1, <1>5
<1> QED
  BY <1>2, <1>3, <1>5, <1>6, <1>7

LEMMA AdvancedTyped ==
  ASSUME Typed, Building
  PROVE  /\ Advanced \in Seq(Frames)
         /\ Len(Advanced) = Len(calls)
         /\ \A k \in 1..Len(calls) : Advanced[k].fun = calls[k].fun
         /\ \A k \in 1..Len(calls) : k # Len(calls) => Advanced[k].next = calls[k].next
         /\ Advanced[Len(calls)].next = Innermost.next + 1
<1> DEFINE moved == [Innermost EXCEPT !.next = @ + 1]
<1>1. calls \in Seq(Frames) /\ Len(calls) \in Nat \ {0}
  BY InnermostTyped DEF Typed
<1>2. moved \in Frames /\ moved.fun = Innermost.fun /\ moved.next = Innermost.next + 1
  BY InnermostTyped DEF Frames
<1>3. Advanced = [calls EXCEPT ![Len(calls)] = moved]
  BY DEF Advanced, Innermost
<1> HIDE DEF moved
<1>4. /\ Advanced \in Seq(Frames)
      /\ Len(Advanced) = Len(calls)
      /\ Advanced[Len(calls)] = moved
      /\ \A k \in 1..Len(calls) : k # Len(calls) => Advanced[k] = calls[k]
  BY <1>1, <1>2, <1>3
<1> QED
  BY <1>1, <1>2, <1>4 DEF Innermost

LEMMA PushTyped ==
  ASSUME NEW s \in Seq(Frames), NEW f \in Funs
  PROVE  /\ Append(s, CallFrame(f)) \in Seq(Frames)
         /\ <<CallFrame(f)>> \in Seq(Frames)
BY DEF CallFrame, Frames

\* The callee the innermost call is at is a function, or is not resolved.
LEMMA SiteTyped ==
  ASSUME Typed, MoreSites
  PROVE  /\ Site.callee \in Funs \cup {NoFun}
         /\ Innermost.next \in 1..Len(Sites(Innermost.fun))
         /\ Site = Sites(Innermost.fun)[Innermost.next]
         /\ CallsResolved(Innermost.fun, Site.callee)
<1>1. Building
  BY DEF MoreSites
<1>2. /\ Sites(Innermost.fun) \in Seq(CallSites)
      /\ Innermost.next \in 1..Len(Sites(Innermost.fun))
  BY <1>1, InnermostTyped, ProgramTyped DEF MoreSites
<1>3. Site \in CallSites /\ Site = Sites(Innermost.fun)[Innermost.next]
  BY <1>2 DEF Site
<1> QED
  BY <1>2, <1>3 DEF CallSites, CallsResolved

-----------------------------------------------------------------------------
(* Types *)

LEMMA OwnTyped ==
  ASSUME NEW f, NEW i
  PROVE  OwnSinks(f, i) \subseteq SinkKinds /\ OwnReturn(f, i) \in BOOLEAN
BY DEF OwnSinks, OwnReturn, SinkKinds

\* A parameter that is fed has an entry in a computed summary.
LEMMA FedTyped ==
  ASSUME Typed, NEW f, NEW i, NEW s \in Fed(f, i)
  PROVE  /\ s \in Slots /\ s[1] \in built /\ s[1] \in Funs
         /\ s[2] \in 1..Len(Params(s[1]))
         /\ summary[s[1]][s[2]] \in ParamFlows
         /\ Feeds(f, i, s[1], s[2])
<1>1. s \in Slots /\ s[1] \in built /\ Feeds(f, i, s[1], s[2])
  BY DEF Fed
<1>2. s[1] \in Funs /\ s[2] \in 1..Len(Params(s[1]))
  BY <1>1, SlotTyped
<1>3. summary[s[1]] \in Seq(ParamFlows) /\ s[2] \in 1..Len(summary[s[1]])
  BY <1>1, <1>2 DEF Typed
<1> QED
  BY <1>1, <1>2, <1>3

LEMMA FlowTyped ==
  ASSUME Typed, NEW f, NEW i
  PROVE  Flow(f, i) \in ParamFlows
<1>1. UNION {summary[s[1]][s[2]].sinks : s \in Fed(f, i)} \subseteq SinkKinds
  BY FedTyped DEF ParamFlows
<1>2. (OwnReturn(f, i) \/ \E s \in Fed(f, i) : summary[s[1]][s[2]].returns) \in BOOLEAN
  OBVIOUS
<1> QED
  BY <1>1, <1>2, OwnTyped DEF Flow, ParamFlows

LEMMA InitTyped == SummaryInit => Typed
BY DEF SummaryInit, Typed

\* What Summarise makes of the summaries.
LEMMA SummariseEffect ==
  ASSUME Typed, Summarise, NEW f, f = Innermost.fun
  PROVE  /\ f \in Funs
         /\ built' = built \cup {f}
         /\ \A g \in Funs : g # f => summary'[g] = summary[g]
         /\ summary'[f] = [i \in 1..Len(Params(f)) |-> Flow(f, i)]
         /\ summary'[f] \in Seq(ParamFlows)
         /\ Len(summary'[f]) = Len(Params(f))
         /\ summary' \in [Funs -> Seq(ParamFlows)]
<1>1. f \in Funs /\ Len(Params(f)) \in Nat
  BY InnermostTyped, ProgramTyped DEF Summarise
<1>2. /\ built' = built \cup {f}
      /\ summary' = [summary EXCEPT ![f] = [i \in 1..Len(Params(f)) |-> Flow(f, i)]]
  BY DEF Summarise
<1> DEFINE new == [i \in 1..Len(Params(f)) |-> Flow(f, i)]
<1>3. new \in Seq(ParamFlows) /\ Len(new) = Len(Params(f))
  BY <1>1, FlowTyped
<1>4. summary' = [summary EXCEPT ![f] = new]
  BY <1>2
<1> HIDE DEF new
<1>5. /\ \A g \in Funs : g # f => summary'[g] = summary[g]
      /\ summary'[f] = new
      /\ summary' \in [Funs -> Seq(ParamFlows)]
  BY <1>1, <1>3, <1>4 DEF Typed
<1> QED
  BY <1>1, <1>2, <1>3, <1>5 DEF new

LEMMA NextTyped == Typed /\ [SummaryNext]_summaryVars => Typed'
<1> SUFFICES ASSUME Typed, [SummaryNext]_summaryVars
             PROVE  Typed'
  OBVIOUS
<1>1. program' = program /\ \A f : Params(f)' = Params(f)
  BY ProgramFixed
<1>2. ASSUME NEW f \in Funs, Visit(f)
      PROVE  Typed'
  BY <1>1, <1>2, PushTyped DEF Visit, Typed
<1>3. CASE Descend
  <2>1. Advanced \in Seq(Frames) /\ Site.callee \in Funs \cup {NoFun}
    BY <1>3, AdvancedTyped, SiteTyped DEF Descend, MoreSites
  <2>2. calls' \in Seq(Frames)
    BY <1>3, <2>1, PushTyped DEF Descend
  <2> QED
    BY <1>1, <1>3, <2>2 DEF Descend, Typed
<1>4. CASE Summarise
  <2>1. calls' \in Seq(Frames) /\ unbuilt' = unbuilt
    BY <1>4, ReturnedTyped DEF Summarise
  <2>2. PICK f : f = Innermost.fun
    OBVIOUS
  <2>3. /\ f \in Funs /\ built' = built \cup {f}
        /\ \A g \in Funs : g # f => summary'[g] = summary[g]
        /\ Len(summary'[f]) = Len(Params(f))
        /\ summary' \in [Funs -> Seq(ParamFlows)]
    BY <1>4, <2>2, SummariseEffect
  <2> QED
    BY <1>1, <2>1, <2>3 DEF Typed
<1>5. CASE UNCHANGED summaryVars
  BY <1>1, <1>5 DEF summaryVars, Typed
<1> QED
  BY <1>2, <1>3, <1>4, <1>5 DEF SummaryNext

-----------------------------------------------------------------------------
(* NothingInvented *)

\* The summary computed for f has sources for all it says, if its callees' have.
LEMMA FlowInvented ==
  ASSUME Typed, NothingInvented, NEW f \in Funs, NEW i \in 1..Len(Params(f))
  PROVE  /\ \A kind \in Flow(f, i).sinks :
              \E t \in EndsIn(ClosedUnderFeeds, <<f, i>>) : kind \in OwnSinks(t[1], t[2])
         /\ Flow(f, i).returns =>
              \E t \in EndsIn(ClosedUnderFeeds, <<f, i>>) : OwnReturn(t[1], t[2])
<1> DEFINE s == <<f, i>>
<1>1. s \in Slots /\ s[1] = f /\ s[2] = i
  BY SlotMade
<1>2. s \in EndsIn(ClosedUnderFeeds, s)
  BY <1>1, EndsInItself
<1>3. ASSUME NEW t \in Fed(f, i)
      PROVE  /\ EndsIn(ClosedUnderFeeds, t) \subseteq EndsIn(ClosedUnderFeeds, s)
             /\ t[1] \in built /\ t[2] \in 1..Len(Params(t[1])) /\ t = <<t[1], t[2]>>
  <2>1. t \in Slots /\ t[1] \in built /\ Feeds(s[1], s[2], t[1], t[2])
    BY <1>1, <1>3 DEF Fed
  <2> QED
    BY <1>1, <2>1, EndsFurther, SlotTyped
<1> HIDE DEF s
<1>4. ASSUME NEW kind \in Flow(f, i).sinks
      PROVE  \E t \in EndsIn(ClosedUnderFeeds, s) : kind \in OwnSinks(t[1], t[2])
  <2>1. CASE kind \in OwnSinks(f, i)
    BY <1>1, <1>2, <2>1
  <2>2. CASE kind \notin OwnSinks(f, i)
    <3>1. PICK t \in Fed(f, i) : kind \in summary[t[1]][t[2]].sinks
      BY <1>4, <2>2 DEF Flow
    <3>2. \E u \in EndsIn(ClosedUnderFeeds, t) : kind \in OwnSinks(u[1], u[2])
      BY <1>3, <3>1 DEF NothingInvented
    <3> QED
      BY <1>3, <3>1, <3>2
  <2> QED
    BY <2>1, <2>2
<1>5. ASSUME Flow(f, i).returns
      PROVE  \E t \in EndsIn(ClosedUnderFeeds, s) : OwnReturn(t[1], t[2])
  <2>1. CASE OwnReturn(f, i)
    BY <1>1, <1>2, <2>1
  <2>2. CASE ~OwnReturn(f, i)
    <3>1. PICK t \in Fed(f, i) : summary[t[1]][t[2]].returns
      BY <1>5, <2>2 DEF Flow
    <3>2. \E u \in EndsIn(ClosedUnderFeeds, t) : OwnReturn(u[1], u[2])
      BY <1>3, <3>1 DEF NothingInvented
    <3> QED
      BY <1>3, <3>1, <3>2
  <2> QED
    BY <2>1, <2>2
<1> QED
  BY <1>4, <1>5 DEF s

LEMMA NextInvented == Typed /\ NothingInvented /\ [SummaryNext]_summaryVars => NothingInvented'
<1> SUFFICES ASSUME Typed, NothingInvented, [SummaryNext]_summaryVars
             PROVE  NothingInvented'
  OBVIOUS
<1>1. /\ \A f : Params(f)' = Params(f)
      /\ \A f, i : OwnSinks(f, i)' = OwnSinks(f, i) /\ OwnReturn(f, i)' = OwnReturn(f, i)
      /\ \A s : EndsIn(ClosedUnderFeeds, s)' = EndsIn(ClosedUnderFeeds, s)
  BY ProgramFixed DEF EndsIn
<1>2. CASE built' = built /\ summary' = summary
  BY <1>1, <1>2 DEF NothingInvented
<1>3. CASE Summarise
  <2>1. PICK f : f = Innermost.fun
    OBVIOUS
  <2>2. /\ f \in Funs /\ built' = built \cup {f}
        /\ \A g \in Funs : g # f => summary'[g] = summary[g]
        /\ summary'[f] = [i \in 1..Len(Params(f)) |-> Flow(f, i)]
    BY <1>3, <2>1, SummariseEffect
  <2> SUFFICES ASSUME NEW g \in built', NEW i \in 1..Len(Params(g))
               PROVE  /\ \A kind \in summary'[g][i].sinks :
                           \E t \in EndsIn(ClosedUnderFeeds, <<g, i>>) : kind \in OwnSinks(t[1], t[2])
                      /\ summary'[g][i].returns =>
                           \E t \in EndsIn(ClosedUnderFeeds, <<g, i>>) : OwnReturn(t[1], t[2])
    BY <1>1 DEF NothingInvented
  <2>3. CASE g = f
    <3>1. summary'[g][i] = Flow(f, i)
      BY <2>2, <2>3
    <3> QED
      BY <2>2, <2>3, <3>1, FlowInvented
  <2>4. CASE g # f
    <3>1. g \in built /\ summary'[g] = summary[g]
      BY <2>2, <2>4 DEF Typed
    <3> QED
      BY <3>1 DEF NothingInvented
  <2> QED
    BY <2>3, <2>4
<1> QED
  BY <1>2, <1>3 DEF SummaryNext, summaryVars, Visit, Descend

\* A sink or a return in a parameter's summary is one of a parameter it is handed on to,
\* on every source unit and in every order of the search.
THEOREM SummariesInventNothing == SummarySpec => []NothingInvented
<1>1. SummaryInit => NothingInvented
  BY DEF SummaryInit, NothingInvented
<1> QED
  BY <1>1, InitTyped, NextTyped, NextInvented, PTL DEF SummarySpec

-----------------------------------------------------------------------------
(* SinksLostInRecursionOnly *)

LEMMA InitSearch == SummaryInit => SearchInv
BY DEF SummaryInit, SearchInv

\* An open function stays open when the stack only grows or moves on.
LEMMA StillOpen ==
  ASSUME Len(calls') \in Nat, Len(calls) \in Nat, Len(calls) <= Len(calls'),
         \A k \in 1..Len(calls) : calls'[k].fun = calls[k].fun,
         NEW g, Open(g)
  PROVE  Open(g)'
BY DEF Open

LEMMA VisitSearch ==
  ASSUME Typed, SearchInv, [SummaryNext]_summaryVars, NEW f \in Funs, Visit(f)
  PROVE  SearchInv'
<1>1. /\ calls = <<>> /\ unbuilt' = unbuilt \ {f} /\ built' = built
      /\ calls' = IF f \in built THEN <<>> ELSE <<CallFrame(f)>>
  BY DEF Visit, Building
<1>2. \A g : Sites(g)' = Sites(g) /\ LeadsTo(g)' = LeadsTo(g)
  BY ProgramFixed
<1>3. \A g : ~Open(g)
  BY <1>1 DEF Open
<1>4. CASE f \in built
  <2>1. calls' = <<>> /\ Len(calls') = 0
    BY <1>1, <1>4
  <2> QED
    BY <1>1, <1>3, <1>4, <2>1 DEF SearchInv
<1>5. CASE f \notin built
  <2>1. /\ calls' = <<CallFrame(f)>> /\ Len(calls') = 1
        /\ calls'[1].fun = f /\ calls'[1].next = 1
    BY <1>1, <1>5 DEF CallFrame
  <2>2. f \in LeadsTo(f)'
    BY <1>2, LeadsToItself
  <2>3. Open(f)'
    BY <2>1 DEF Open
  <2>4. \A m \in 1..Len(Sites(f)) : ~(m < 1)
    BY ProgramTyped
  <2>5. \A g \in Funs : g \in unbuilt' \/ g \in built' \/ Open(g)'
    BY <1>1, <1>3, <2>3 DEF SearchInv
  <2> QED
    BY <1>1, <1>2, <1>5, <2>1, <2>2, <2>4, <2>5 DEF SearchInv
<1> QED
  BY <1>4, <1>5

\* The stack after Descend: the old one moved on by a site, and perhaps the callee on top.
LEMMA DescendEffect ==
  ASSUME Typed, Descend
  PROVE  /\ Len(calls) \in Nat \ {0} /\ Len(calls') \in Nat /\ Len(calls) <= Len(calls')
         /\ \A k \in 1..Len(calls) : calls'[k].fun = calls[k].fun
         /\ \A k \in 1..Len(calls) : k # Len(calls) => calls'[k].next = calls[k].next
         /\ calls'[Len(calls)].next = Innermost.next + 1
         /\ \/ /\ Len(calls') = Len(calls)
               /\ Site.callee = NoFun \/ Site.callee \in built \/ Open(Site.callee)
            \/ /\ Len(calls') = Len(calls) + 1
               /\ calls'[Len(calls) + 1] = CallFrame(Site.callee)
               /\ Site.callee \in Funs /\ Site.callee \notin built /\ ~Open(Site.callee)
<1>1. Building /\ MoreSites
  BY DEF Descend, MoreSites
<1>2. /\ Advanced \in Seq(Frames) /\ Len(Advanced) = Len(calls)
      /\ \A k \in 1..Len(calls) : Advanced[k].fun = calls[k].fun
      /\ \A k \in 1..Len(calls) : k # Len(calls) => Advanced[k].next = calls[k].next
      /\ Advanced[Len(calls)].next = Innermost.next + 1
      /\ Len(calls) \in Nat \ {0}
  BY <1>1, AdvancedTyped, InnermostTyped
<1>3. CASE Site.callee = NoFun \/ Site.callee \in built \/ Open(Site.callee)
  <2>1. calls' = Advanced
    BY <1>3 DEF Descend
  <2> QED
    BY <1>2, <1>3, <2>1
<1>4. CASE ~(Site.callee = NoFun \/ Site.callee \in built \/ Open(Site.callee))
  <2>1. calls' = Append(Advanced, CallFrame(Site.callee)) /\ Site.callee \in Funs
    BY <1>1, <1>4, SiteTyped DEF Descend
  <2>2. CallFrame(Site.callee) \in Frames
    BY <2>1 DEF CallFrame, Frames
  <2>3. /\ Len(calls') = Len(calls) + 1
        /\ \A k \in 1..Len(calls) : calls'[k] = Advanced[k]
        /\ calls'[Len(calls) + 1] = CallFrame(Site.callee)
    BY <1>2, <2>1, <2>2, AppendProperties
  <2> QED
    BY <1>2, <1>4, <2>1, <2>3
<1> QED
  BY <1>3, <1>4

LEMMA DescendSearch ==
  ASSUME Typed, SearchInv, [SummaryNext]_summaryVars, Descend
  PROVE  SearchInv'
<1> DEFINE n == Len(calls)
<1>0. PICK g : g = Site.callee
  OBVIOUS
<1>1. /\ n \in Nat \ {0} /\ Len(calls') \in Nat /\ n <= Len(calls')
      /\ \A k \in 1..n : calls'[k].fun = calls[k].fun
      /\ \A k \in 1..n : k # n => calls'[k].next = calls[k].next
      /\ calls'[n].next = Innermost.next + 1
      /\ built' = built /\ unbuilt' = unbuilt
  BY DescendEffect DEF Descend
<1>2. \A f : Sites(f)' = Sites(f) /\ LeadsTo(f)' = LeadsTo(f)
  BY ProgramFixed
<1>3. /\ Innermost = calls[n] /\ Innermost.fun \in Funs /\ Innermost.next \in Nat \ {0}
      /\ Innermost.next \in 1..Len(Sites(Innermost.fun))
      /\ g = Sites(Innermost.fun)[Innermost.next].callee
      /\ CallsResolved(Innermost.fun, g)
  BY <1>0, InnermostTyped, SiteTyped DEF Descend, MoreSites
<1>4. \A f : Open(f) => Open(f)'
  BY <1>1, StillOpen
<1>5. g = NoFun \/ g \in built' \/ Open(g)'
  <2>1. CASE Len(calls') = n
    BY <1>0, <1>1, <1>4, <2>1, DescendEffect
  <2>2. CASE Len(calls') # n
    <3>1. Len(calls') = n + 1 /\ calls'[n + 1] = CallFrame(g)
      BY <1>0, <2>2, DescendEffect
    <3>2. n + 1 \in 1..Len(calls') /\ calls'[n + 1].fun = g
      BY <1>1, <3>1 DEF CallFrame
    <3> QED
      BY <3>2 DEF Open
  <2> QED
    BY <2>1, <2>2
<1>6. \A f \in Funs : f \in unbuilt' \/ f \in built' \/ Open(f)'
  BY <1>1, <1>4 DEF SearchInv
<1>7. ASSUME NEW k \in 1..n, NEW f \in Funs, NEW h \in Funs, NEW m \in 1..Len(Sites(f)),
             calls[k].fun = f, m < calls'[k].next, Sites(f)[m].callee = h
      PROVE  h \in built' \/ Open(h)'
  <2>1. CASE m < calls[k].next
    BY <1>1, <1>4, <1>7, <2>1 DEF SearchInv
  <2>2. CASE ~(m < calls[k].next)
    <3>1. k = n
      BY <1>1, <1>7, <2>2
    <3>2. m < Innermost.next + 1 /\ ~(m < Innermost.next) /\ m \in Nat
      <4>1. Sites(f) \in Seq(CallSites)
        BY ProgramTyped
      <4> QED
        BY <1>1, <1>3, <1>7, <2>2, <3>1, <4>1
    <3>3. m = Innermost.next
      BY <1>3, <3>2
    <3>4. h = g /\ h # NoFun
      BY <1>3, <1>7, <3>1, <3>3, ProgramsAssumption
    <3> QED
      BY <1>5, <3>4
  <2> QED
    BY <2>1, <2>2
<1>8. CASE Len(calls') = n
  <2> QED
    BY <1>1, <1>2, <1>6, <1>7, <1>8 DEF SearchInv
<1>9. CASE Len(calls') # n
  <2>1. /\ Len(calls') = n + 1 /\ calls'[n + 1].fun = g /\ calls'[n + 1].next = 1
        /\ g \in Funs /\ g \notin built /\ ~Open(g)
    BY <1>0, <1>9, DescendEffect DEF CallFrame
  <2>2. \A k \in 1..n : calls[k].fun # g
    BY <2>1 DEF Open
  <2>3. \A k \in 1..n : \A f \in Funs : calls[k].fun = f => g \in LeadsTo(f)
    <3> SUFFICES ASSUME NEW k \in 1..n, NEW f \in Funs, calls[k].fun = f
                 PROVE  g \in LeadsTo(f)
      OBVIOUS
    <3>1. Innermost.fun \in LeadsTo(f)
      BY <1>1, <1>3 DEF SearchInv
    <3> QED
      BY <1>3, <2>1, <3>1, LeadsFurther
  <2>4. g \in LeadsTo(g)
    BY <2>1, LeadsToItself
  <2>5. \A m \in 1..Len(Sites(g)) : ~(m < 1)
    BY <2>1, ProgramTyped
  <2>6. \A k \in 1..Len(calls') : k \in 1..n \/ k = n + 1
    BY <1>1, <2>1
  <2>7. \A k \in 1..Len(calls') : calls'[k].fun \notin built'
    BY <1>1, <2>1, <2>6 DEF SearchInv
  <2>8. \A j, k \in 1..Len(calls') : j # k => calls'[j].fun # calls'[k].fun
    BY <1>1, <2>1, <2>2, <2>6 DEF SearchInv
  <2>9. ASSUME NEW j \in 1..Len(calls'), NEW k \in 1..Len(calls'), j <= k,
               NEW f \in Funs, NEW h \in Funs, calls'[j].fun = f, calls'[k].fun = h
        PROVE  h \in LeadsTo(f)
    <3>1. CASE k \in 1..n
      <4>1. j \in 1..n
        BY <1>1, <2>6, <2>9, <3>1
      <4> QED
        BY <1>1, <2>9, <3>1, <4>1 DEF SearchInv
    <3>2. CASE k = n + 1 /\ j \in 1..n
      BY <1>1, <2>1, <2>3, <2>9, <3>2
    <3>3. CASE k = n + 1 /\ j = n + 1
      BY <2>1, <2>4, <2>9, <3>3
    <3> QED
      BY <2>6, <3>1, <3>2, <3>3
  <2>10. ASSUME NEW k \in 1..Len(calls'), NEW f \in Funs, NEW h \in Funs,
                NEW m \in 1..Len(Sites(f)),
                calls'[k].fun = f, m < calls'[k].next, Sites(f)[m].callee = h
         PROVE  h \in built' \/ Open(h)'
    <3>1. CASE k \in 1..n
      BY <1>1, <1>7, <2>10, <3>1
    <3>2. CASE k = n + 1
      BY <2>1, <2>5, <2>10, <3>2
    <3> QED
      BY <2>6, <3>1, <3>2
  <2> QED
    BY <1>2, <1>6, <2>7, <2>8, <2>9, <2>10 DEF SearchInv
<1> QED
  BY <1>8, <1>9

LEMMA SummariseSearch ==
  ASSUME Typed, SearchInv, [SummaryNext]_summaryVars, Summarise
  PROVE  SearchInv'
<1> DEFINE n == Len(calls)
<1>1. Building /\ calls' = Returned /\ unbuilt' = unbuilt /\ built' = built \cup {Innermost.fun}
  BY DEF Summarise
<1>2. /\ n \in Nat \ {0} /\ Innermost = calls[n]
      /\ Len(calls') = n - 1 /\ \A k \in 1..Len(calls') : calls'[k] = calls[k]
  BY <1>1, InnermostTyped, ReturnedTyped
<1>3. \A f : Sites(f)' = Sites(f) /\ LeadsTo(f)' = LeadsTo(f)
  BY ProgramFixed
<1>4. \A k \in 1..Len(calls') : k \in 1..n /\ k # n
  BY <1>2
<1>5. \A f : Open(f) => f \in built' \/ Open(f)'
  <2> SUFFICES ASSUME NEW f, Open(f)
               PROVE  f \in built' \/ Open(f)'
    OBVIOUS
  <2>1. PICK k \in 1..n : calls[k].fun = f
    BY DEF Open
  <2>2. CASE k = n
    BY <1>1, <1>2, <2>1, <2>2
  <2>3. CASE k # n
    <3>1. k \in 1..Len(calls')
      BY <1>2, <2>3
    <3> QED
      BY <1>2, <2>1, <3>1 DEF Open
  <2> QED
    BY <2>2, <2>3
<1>6. \A k \in 1..Len(calls') : calls'[k].fun \notin built'
  BY <1>1, <1>2, <1>4 DEF SearchInv
<1>7. \A j, k \in 1..Len(calls') : j # k => calls'[j].fun # calls'[k].fun
  BY <1>2, <1>4 DEF SearchInv
<1>8. \A j, k \in 1..Len(calls') : \A f, g \in Funs :
        j <= k /\ calls'[j].fun = f /\ calls'[k].fun = g => g \in LeadsTo(f)
  BY <1>2, <1>4 DEF SearchInv
<1>9. \A k \in 1..Len(calls') : \A f, g \in Funs : \A m \in 1..Len(Sites(f)) :
        calls'[k].fun = f /\ m < calls'[k].next /\ Sites(f)[m].callee = g =>
          g \in built' \/ Open(g)'
  <2> SUFFICES ASSUME NEW k \in 1..Len(calls'), NEW f \in Funs, NEW g \in Funs,
                      NEW m \in 1..Len(Sites(f)),
                      calls[k].fun = f, m < calls[k].next, Sites(f)[m].callee = g
               PROVE  g \in built' \/ Open(g)'
    BY <1>2
  <2>1. g \in built \/ Open(g)
    BY <1>4 DEF SearchInv
  <2> QED
    BY <1>1, <1>5, <2>1
<1>10. \A f \in Funs : f \in unbuilt' \/ f \in built' \/ Open(f)'
  BY <1>1, <1>5 DEF SearchInv
<1> QED
  BY <1>3, <1>6, <1>7, <1>8, <1>9, <1>10 DEF SearchInv

LEMMA NextSearch == Typed /\ SearchInv /\ [SummaryNext]_summaryVars => SearchInv'
<1> SUFFICES ASSUME Typed, SearchInv, [SummaryNext]_summaryVars
             PROVE  SearchInv'
  OBVIOUS
<1>1. CASE UNCHANGED summaryVars
  <2>1. calls' = calls /\ built' = built /\ unbuilt' = unbuilt
    BY <1>1 DEF summaryVars
  <2>2. \A f : Sites(f)' = Sites(f) /\ LeadsTo(f)' = LeadsTo(f) /\ Open(f)' = Open(f)
    BY <2>1, ProgramFixed DEF Open
  <2> QED
    BY <2>1, <2>2 DEF SearchInv
<1> QED
  BY <1>1, VisitSearch, DescendSearch, SummariseSearch DEF SummaryNext

\* When f is summarised, a callee without a summary is open, and leads to f.
LEMMA SummarisedComplete ==
  ASSUME Typed, SearchInv, [SummaryNext]_summaryVars, Summarise, NEW f, f = Innermost.fun
  PROVE  Complete(f)'
<1>1. Building /\ ~MoreSites
  BY DEF Summarise
<1>2. /\ f \in Funs /\ f \notin built /\ built' = built \cup {f}
      /\ \A g \in Funs : g # f => summary'[g] = summary[g]
      /\ summary'[f] = [i \in 1..Len(Params(f)) |-> Flow(f, i)]
  BY <1>1, SummariseEffect, InnermostTyped DEF SearchInv
<1>3. /\ Slots' = Slots
      /\ \A g : Params(g)' = Params(g) /\ LeadsTo(g)' = LeadsTo(g)
      /\ \A g, i : OwnSinks(g, i)' = OwnSinks(g, i) /\ OwnReturn(g, i)' = OwnReturn(g, i)
      /\ \A g, i, h, j : Feeds(g, i, h, j)' = Feeds(g, i, h, j)
  BY ProgramFixed
<1> SUFFICES ASSUME NEW i \in 1..Len(Params(f))
             PROVE  /\ OwnSinks(f, i) \subseteq summary'[f][i].sinks
                    /\ OwnReturn(f, i) => summary'[f][i].returns
                    /\ \A t \in Slots :
                         Feeds(f, i, t[1], t[2]) =>
                           \/ f \in LeadsTo(t[1])
                           \/ /\ t[1] \in built'
                              /\ summary'[t[1]][t[2]].sinks \subseteq summary'[f][i].sinks
                              /\ summary'[t[1]][t[2]].returns => summary'[f][i].returns
  BY <1>3 DEF Complete
<1>4. summary'[f][i] = Flow(f, i)
  BY <1>2
<1>5. ASSUME NEW t \in Slots, Feeds(f, i, t[1], t[2])
      PROVE  t[1] \in built \/ f \in LeadsTo(t[1])
  <2>1. PICK m \in 1..Len(Sites(f)) : Sites(f)[m].callee = t[1]
    BY <1>5 DEF Feeds
  <2>2. t[1] \in Funs /\ t[1] # NoFun
    BY SlotTyped, ProgramsAssumption
  <2>3. m < Innermost.next
    <3>1. Sites(f) \in Seq(CallSites) /\ Innermost.next \in Nat
      BY <1>1, <1>2, ProgramTyped, InnermostTyped
    <3> QED
      BY <1>1, <2>1, <3>1 DEF MoreSites
  <2>4. Len(calls) \in 1..Len(calls) /\ Innermost = calls[Len(calls)]
    BY <1>1, InnermostTyped
  <2>5. \A g \in Funs : g = t[1] => g \in built \/ Open(g)
    BY <1>2, <2>1, <2>3, <2>4 DEF SearchInv
  <2>6. ASSUME Open(t[1])
        PROVE  f \in LeadsTo(t[1])
    <3>1. PICK k \in 1..Len(calls) : calls[k].fun = t[1]
      BY <2>6 DEF Open
    <3>2. k <= Len(calls)
      BY <2>4, <3>1
    <3>3. calls[Len(calls)].fun = f
      BY <2>4
    <3>4. \A g \in Funs : g = calls[k].fun => f \in LeadsTo(g)
      BY <1>2, <2>4, <3>1, <3>2, <3>3 DEF SearchInv
    <3> QED
      BY <2>2, <3>1, <3>4
  <2> QED
    BY <2>2, <2>5, <2>6
<1>6. ASSUME NEW t \in Slots, Feeds(f, i, t[1], t[2]), t[1] \in built
      PROVE  /\ t[1] \in built' /\ summary'[t[1]] = summary[t[1]]
             /\ summary[t[1]][t[2]].sinks \subseteq Flow(f, i).sinks
             /\ summary[t[1]][t[2]].returns => Flow(f, i).returns
  <2>1. t \in Fed(f, i)
    BY <1>6 DEF Fed
  <2>2. t[1] \in built' /\ summary'[t[1]] = summary[t[1]]
    BY <1>2, <1>6, SlotTyped
  <2> QED
    BY <2>1, <2>2 DEF Flow
<1>7. OwnSinks(f, i) \subseteq Flow(f, i).sinks /\ (OwnReturn(f, i) => Flow(f, i).returns)
  BY DEF Flow
<1> QED
  BY <1>4, <1>5, <1>6, <1>7

\* A summary once computed stays, and so do its callees'.
LEMMA StillComplete ==
  ASSUME Typed, [SummaryNext]_summaryVars, NEW f \in built, Complete(f),
         built \subseteq built', \A g \in built : summary'[g] = summary[g]
  PROVE  Complete(f)'
<1>1. /\ Slots' = Slots
      /\ \A g : Params(g)' = Params(g) /\ LeadsTo(g)' = LeadsTo(g)
      /\ \A g, i : OwnSinks(g, i)' = OwnSinks(g, i) /\ OwnReturn(g, i)' = OwnReturn(g, i)
      /\ \A g, i, h, j : Feeds(g, i, h, j)' = Feeds(g, i, h, j)
  BY ProgramFixed
<1>2. summary'[f] = summary[f]
  OBVIOUS
<1> SUFFICES ASSUME NEW i \in 1..Len(Params(f))
             PROVE  /\ OwnSinks(f, i) \subseteq summary[f][i].sinks
                    /\ OwnReturn(f, i) => summary[f][i].returns
                    /\ \A t \in Slots :
                         Feeds(f, i, t[1], t[2]) =>
                           \/ f \in LeadsTo(t[1])
                           \/ /\ t[1] \in built'
                              /\ summary'[t[1]][t[2]].sinks \subseteq summary[f][i].sinks
                              /\ summary'[t[1]][t[2]].returns => summary[f][i].returns
  BY <1>1, <1>2 DEF Complete
<1> QED
  BY DEF Complete

LEMMA NextLost == Typed /\ SearchInv /\ LostInv /\ [SummaryNext]_summaryVars => LostInv'
<1> SUFFICES ASSUME Typed, SearchInv, LostInv, [SummaryNext]_summaryVars, NEW g \in built'
             PROVE  Complete(g)'
  BY DEF LostInv
<1>1. CASE built' = built /\ summary' = summary
  BY <1>1, StillComplete DEF LostInv
<1>2. CASE Summarise
  <2>1. PICK f : f = Innermost.fun
    OBVIOUS
  <2>2. /\ f \in Funs /\ f \notin built /\ built' = built \cup {f}
        /\ \A h \in Funs : h # f => summary'[h] = summary[h]
    BY <1>2, <2>1, SummariseEffect, InnermostTyped DEF SearchInv, Summarise
  <2>3. \A h \in built : summary'[h] = summary[h]
    BY <2>2 DEF Typed
  <2>4. CASE g = f
    BY <1>2, <2>1, <2>4, SummarisedComplete
  <2>5. CASE g # f
    BY <2>2, <2>3, <2>5, StillComplete DEF LostInv
  <2> QED
    BY <2>4, <2>5
<1> QED
  BY <1>1, <1>2 DEF SummaryNext, summaryVars, Visit, Descend

LEMMA LostInvImplies == Typed /\ SearchInv /\ LostInv => SinksLostInRecursionOnly
<1> SUFFICES ASSUME Typed, SearchInv, LostInv, BuildAllDone
             PROVE  \A f \in Funs : Complete(f)
  BY DEF SinksLostInRecursionOnly, Complete
<1>1. \A f : ~Open(f)
  BY DEF BuildAllDone, Building, Open
<1> QED
  BY <1>1 DEF BuildAllDone, SearchInv, LostInv

\* Whatever order the map of nodes gives, BuildAll misses a sink or a return only along a
\* call between two functions that call each other.
THEOREM SinksLostOnlyInRecursion == SummarySpec => []SinksLostInRecursionOnly
<1>1. SummaryInit => LostInv
  BY DEF SummaryInit, LostInv
<1> QED
  BY <1>1, InitTyped, InitSearch, NextTyped, NextSearch, NextLost, LostInvImplies,
     PTL DEF SummarySpec

\* BuildAll invents no sink of a parameter and loses one in recursion only.
THEOREM SummariesAreRight == SummarySpec => []SummariesRight
<1>1. NothingInvented /\ SinksLostInRecursionOnly => SummariesRight  BY DEF SummariesRight
<1>. QED  BY <1>1, SummariesInventNothing, SinksLostOnlyInRecursion, PTL

-----------------------------------------------------------------------------
(***************************************************************************)
(* For every project, every order in which the maps give the files and the *)
(* nodes, and every shape of the calls: when ComputeTransitiveFlags comes  *)
(* to rest, its flags are exact.                                           *)
(*                                                                         *)
(* No flag is wrong at any time (Sound): a callee's reason is its caller's.*)
(* None is missing at rest (Swept): in a sweep that changes nothing, the   *)
(* nodes that were looked at have the flags their callees give them, so    *)
(* that what has no flag is closed under the calls.  It takes that only    *)
(* nodes have callees, which is so because all files were gone through     *)
(* before the first call is (Added).                                       *)
(***************************************************************************)

CallPlaces == Files \X Nat \X (Nat \ {0})

GraphTyped ==
  /\ project \in Projects
  /\ todo \subseteq Files
  /\ queue \in Seq(CallPlaces)
  /\ \A k \in 1..Len(queue) : queue[k][2] \in 1..Len(project[queue[k][1]])
  /\ nodes \in [Ids -> (Files \X Nat) \cup {NoNode}]
  /\ callees \in [Ids -> Seq(Edges)]
  /\ external \subseteq Ids
  /\ changed \in BOOLEAN

\* Every function is a node, or still in the queue or in a file to open.
Added ==
  \A f \in Files : \A i \in 1..Len(project[f]) :
    \/ Id(<<f, i>>) \in Nodes
    \/ pass = "nodes" /\ f \in todo
    \/ pass = "nodes" /\ \E k \in 1..Len(queue) : queue[k][1] = f /\ queue[k][2] = i

OnlyNodesCall == \A n \in Ids : Callees(n) # {} => n \in Nodes

NotYet ==
  pass \in {"nodes", "edges"} => left = {} /\ changed /\ toExternal = {} /\ toWrite = {}

LeadsInto(n, base) ==
  \E g \in base : \A S \in ClosedSets : Callees(n) \subseteq S => g \in S

Sound(flagged, base) == \A n \in flagged : n \in Nodes /\ LeadsInto(n, base)

Swept(flagged, base) ==
  ~changed => \A n \in Nodes : n \in left \/ n \in flagged \/ Callees(n) \cap (base \cup flagged) = {}

Flags ==
  /\ left \subseteq Nodes
  /\ Sound(toExternal, external) /\ Sound(toWrite, Writers)
  /\ Swept(toExternal, external) /\ Swept(toWrite, Writers)

IInv == GraphTyped /\ Added /\ OnlyNodesCall /\ NotYet /\ Flags

-----------------------------------------------------------------------------
(* The project *)

LEMMA DefTyped ==
  ASSUME GraphTyped, NEW f \in Files, NEW i \in 1..Len(project[f])
  PROVE  /\ Id(<<f, i>>) \in Ids
         /\ Def(<<f, i>>).calls \in Seq([kind : Kinds, name : STRING])
<1>1. project[f] \in Seq(Defs)
  BY ProjectsAssumption DEF GraphTyped
<1>2. project[f][i] \in Defs
  BY <1>1
<1> QED BY <1>2 DEF Defs, Id, Def

LEMMA HeadTyped ==
  ASSUME GraphTyped, queue # <<>>
  PROVE  /\ Head(queue) = queue[1] /\ 1 \in 1..Len(queue)
         /\ Head(queue)[1] \in Files
         /\ Head(queue)[2] \in 1..Len(project[Head(queue)[1]])
         /\ Head(queue)[3] \in Nat \ {0}
         /\ Head(queue) = <<Head(queue)[1], Head(queue)[2], Head(queue)[3]>>
         /\ Def(Head(queue)) = Def(<<Head(queue)[1], Head(queue)[2]>>)
         /\ Id(Head(queue)) = Id(<<Head(queue)[1], Head(queue)[2]>>)
         /\ Id(Head(queue)) \in Ids
<1>1. Head(queue) = queue[1] /\ 1 \in 1..Len(queue) /\ Head(queue) \in CallPlaces
  BY DEF GraphTyped
<1>2. /\ Head(queue)[1] \in Files
      /\ Head(queue)[3] \in Nat \ {0}
      /\ Head(queue) = <<Head(queue)[1], Head(queue)[2], Head(queue)[3]>>
  BY <1>1 DEF CallPlaces
<1>3. Head(queue)[2] \in 1..Len(project[Head(queue)[1]])
  BY <1>1 DEF GraphTyped
<1>4. /\ Def(Head(queue)) = Def(<<Head(queue)[1], Head(queue)[2]>>)
      /\ Id(Head(queue)) = Id(<<Head(queue)[1], Head(queue)[2]>>)
  BY DEF Def, Id
<1>5. Id(Head(queue)) \in Ids
  BY <1>2, <1>3, <1>4, DefTyped
<1> QED BY <1>1, <1>2, <1>3, <1>4, <1>5

LEMMA TailTyped ==
  ASSUME GraphTyped, queue # <<>>
  PROVE  /\ Tail(queue) \in Seq(CallPlaces)
         /\ Len(Tail(queue)) = Len(queue) - 1
         /\ \A k \in 1..Len(Tail(queue)) : k + 1 \in 1..Len(queue) /\ Tail(queue)[k] = queue[k + 1]
BY DEF GraphTyped

LEMMA CalleesTyped ==
  ASSUME GraphTyped, NEW n \in Ids
  PROVE  Callees(n) \subseteq Ids
<1>1. callees[n] \in Seq(Edges)
  BY DEF GraphTyped
<1>2. \A k \in 1..Len(callees[n]) : callees[n][k] \in Edges
  BY <1>1
<1> QED BY <1>2 DEF Callees, Edges

-----------------------------------------------------------------------------
(* The invariant: the two passes *)

LEMMA InitInv ==
  ASSUME GraphInit
  PROVE  IInv
<1>1. GraphTyped
  BY DEF GraphInit, GraphTyped
<1>2. Added
  BY DEF GraphInit, Added
<1>3. OnlyNodesCall
  BY DEF GraphInit, OnlyNodesCall, Callees
<1>4. NotYet /\ Flags
  BY DEF GraphInit, NotYet, Flags, Sound, Swept
<1> QED BY <1>1, <1>2, <1>3, <1>4 DEF IInv

\* While there are no flags, nothing need be said of them.
LEMMA NoFlags ==
  ASSUME NotYet, pass \in {"nodes", "edges"},
         UNCHANGED <<left, changed, toExternal, toWrite>>
  PROVE  NotYet' /\ Flags'
BY DEF NotYet, Flags, Sound, Swept

\* A step that leaves the nodes and the calls alone.
LEMMA GraphStays ==
  ASSUME OnlyNodesCall, UNCHANGED <<project, nodes, callees>>
  PROVE  /\ Nodes' = Nodes /\ Writers' = Writers /\ ClosedSets' = ClosedSets
         /\ \A n : Callees(n)' = Callees(n)
         /\ OnlyNodesCall'
<1>1. Nodes' = Nodes
  BY DEF Nodes
<1>2. \A n : Callees(n)' = Callees(n)
  BY DEF Callees
<1>3. Writers' = Writers
  BY <1>1 DEF Writers, Def
<1>4. ClosedSets' = ClosedSets
  BY <1>2 DEF ClosedSets
<1>5. OnlyNodesCall'
  BY <1>1, <1>2 DEF OnlyNodesCall
<1> QED BY <1>1, <1>2, <1>3, <1>4, <1>5

LEMMA OpenFileInv ==
  ASSUME IInv, NEW f \in Files, OpenFile(f)
  PROVE  IInv'
<1> USE DEF IInv
<1>1. UNCHANGED <<project, nodes, callees>> /\ pass' = pass /\ pass \in {"nodes", "edges"}
  BY DEF OpenFile
<1>2. Nodes' = Nodes /\ OnlyNodesCall'
  BY <1>1, GraphStays
<1>3. NotYet' /\ Flags'
  BY <1>1, NoFlags DEF OpenFile
<1>4. project[f] \in Seq(Defs)
  BY ProjectsAssumption DEF GraphTyped
<1>5. /\ queue' \in Seq(CallPlaces)
      /\ Len(queue') = Len(project[f])
      /\ \A k \in 1..Len(queue') : queue'[k] = <<f, k, 1>>
  <2>1. queue' = [i \in 1..Len(project[f]) |-> <<f, i, 1>>] /\ Len(project[f]) \in Nat
    BY <1>4 DEF OpenFile
  <2>2. \A i \in 1..Len(project[f]) : <<f, i, 1>> \in CallPlaces
    BY <2>1 DEF CallPlaces
  <2> QED BY <2>1, <2>2
<1>6. GraphTyped'
  <2>1. \A k \in 1..Len(queue') : queue'[k][2] \in 1..Len(project[queue'[k][1]])
    BY <1>5
  <2> QED BY <1>1, <1>5, <2>1 DEF GraphTyped, OpenFile
<1>7. Added'
  <2> SUFFICES ASSUME NEW g \in Files, NEW i \in 1..Len(project[g])
               PROVE  \/ Id(<<g, i>>) \in Nodes
                      \/ pass = "nodes" /\ g \in todo'
                      \/ pass = "nodes" /\ \E k \in 1..Len(queue') : queue'[k][1] = g /\ queue'[k][2] = i
    BY <1>1, <1>2 DEF Added, Id, Def
  <2>1. CASE g = f /\ pass = "nodes"
    BY <2>1, <1>5
  <2>2. CASE ~(g = f /\ pass = "nodes")
    <3>1. queue = <<>> /\ todo' = todo \ {f}
      BY DEF OpenFile
    <3>2. ~\E k \in 1..Len(queue) : queue[k][1] = g /\ queue[k][2] = i
      BY <3>1
    <3>3. Id(<<g, i>>) \in Nodes \/ (pass = "nodes" /\ g \in todo)
      BY <3>2 DEF Added
    <3> QED BY <3>1, <3>3, <2>2
  <2> QED BY <2>1, <2>2
<1> QED BY <1>2, <1>3, <1>6, <1>7

LEMMA AddNodeInv ==
  ASSUME IInv, AddNode
  PROVE  IInv'
<1> USE DEF IInv
<1>1. /\ UNCHANGED <<project, callees>> /\ pass' = pass /\ pass = "nodes"
      /\ queue # <<>> /\ queue' = Tail(queue) /\ UNCHANGED <<todo, external, changed>>
  BY DEF AddNode
<1>2. PICK f, i : f = Head(queue)[1] /\ i = Head(queue)[2]
  OBVIOUS
<1>3. f \in Files /\ i \in 1..Len(project[f]) /\ i \in Nat /\ Id(<<f, i>>) \in Ids
  BY <1>1, <1>2, HeadTyped, DefTyped DEF GraphTyped
<1>4. nodes' = [nodes EXCEPT ![Id(<<f, i>>)] = <<f, i>>]
  BY <1>2 DEF AddNode
<1>5. Nodes \subseteq Nodes' /\ Id(<<f, i>>) \in Nodes'
  BY <1>3, <1>4, IdsAssumption DEF Nodes, GraphTyped
<1>6. NotYet' /\ Flags'
  BY <1>1, NoFlags DEF AddNode
<1>7. OnlyNodesCall'
  BY <1>1, <1>5 DEF OnlyNodesCall, Callees
<1>8. GraphTyped'
  <2>1. nodes' \in [Ids -> (Files \X Nat) \cup {NoNode}]
    BY <1>3, <1>4 DEF GraphTyped
  <2>2. queue' \in Seq(CallPlaces)
    BY <1>1, TailTyped
  <2>3. \A k \in 1..Len(queue') : queue'[k][2] \in 1..Len(project[queue'[k][1]])
    BY <1>1, TailTyped DEF GraphTyped
  <2> QED BY <1>1, <2>1, <2>2, <2>3 DEF GraphTyped
<1>9. Added'
  <2> SUFFICES ASSUME NEW g \in Files, NEW j \in 1..Len(project[g])
               PROVE  \/ Id(<<g, j>>) \in Nodes'
                      \/ g \in todo
                      \/ \E k \in 1..Len(queue') : queue'[k][1] = g /\ queue'[k][2] = j
    BY <1>1 DEF Added, Id, Def
  <2>1. CASE \E k \in 1..Len(queue) : queue[k][1] = g /\ queue[k][2] = j
    <3>1. PICK k \in 1..Len(queue) : queue[k][1] = g /\ queue[k][2] = j
      BY <2>1
    <3>2. CASE k = 1
      BY <3>1, <3>2, <1>1, <1>2, <1>5, HeadTyped
    <3>3. CASE k # 1
      <4>1. k - 1 \in 1..Len(queue') /\ queue'[k - 1] = queue[k]
        <5>1. Len(queue) \in Nat /\ k \in Nat
          BY DEF GraphTyped
        <5>2. k - 1 \in 1..Len(Tail(queue))
          BY <5>1, <3>3, <1>1, TailTyped
        <5>3. (k - 1) + 1 = k
          BY <5>1
        <5> QED BY <5>2, <5>3, <1>1, TailTyped
      <4> QED BY <4>1, <3>1
    <3> QED BY <3>2, <3>3
  <2>2. CASE ~\E k \in 1..Len(queue) : queue[k][1] = g /\ queue[k][2] = j
    BY <2>2, <1>5 DEF Added
  <2> QED BY <2>1, <2>2
<1> QED BY <1>6, <1>7, <1>8, <1>9

LEMMA NodesDoneInv ==
  ASSUME IInv, NodesDone
  PROVE  IInv'
<1> USE DEF IInv
<1>1. UNCHANGED <<project, nodes, callees, external, queue, changed>> /\ queue = <<>> /\ todo = {}
      /\ pass \in {"nodes", "edges"} /\ todo' = Files /\ pass' = "edges"
  BY DEF NodesDone
<1>2. Nodes' = Nodes /\ OnlyNodesCall'
  BY <1>1, GraphStays
<1>3. NotYet' /\ Flags'
  BY <1>1, NoFlags DEF NodesDone
<1>4. GraphTyped'
  BY <1>1 DEF GraphTyped
<1>5. Added'
  BY <1>1, <1>2 DEF Added, Id, Def
<1> QED BY <1>2, <1>3, <1>4, <1>5

LEMMA NoCallInv ==
  ASSUME IInv, NoCall
  PROVE  IInv'
<1> USE DEF IInv
<1>1. /\ UNCHANGED <<project, nodes, callees, external, todo, changed>>
      /\ pass' = pass /\ pass = "edges" /\ queue # <<>> /\ queue' = Tail(queue)
  BY DEF NoCall
<1>2. Nodes' = Nodes /\ OnlyNodesCall'
  BY <1>1, GraphStays
<1>3. NotYet' /\ Flags'
  BY <1>1, NoFlags DEF NoCall
<1>4. GraphTyped'
  <2>1. queue' \in Seq(CallPlaces)
    BY <1>1, TailTyped
  <2>2. \A k \in 1..Len(queue') : queue'[k][2] \in 1..Len(project[queue'[k][1]])
    BY <1>1, TailTyped DEF GraphTyped
  <2> QED BY <1>1, <2>1, <2>2 DEF GraphTyped
<1>5. Added'
  BY <1>1, <1>2 DEF Added, Id, Def
<1> QED BY <1>2, <1>3, <1>4, <1>5

LEMMA TargetsTyped ==
  ASSUME NEW contract, NEW name, NEW order \in Orders(contract, name)
  PROVE  /\ Len(order) \in Nat
         /\ \A k \in 1..Len(order) : order[k] \in Ids
<1>1. PICK T : T = Targets(contract, name)
  OBVIOUS
<1>2. T \subseteq Ids
  BY <1>1 DEF Targets
<1>3. Cardinality(T) \in Nat
  BY <1>2, IdsAssumption, FS_Subset, FS_CardinalityType
<1>4. order \in [1..Cardinality(T) -> T]
  BY <1>1 DEF Orders
<1>5. Len(order) = Cardinality(T)
  BY <1>3, <1>4
<1> QED BY <1>2, <1>3, <1>4, <1>5

LEMMA AddCallInv ==
  ASSUME IInv, AddCall
  PROVE  IInv'
<1> USE DEF IInv
<1>1. /\ UNCHANGED <<project, nodes, todo, changed>>
      /\ pass' = pass /\ pass = "edges" /\ queue # <<>>
      /\ Head(queue)[3] <= Len(Def(Head(queue)).calls)
  BY DEF AddCall
<1>2. NotYet' /\ Flags'
  BY <1>1, NoFlags DEF AddCall
<1>3. PICK f, i, c : f = Head(queue)[1] /\ i = Head(queue)[2] /\ c = Head(queue)[3]
  OBVIOUS
<1>4. PICK n : n = Caller
  OBVIOUS
<1>5. /\ f \in Files /\ i \in 1..Len(project[f]) /\ i \in Nat /\ c \in Nat \ {0}
      /\ n \in Ids /\ n = Id(<<f, i>>)
  BY <1>1, <1>3, <1>4, HeadTyped DEF GraphTyped, Caller
<1>6. n \in Nodes
  BY <1>1, <1>5 DEF Added
<1>7. Nodes' = Nodes
  BY <1>1 DEF Nodes
<1>8. NextCall.kind \in Kinds
  <2>1. Def(Head(queue)).calls \in Seq([kind : Kinds, name : STRING])
    BY <1>1, <1>3, <1>5, HeadTyped, DefTyped
  <2>2. c \in 1..Len(Def(Head(queue)).calls)
    BY <2>1, <1>1, <1>3, <1>5
  <2>3. NextCall = Def(Head(queue)).calls[c]
    BY <1>3 DEF NextCall
  <2>4. \A T, q : q \in Seq(T) /\ c \in 1..Len(q) => q[c] \in T
    BY <1>5
  <2>5. NextCall \in [kind : Kinds, name : STRING]
    BY <2>1, <2>2, <2>3, <2>4
  <2> QED BY <2>5
<1>9. callees' \in [Ids -> Seq(Edges)] /\ \A m \in Ids : m # n => callees'[m] = callees[m]
  <2>1. CASE callees' = callees
    BY <2>1 DEF GraphTyped
  <2>2. CASE callees' # callees
    <3>1. PICK order \in Orders(Caller[1], NextCall.name) :
            callees' = [callees EXCEPT ![Caller] =
              @ \o [k \in 1..Len(order) |-> [callee |-> order[k], kind |-> NextCall.kind]]]
      BY <2>2 DEF AddCall
    <3>2. PICK more : more = [k \in 1..Len(order) |-> [callee |-> order[k], kind |-> NextCall.kind]]
      OBVIOUS
    <3>3. more \in Seq(Edges)
      BY <3>2, <1>8, TargetsTyped DEF Edges
    <3>4. callees' = [callees EXCEPT ![n] = callees[n] \o more]
      BY <3>1, <3>2, <1>4, <1>5 DEF GraphTyped
    <3>5. callees[n] \o more \in Seq(Edges)
      BY <3>3, <1>5 DEF GraphTyped
    <3> QED BY <3>4, <3>5, <1>5 DEF GraphTyped
  <2> QED BY <2>1, <2>2
<1>10. OnlyNodesCall'
  BY <1>6, <1>7, <1>9 DEF OnlyNodesCall, Callees
<1>11. GraphTyped'
  <2>1. PICK rest : rest = Tail(queue)
    OBVIOUS
  <2>2. queue' = << <<f, i, c + 1>> >> \o rest
    BY <1>3, <2>1 DEF AddCall
  <2>3. rest \in Seq(CallPlaces) /\ <<f, i, c + 1>> \in CallPlaces
    BY <1>1, <1>5, <2>1, TailTyped DEF CallPlaces
  <2>4. queue' \in Seq(CallPlaces) /\ Len(queue') = 1 + Len(rest)
        /\ queue'[1] = <<f, i, c + 1>> /\ \A k \in 1..Len(rest) : queue'[k + 1] = rest[k]
    BY <2>2, <2>3
  <2>5. \A k \in 1..Len(queue') : queue'[k][2] \in 1..Len(project[queue'[k][1]])
    <3> SUFFICES ASSUME NEW k \in 1..Len(queue')
                 PROVE  queue'[k][2] \in 1..Len(project[queue'[k][1]])
      OBVIOUS
    <3>1. CASE k = 1
      BY <3>1, <2>4, <1>5
    <3>2. CASE k # 1
      <4>1. PICK j \in 1..Len(rest) : k = j + 1
        <5>1. k - 1 \in 1..Len(rest) /\ k = (k - 1) + 1
          BY <3>2, <2>3, <2>4
        <5> QED BY <5>1
      <4>2. queue'[k] = queue[j + 1] /\ j + 1 \in 1..Len(queue)
        BY <4>1, <2>1, <2>4, <1>1, TailTyped
      <4> QED BY <4>2 DEF GraphTyped
    <3> QED BY <3>1, <3>2
  <2>6. external' \subseteq Ids
    BY <1>4, <1>5 DEF AddCall, GraphTyped
  <2> QED BY <1>1, <1>9, <2>4, <2>5, <2>6 DEF GraphTyped
<1>12. Added'
  BY <1>1, <1>7 DEF Added, Id, Def
<1> QED BY <1>2, <1>10, <1>11, <1>12

LEMMA EdgesDoneInv ==
  ASSUME IInv, EdgesDone
  PROVE  IInv'
<1> USE DEF IInv
<1>1. /\ UNCHANGED <<project, nodes, callees, external, queue, todo, changed>>
      /\ pass = "edges" /\ pass' = "flags"
  BY DEF EdgesDone
<1>2. Nodes' = Nodes /\ OnlyNodesCall'
  BY <1>1, GraphStays
<1>3. NotYet' /\ Flags'
  BY <1>1 DEF EdgesDone, NotYet, Flags, Sound, Swept
<1>4. GraphTyped' /\ Added'
  BY <1>1, <1>2 DEF GraphTyped, Added, Id, Def
<1> QED BY <1>2, <1>3, <1>4

-----------------------------------------------------------------------------
(* The invariant: the sweeps *)

\* What the sweeps leave alone.
LEMMA SweepsStay ==
  ASSUME IInv, pass \in {"flags", "built"}, pass' \in {"flags", "built"}, changed' \in BOOLEAN,
         UNCHANGED <<project, todo, queue, nodes, callees, external>>
  PROVE  /\ GraphTyped' /\ Added' /\ OnlyNodesCall' /\ NotYet'
         /\ Nodes' = Nodes /\ Writers' = Writers
         /\ \A n : Callees(n)' = Callees(n)
         /\ \A n, base : LeadsInto(n, base)' <=> LeadsInto(n, base)
<1> USE DEF IInv
<1>1. /\ Nodes' = Nodes /\ Writers' = Writers /\ ClosedSets' = ClosedSets
      /\ \A n : Callees(n)' = Callees(n)
      /\ OnlyNodesCall'
  BY GraphStays
<1>2. GraphTyped' /\ Added' /\ NotYet'
  BY <1>1 DEF GraphTyped, Added, NotYet, Id, Def
<1>3. \A n, base : LeadsInto(n, base)' <=> LeadsInto(n, base)
  BY <1>1 DEF LeadsInto
<1> QED BY <1>1, <1>2, <1>3

\* A node with a callee that is, or leads to, one of base leads to one of base.
LEMMA CallerLeadsTo ==
  ASSUME IInv, NEW n \in Ids, NEW base, NEW flagged, Sound(flagged, base), base \subseteq Ids,
         NEW m \in Callees(n), m \in base \/ m \in flagged
  PROVE  LeadsInto(n, base)
<1>1. m \in Ids
  BY CalleesTyped DEF IInv
<1>2. CASE m \in base
  BY <1>2 DEF LeadsInto
<1>3. CASE m \in flagged
  <2>1. PICK g \in base : \A S \in ClosedSets : Callees(m) \subseteq S => g \in S
    BY <1>3 DEF Sound, LeadsInto
  <2>2. \A S \in ClosedSets : Callees(n) \subseteq S => Callees(m) \subseteq S
    BY DEF ClosedSets
  <2> QED BY <2>1, <2>2 DEF LeadsInto
<1> QED BY <1>2, <1>3

LEMMA GainsSound ==
  ASSUME IInv, NEW n \in Nodes, NEW base, NEW flagged, Sound(flagged, base), base \subseteq Ids
  PROVE  Sound(flagged \cup Gains(n, base \cup flagged), base)
<1>1. n \in Ids
  BY DEF Nodes
<1>2. Gains(n, base \cup flagged) # {} => LeadsInto(n, base)
  BY <1>1, CallerLeadsTo DEF Gains
<1>3. Gains(n, base \cup flagged) \subseteq {n}
  BY DEF Gains
<1> QED BY <1>2, <1>3 DEF Sound

LEMMA GainsSwept ==
  ASSUME NEW n, NEW base, NEW flagged, Swept(flagged, base), ~changed,
         Gains(n, base \cup flagged) \subseteq flagged
  PROVE  \A m \in Nodes : \/ m \in left \ {n} \/ m \in flagged
                          \/ Callees(m) \cap (base \cup flagged) = {}
BY DEF Swept, Gains

LEMMA WritersAreIds == Writers \subseteq Ids
BY DEF Writers, Nodes

LEMMA NextSweepInv ==
  ASSUME IInv, NextSweep
  PROVE  IInv'
<1> USE DEF IInv
<1>1. /\ UNCHANGED <<project, pass, todo, queue, nodes, callees, external, toExternal, toWrite>>
      /\ pass = "flags" /\ left' = Nodes /\ changed' = FALSE
  BY DEF NextSweep
<1>2. /\ GraphTyped' /\ Added' /\ OnlyNodesCall' /\ NotYet'
      /\ Nodes' = Nodes /\ Writers' = Writers
      /\ \A n, base : LeadsInto(n, base)' <=> LeadsInto(n, base)
  BY <1>1, SweepsStay
<1>3. Sound(toExternal, external)' /\ Sound(toWrite, Writers)'
  BY <1>1, <1>2 DEF Flags, Sound
<1>4. left' \subseteq Nodes' /\ Swept(toExternal, external)' /\ Swept(toWrite, Writers)'
  BY <1>1, <1>2 DEF Swept
<1> QED BY <1>2, <1>3, <1>4 DEF Flags

LEMMA SweepInv ==
  ASSUME IInv, NEW n \in Ids, Sweep(n)
  PROVE  IInv'
<1> USE DEF IInv
<1>1. /\ UNCHANGED <<project, pass, todo, queue, nodes, callees, external>>
      /\ pass = "flags" /\ n \in left /\ left' = left \ {n}
      /\ toExternal' = toExternal \cup Gains(n, external \cup toExternal)
      /\ toWrite' = toWrite \cup Gains(n, Writers \cup toWrite)
  BY DEF Sweep
<1>2. /\ changed' \in BOOLEAN
      /\ ~changed' => ~changed /\ toExternal' = toExternal /\ toWrite' = toWrite
  BY DEF Sweep, GraphTyped
<1>3. /\ GraphTyped' /\ Added' /\ OnlyNodesCall' /\ NotYet'
      /\ Nodes' = Nodes /\ Writers' = Writers
      /\ \A m : Callees(m)' = Callees(m)
      /\ \A m, base : LeadsInto(m, base)' <=> LeadsInto(m, base)
  BY <1>1, <1>2, SweepsStay
<1>4. n \in Nodes /\ external \subseteq Ids
  BY <1>1 DEF Flags, GraphTyped
<1>5. Sound(toExternal, external)' /\ Sound(toWrite, Writers)'
  <2>1. PICK E, W : E = toExternal' /\ W = toWrite'
    OBVIOUS
  <2>2. Sound(E, external) /\ Sound(W, Writers)
    BY <1>1, <1>4, <2>1, GainsSound, WritersAreIds DEF Flags
  <2> QED BY <1>1, <1>3, <2>1, <2>2 DEF Sound
<1>6. Swept(toExternal, external)' /\ Swept(toWrite, Writers)'
  <2>1. CASE changed'
    BY <2>1 DEF Swept
  <2>2. CASE ~changed'
    <3>1. ~changed /\ toExternal' = toExternal /\ toWrite' = toWrite
      BY <2>2, <1>2
    <3>2. /\ Gains(n, external \cup toExternal) \subseteq toExternal
          /\ Gains(n, Writers \cup toWrite) \subseteq toWrite
      BY <3>1, <1>1
    <3>3. \A m \in Nodes : \/ m \in left \ {n} \/ m \in toExternal
                           \/ Callees(m) \cap (external \cup toExternal) = {}
      BY <3>1, <3>2, GainsSwept DEF Flags
    <3>4. \A m \in Nodes : \/ m \in left \ {n} \/ m \in toWrite
                           \/ Callees(m) \cap (Writers \cup toWrite) = {}
      BY <3>1, <3>2, GainsSwept DEF Flags
    <3> QED BY <3>1, <3>3, <3>4, <1>1, <1>3 DEF Swept
  <2> QED BY <2>1, <2>2
<1>7. left' \subseteq Nodes'
  BY <1>1, <1>3 DEF Flags
<1> QED BY <1>3, <1>5, <1>6, <1>7 DEF Flags

LEMMA FlagsDoneInv ==
  ASSUME IInv, FlagsDone
  PROVE  IInv'
<1> USE DEF IInv
<1>1. /\ UNCHANGED <<project, todo, queue, nodes, callees, external, left, changed, toExternal, toWrite>>
      /\ pass = "flags" /\ pass' = "built"
  BY DEF FlagsDone, AtRest
<1>2. /\ GraphTyped' /\ Added' /\ OnlyNodesCall' /\ NotYet'
      /\ Nodes' = Nodes /\ Writers' = Writers
      /\ \A m : Callees(m)' = Callees(m)
      /\ \A m, base : LeadsInto(m, base)' <=> LeadsInto(m, base)
  BY <1>1, SweepsStay DEF GraphTyped
<1>3. Flags'
  BY <1>1, <1>2 DEF Flags, Sound, Swept
<1> QED BY <1>2, <1>3

LEMMA StutterInv ==
  ASSUME IInv, UNCHANGED graphVars
  PROVE  IInv'
<1> USE DEF IInv
<1>1. /\ UNCHANGED <<project, pass, todo, queue, nodes, callees, external>>
      /\ UNCHANGED <<left, changed, toExternal, toWrite>>
  BY DEF graphVars
<1>2. /\ Nodes' = Nodes /\ Writers' = Writers /\ ClosedSets' = ClosedSets
      /\ \A m : Callees(m)' = Callees(m)
      /\ OnlyNodesCall'
  BY <1>1, GraphStays
<1>3. GraphTyped' /\ Added' /\ NotYet'
  BY <1>1, <1>2 DEF GraphTyped, Added, NotYet, Id, Def
<1>4. \A m, base : LeadsInto(m, base)' <=> LeadsInto(m, base)
  BY <1>2 DEF LeadsInto
<1>5. Flags'
  BY <1>1, <1>2, <1>4 DEF Flags, Sound, Swept
<1> QED BY <1>2, <1>3, <1>5

-----------------------------------------------------------------------------
(* The flags at rest *)

\* A set of flags without a wrong one, and to which no sweep would add, is exact.
LEMMA AtRestExact ==
  ASSUME IInv, left = {}, ~changed, NEW base, NEW flagged, base \subseteq Ids,
         Sound(flagged, base), Swept(flagged, base)
  PROVE  flagged = {n \in Nodes : Below(ClosedSets, n) \cap base # {}}
<1>1. Nodes \subseteq Ids
  BY DEF Nodes
<1>2. ASSUME NEW n \in flagged
      PROVE  n \in Nodes /\ Below(ClosedSets, n) \cap base # {}
  BY DEF Sound, LeadsInto, Below
<1>3. ASSUME NEW n \in Nodes, Below(ClosedSets, n) \cap base # {}, n \notin flagged
      PROVE  FALSE
  <2>1. PICK S : S = {m \in Ids : m \notin flagged /\ m \notin base}
    OBVIOUS
  <2>2. \A m \in Ids : m \notin flagged => Callees(m) \subseteq S
    <3> SUFFICES ASSUME NEW m \in Ids, m \notin flagged
                 PROVE  Callees(m) \subseteq S
      OBVIOUS
    <3>1. CASE m \in Nodes
      <4>1. Callees(m) \cap (base \cup flagged) = {}
        BY <3>1 DEF Swept
      <4> QED BY <4>1, <2>1, CalleesTyped DEF IInv
    <3>2. CASE m \notin Nodes
      BY <3>2 DEF IInv, OnlyNodesCall
    <3> QED BY <3>1, <3>2
  <2>3. S \in ClosedSets
    BY <2>1, <2>2 DEF ClosedSets
  <2>4. Callees(n) \subseteq S
    BY <1>1, <1>3, <2>2
  <2> QED BY <1>3, <2>1, <2>3, <2>4 DEF Below
<1> QED BY <1>2, <1>3

LEMMA FlagsFromInv ==
  ASSUME IInv
  PROVE  FlagsExact
<1> SUFFICES ASSUME AtRest
             PROVE  /\ toExternal = {n \in Nodes : Below(ClosedSets, n) \cap external # {}}
                    /\ toWrite = {n \in Nodes : Below(ClosedSets, n) \cap Writers # {}}
  BY DEF FlagsExact
<1>1. left = {} /\ ~changed /\ external \subseteq Ids
  BY DEF AtRest, IInv, GraphTyped
<1>2. toExternal = {n \in Nodes : Below(ClosedSets, n) \cap external # {}}
  BY <1>1, AtRestExact DEF IInv, Flags
<1>3. toWrite = {n \in Nodes : Below(ClosedSets, n) \cap Writers # {}}
  BY <1>1, AtRestExact, WritersAreIds DEF IInv, Flags
<1> QED BY <1>2, <1>3

\* A step of Build, whatever the order of its maps, keeps the invariant.
LEMMA GraphNextInv ==
  ASSUME IInv, [GraphNext]_graphVars
  PROVE  IInv'
<1>1. ASSUME NEW f \in Files, OpenFile(f) PROVE IInv'
  BY <1>1, OpenFileInv
<1>2. CASE AddNode
  BY <1>2, AddNodeInv
<1>3. CASE NodesDone
  BY <1>3, NodesDoneInv
<1>4. CASE NoCall
  BY <1>4, NoCallInv
<1>5. CASE AddCall
  BY <1>5, AddCallInv
<1>6. CASE EdgesDone
  BY <1>6, EdgesDoneInv
<1>7. CASE NextSweep
  BY <1>7, NextSweepInv
<1>8. ASSUME NEW n \in Ids, Sweep(n) PROVE IInv'
  BY <1>8, SweepInv
<1>9. CASE FlagsDone
  BY <1>9, FlagsDoneInv
<1>10. CASE UNCHANGED graphVars
  BY <1>10, StutterInv
<1> QED BY <1>1, <1>2, <1>3, <1>4, <1>5, <1>6, <1>7, <1>8, <1>9, <1>10 DEF GraphNext

\* ComputeTransitiveFlags (cross_contract_graph.go) sets its two flags on the functions
\* that lead to an external call, or to a state write, and on no others: for all projects,
\* orders of the maps, and cycles among the contracts.
THEOREM FlagsAreExact == GraphSpec => []FlagsExact
<1>1. GraphInit => IInv
  BY InitInv
<1>2. IInv /\ [GraphNext]_graphVars => IInv'
  BY GraphNextInv
<1>3. IInv => FlagsExact
  BY FlagsFromInv
<1> QED BY <1>1, <1>2, <1>3, PTL DEF GraphSpec

(***************************************************************************)
(* For every project and both depths: the searches of the pipeline report  *)
(* the flows, the cycles and the unprotected calls that the paths of the   *)
(* graph have, and no others (ReportsExact).                               *)
(*                                                                         *)
(* The reference builds its sets of paths one edge at a time; WalksAre and *)
(* ReturningAre turn them into statements about one path (a chain from a   *)
(* root, a path that comes back with its last call), which is what an      *)
(* invariant of a depth-first search can speak of.                         *)
(*                                                                         *)
(* Nothing is made up because the open calls are such a path.  Nothing is  *)
(* missed because what an open call is done with has been searched as deep *)
(* as it is to be (DeepInv, BehindInv); with its last edge done so is the  *)
(* call itself (EndSearched, EndReported).  A flow keeps its crossings     *)
(* because an array is written only past the end of the longest open slice *)
(* that lies in it, and a flow's array is no open slice's (SlicesInv).     *)
(***************************************************************************)

\* What the searches need of the graph besides IInv.
GraphMore ==
  /\ entries \in Seq(Files \X Nat)
  /\ \A k \in 1..Len(entries) : Id(entries[k]) \in Nodes
  /\ \A n \in Ids : \A k \in 1..Len(callees[n]) : callees[n][k].kind \in Leaving => n \in external
  /\ pass = "built" => left = {} /\ ~changed

LEMMA AddNodeMore ==
  ASSUME IInv, GraphMore, AddNode
  PROVE  GraphMore'
<1>1. /\ UNCHANGED <<project, callees, external>> /\ pass' = pass /\ pass = "nodes" /\ queue # <<>>
  BY DEF AddNode
<1>2. PICK p : p = <<Head(queue)[1], Head(queue)[2]>>
  OBVIOUS
<1>3. p \in Files \X Nat /\ Id(p) \in Ids
  <2>1. Head(queue)[1] \in Files /\ Head(queue)[2] \in 1..Len(project[Head(queue)[1]]) /\ Id(p) \in Ids
    BY <1>1, <1>2, HeadTyped DEF IInv
  <2>2. project[Head(queue)[1]] \in Seq(Defs)
    BY <2>1, ProjectsAssumption DEF IInv, GraphTyped
  <2> QED
    BY <1>2, <2>1, <2>2
<1>4. nodes' = [nodes EXCEPT ![Id(p)] = p] /\ entries' = IF Def(p).public THEN Append(entries, p) ELSE entries
  BY <1>2 DEF AddNode
<1>5. Nodes \subseteq Nodes' /\ Id(p) \in Nodes'
  BY <1>3, <1>4, IdsAssumption DEF Nodes, IInv, GraphTyped
<1>6. entries' \in Seq(Files \X Nat)
  BY <1>3, <1>4 DEF GraphMore
<1>7. ASSUME NEW k \in 1..Len(entries')
      PROVE  Id(entries'[k]) \in Nodes'
  <2>1. entries'[k] = p \/ (k \in 1..Len(entries) /\ entries'[k] = entries[k])
    BY <1>3, <1>4 DEF GraphMore
  <2> QED
    BY <1>5, <2>1 DEF GraphMore
<1>8. (\A k \in 1..Len(entries) : Id(entries[k]) \in Nodes)'
  BY <1>1, <1>7 DEF Id, Def
<1> QED
  BY <1>1, <1>6, <1>8 DEF GraphMore

LEMMA AddCallMore ==
  ASSUME IInv, GraphMore, AddCall
  PROVE  GraphMore'
<1>1. /\ UNCHANGED <<project, nodes, entries>> /\ pass' = pass /\ pass = "edges" /\ queue # <<>>
  BY DEF AddCall
<1>2. PICK n : n = Caller
  OBVIOUS
<1>3. n \in Ids
  BY <1>1, <1>2, HeadTyped DEF Caller, IInv
<1>4. external \subseteq external' /\ (NextCall.kind \in Leaving => n \in external')
  BY <1>2 DEF AddCall
<1>5. ASSUME NEW m \in Ids, NEW k \in 1..Len(callees'[m]), callees'[m][k].kind \in Leaving
      PROVE  m \in external'
  <2>1. CASE callees' = callees
    BY <1>4, <1>5, <2>1 DEF GraphMore
  <2>2. CASE callees' # callees
    <3>1. PICK order \in Orders(Caller[1], NextCall.name) :
            callees' = [callees EXCEPT ![Caller] =
              @ \o [i \in 1..Len(order) |-> [callee |-> order[i], kind |-> NextCall.kind]]]
      BY <2>2 DEF AddCall
    <3>2. PICK more : more = [i \in 1..Len(order) |-> [callee |-> order[i], kind |-> NextCall.kind]]
      OBVIOUS
    <3>3. Len(order) \in Nat
      BY TargetsTyped
    <3>4. Len(more) = Len(order) /\ \A i \in 1..Len(order) : more[i].kind = NextCall.kind
      BY <3>2, <3>3
    <3>5. callees[n] \in Seq(Edges) /\ callees' = [callees EXCEPT ![n] = callees[n] \o more]
      BY <3>1, <3>2, <1>2, <1>3 DEF IInv, GraphTyped
    <3>6. CASE m # n
      BY <1>4, <1>5, <3>5, <3>6 DEF GraphMore, IInv, GraphTyped
    <3>7. CASE m = n
      <4>1. callees'[n] = callees[n] \o more
        BY <1>3, <3>5 DEF IInv, GraphTyped
      <4>2. more \in Seq({more[i] : i \in 1..Len(order)})
        BY <3>2, <3>3
      <4>3. CASE k <= Len(callees[n])
        <5>1. callees'[n][k] = callees[n][k] /\ k \in 1..Len(callees[n])
          BY <3>5, <3>7, <4>1, <4>2, <4>3
        <5> QED
          BY <1>3, <1>4, <1>5, <3>7, <5>1 DEF GraphMore
      <4>4. CASE k > Len(callees[n])
        <5>1. k - Len(callees[n]) \in 1..Len(order) /\ callees'[n][k] = more[k - Len(callees[n])]
          BY <3>4, <3>5, <3>7, <4>1, <4>2, <4>4
        <5> QED
          BY <1>4, <1>5, <3>4, <3>7, <5>1
      <4> QED
        BY <3>5, <4>3, <4>4
    <3> QED
      BY <3>6, <3>7
  <2> QED
    BY <2>1, <2>2
<1>6. Nodes' = Nodes /\ (\A k \in 1..Len(entries) : Id(entries[k]) \in Nodes)'
  BY <1>1 DEF GraphMore, Nodes, Id, Def
<1> QED
  BY <1>1, <1>5, <1>6 DEF GraphMore

\* A step that leaves nodes, entry points and edges alone
LEMMA GraphMoreStays ==
  ASSUME GraphMore, UNCHANGED <<project, nodes, entries, callees, external>>,
         pass' = "built" => left' = {} /\ ~changed'
  PROVE  GraphMore'
BY DEF GraphMore, Nodes, Id, Def

LEMMA GraphMoreNext ==
  ASSUME IInv, GraphMore, [GraphNext]_graphVars
  PROVE  GraphMore'
<1>1. CASE AddNode
  BY <1>1, AddNodeMore
<1>2. CASE AddCall
  BY <1>2, AddCallMore
<1>3. ASSUME NEW f \in Files, OpenFile(f) PROVE GraphMore'
  BY <1>3, GraphMoreStays DEF OpenFile
<1>4. CASE NodesDone
  BY <1>4, GraphMoreStays DEF NodesDone
<1>5. CASE NoCall
  BY <1>5, GraphMoreStays DEF NoCall
<1>6. CASE EdgesDone
  BY <1>6, GraphMoreStays DEF EdgesDone
<1>7. CASE NextSweep
  BY <1>7, GraphMoreStays DEF NextSweep
<1>8. ASSUME NEW n \in Ids, Sweep(n) PROVE GraphMore'
  BY <1>8, GraphMoreStays DEF Sweep
<1>9. CASE FlagsDone
  BY <1>9, GraphMoreStays DEF FlagsDone, AtRest
<1>10. CASE UNCHANGED graphVars
  <2>1. UNCHANGED <<project, nodes, entries, callees, external, pass, left, changed>>
    BY <1>10 DEF graphVars
  <2> QED
    BY <2>1, GraphMoreStays DEF GraphMore
<1> QED
  BY <1>1, <1>2, <1>3, <1>4, <1>5, <1>6, <1>7, <1>8, <1>9, <1>10 DEF GraphNext

-----------------------------------------------------------------------------
(* Slices *)

Crossings  == {[from |-> p[1][1], to |-> p[2][1], via |-> p[1][2]] : p \in Ids \X Ids}
Cells      == Crossings \cup {Unset}
Slices     == [array : Nat, len : Nat]
WalkStates == Ids \X Seq(Crossings)

\* What slice s holds in heap h
Held(h, s) == [i \in 1..s.len |-> h[s.array][i]]

\* A slice of h is empty, or holds crossings only.
SliceIn(h, s) ==
  \/ s.array = 0 /\ s.len = 0
  \/ /\ s.array \in 1..Len(h)
     /\ s.len \in 1..Len(h[s.array])
     /\ \A i \in 1..s.len : h[s.array][i] \in Crossings

\* What s held in h it holds in g.
KeptIn(h, g, s) == SliceIn(g, s) /\ Held(g, s) = Held(h, s)

LEMMA HeldTyped ==
  ASSUME NEW h, NEW s \in Slices, SliceIn(h, s)
  PROVE  /\ Held(h, s) \in Seq(Crossings) /\ Len(Held(h, s)) = s.len
         /\ Held(h, s) # <<>> <=> s.len # 0
<1>1. s.len \in Nat /\ \A i \in 1..s.len : h[s.array][i] \in Crossings
  BY DEF SliceIn, Slices
<1>2. Held(h, s) \in Seq(Crossings) /\ Len(Held(h, s)) = s.len
  BY <1>1 DEF Held
<1> QED
  BY <1>1, <1>2

\* append hands on what the path's slice holds and the crossing, and leaves every slice
\* alone that is of another array or no longer than the path's.
LEMMA AppendedRight ==
  ASSUME heap \in Seq(Seq(Cells)), NEW s \in Slices, SliceIn(heap, s), NEW c \in Crossings
  PROVE  /\ Appended(s, c).heap \in Seq(Seq(Cells))
         /\ Appended(s, c).slice \in Slices
         /\ SliceIn(Appended(s, c).heap, Appended(s, c).slice)
         /\ Held(Appended(s, c).heap, Appended(s, c).slice) = Append(Held(heap, s), c)
         /\ \/ Appended(s, c).slice.array = s.array /\ Appended(s, c).slice.len > s.len
            \/ Appended(s, c).slice.array = Len(heap) + 1
         /\ \A t \in Slices : SliceIn(heap, t) /\ (t.array # s.array \/ t.len <= s.len) =>
              KeptIn(heap, Appended(s, c).heap, t)
<1>1. Len(heap) \in Nat /\ \A a \in 1..Len(heap) : heap[a] \in Seq(Cells)
  OBVIOUS
<1>2. c \in Cells /\ Crossings \subseteq Cells
  BY DEF Cells
<1>3. CASE HasRoom(s)
  <2>1. /\ s.array \in 1..Len(heap) /\ s.len \in 1..Len(heap[s.array])
        /\ \A i \in 1..s.len : heap[s.array][i] \in Crossings
        /\ s.len + 1 \in 1..Len(heap[s.array]) /\ s.len \in Nat /\ s.array \in Nat
    BY <1>1, <1>3 DEF HasRoom, SliceIn, Slices
  <2>2. PICK g : g = [heap EXCEPT ![s.array][s.len + 1] = c]
    OBVIOUS
  <2>3. PICK r : r = [array |-> s.array, len |-> s.len + 1]
    OBVIOUS
  <2>4. [s EXCEPT !.len = @ + 1] = r
    BY <2>3 DEF Slices
  <2>5. Appended(s, c) = [slice |-> r, heap |-> g]
    BY <1>3, <2>2, <2>4 DEF Appended
  <2>6. /\ g \in Seq(Seq(Cells)) /\ Len(g) = Len(heap)
        /\ \A a \in 1..Len(heap) : a # s.array => g[a] = heap[a]
        /\ Len(g[s.array]) = Len(heap[s.array])
        /\ \A i \in 1..Len(heap[s.array]) : g[s.array][i] = IF i = s.len + 1 THEN c ELSE heap[s.array][i]
    <3>1. PICK q : q = [heap[s.array] EXCEPT ![s.len + 1] = c]
      OBVIOUS
    <3>2. g = [heap EXCEPT ![s.array] = q]
      BY <2>2, <3>1
    <3>3. heap[s.array] \in Seq(Cells)
      BY <1>1, <2>1
    <3>4. /\ q \in Seq(Cells) /\ Len(q) = Len(heap[s.array])
          /\ \A i \in 1..Len(heap[s.array]) : q[i] = IF i = s.len + 1 THEN c ELSE heap[s.array][i]
      BY <1>2, <2>1, <3>1, <3>3
    <3>5. g \in Seq(Seq(Cells)) /\ Len(g) = Len(heap) /\ g[s.array] = q
          /\ \A a \in 1..Len(heap) : a # s.array => g[a] = heap[a]
      BY <2>1, <3>2, <3>4
    <3> QED
      BY <3>4, <3>5
  <2>7. r \in Slices /\ r.array = s.array /\ r.len = s.len + 1
    BY <2>1, <2>3 DEF Slices
  <2>8. SliceIn(g, r)
    <3>1. r.array \in 1..Len(g) /\ r.len \in 1..Len(g[r.array])
      BY <2>1, <2>6, <2>7
    <3>2. ASSUME NEW i \in 1..r.len
          PROVE  g[r.array][i] \in Crossings
      <4>1. i \in 1..Len(heap[s.array]) /\ (i = s.len + 1 \/ i \in 1..s.len)
        BY <1>1, <2>1, <2>7
      <4>2. g[s.array][i] = IF i = s.len + 1 THEN c ELSE heap[s.array][i]
        BY <2>6, <4>1
      <4> QED
        BY <2>1, <2>7, <4>1, <4>2
    <3> QED
      BY <3>1, <3>2 DEF SliceIn
  <2>9. Held(g, r) = Append(Held(heap, s), c)
    <3>1. Held(heap, s) \in Seq(Crossings) /\ Len(Held(heap, s)) = s.len
      BY HeldTyped
    <3>2. \A i \in 1..(s.len + 1) : Held(g, r)[i] = Append(Held(heap, s), c)[i]
      <4> SUFFICES ASSUME NEW i \in 1..(s.len + 1)
                   PROVE  Held(g, r)[i] = Append(Held(heap, s), c)[i]
        OBVIOUS
      <4>1. Held(g, r)[i] = IF i = s.len + 1 THEN c ELSE heap[s.array][i]
        BY <2>1, <2>6, <2>7 DEF Held
      <4>2. CASE i = s.len + 1
        BY <3>1, <4>1, <4>2
      <4>3. CASE i # s.len + 1
        <5>1. i \in 1..s.len
          BY <2>1, <4>3
        <5>2. Append(Held(heap, s), c)[i] = Held(heap, s)[i]
          BY <3>1, <5>1
        <5> QED
          BY <4>1, <4>3, <5>1, <5>2 DEF Held
      <4> QED
        BY <4>2, <4>3
    <3>3. Held(g, r) \in Seq(Crossings) /\ Len(Held(g, r)) = s.len + 1
      BY <2>7, <2>8, HeldTyped
    <3>4. Append(Held(heap, s), c) \in Seq(Crossings) /\ Len(Append(Held(heap, s), c)) = s.len + 1
      BY <3>1
    <3> QED
      BY <2>1, <3>2, <3>3, <3>4, SeqEqual
  <2>10. ASSUME NEW t \in Slices, SliceIn(heap, t), t.array # s.array \/ t.len <= s.len
         PROVE  KeptIn(heap, g, t)
    <3>1. CASE t.array = 0
      BY <1>1, <2>10, <3>1 DEF KeptIn, SliceIn, Held
    <3>2. CASE t.array # 0
      <4>1. t.array \in 1..Len(heap) /\ t.len \in 1..Len(heap[t.array]) /\ Len(heap[t.array]) \in Nat
        BY <1>1, <2>10, <3>2 DEF SliceIn
      <4>2. ASSUME NEW i \in 1..t.len
            PROVE  g[t.array][i] = heap[t.array][i]
        <5>1. CASE t.array # s.array
          BY <2>6, <4>1, <5>1
        <5>2. CASE t.array = s.array
          <6>1. i \in 1..Len(heap[s.array]) /\ i # s.len + 1
            BY <2>1, <2>10, <4>1, <5>2
          <6> QED
            BY <2>6, <5>2, <6>1
        <5> QED
          BY <5>1, <5>2
      <4>3. t.len \in 1..Len(g[t.array])
        BY <2>6, <4>1
      <4> QED
        BY <2>6, <2>10, <3>2, <4>1, <4>2, <4>3 DEF KeptIn, SliceIn, Held
    <3> QED
      BY <3>1, <3>2
  <2> QED
    BY <2>1, <2>5, <2>6, <2>7, <2>8, <2>9, <2>10
<1>4. CASE ~HasRoom(s)
  <2>1. s.len \in Nat /\ s.array \in Nat /\ \A i \in 1..s.len : heap[s.array][i] \in Crossings
    BY DEF SliceIn, Slices
  <2>2. PICK capacity : capacity = IF s.len = 0 THEN 1 ELSE 2 * s.len
    OBVIOUS
  <2>3. capacity \in Nat /\ s.len + 1 <= capacity
    BY <2>1, <2>2
  <2>4. PICK q : q = [k \in 1..capacity |->
                        IF k <= s.len THEN heap[s.array][k] ELSE IF k = s.len + 1 THEN c ELSE Unset]
    OBVIOUS
  <2>5. PICK g : g = Append(heap, q)
    OBVIOUS
  <2>6. PICK r : r = [array |-> Len(heap) + 1, len |-> s.len + 1]
    OBVIOUS
  <2>7. Appended(s, c) = [slice |-> r, heap |-> g]
    BY <1>4, <2>2, <2>4, <2>5, <2>6 DEF Appended
  <2>8. /\ q \in Seq(Cells) /\ Len(q) = capacity
        /\ \A i \in 1..s.len : q[i] = heap[s.array][i]
        /\ q[s.len + 1] = c
    <3>1. \A k \in 1..capacity : q[k] \in Cells
      BY <1>2, <2>1, <2>3, <2>4 DEF Cells
    <3> QED
      BY <2>1, <2>3, <2>4, <3>1
  <2>9. /\ g \in Seq(Seq(Cells)) /\ Len(g) = Len(heap) + 1 /\ g[Len(heap) + 1] = q
        /\ \A a \in 1..Len(heap) : g[a] = heap[a]
    BY <2>5, <2>8
  <2>10. r \in Slices /\ r.array = Len(heap) + 1 /\ r.len = s.len + 1
    BY <1>1, <2>1, <2>6 DEF Slices
  <2>11. SliceIn(g, r)
    <3>1. r.array \in 1..Len(g) /\ r.len \in 1..Len(g[r.array])
      BY <1>1, <2>1, <2>3, <2>8, <2>9, <2>10
    <3>2. ASSUME NEW i \in 1..r.len
          PROVE  g[r.array][i] \in Crossings
      <4>1. i = s.len + 1 \/ i \in 1..s.len
        BY <2>1, <2>10
      <4>2. g[r.array][i] = q[i]
        BY <2>9, <2>10
      <4> QED
        BY <2>1, <2>8, <4>1, <4>2
    <3> QED
      BY <3>1, <3>2 DEF SliceIn
  <2>12. Held(g, r) = Append(Held(heap, s), c)
    <3>1. Held(heap, s) \in Seq(Crossings) /\ Len(Held(heap, s)) = s.len
      BY HeldTyped
    <3>2. Held(g, r) \in Seq(Crossings) /\ Len(Held(g, r)) = s.len + 1
      BY <2>10, <2>11, HeldTyped
    <3>3. Append(Held(heap, s), c) \in Seq(Crossings) /\ Len(Append(Held(heap, s), c)) = s.len + 1
      BY <3>1
    <3>4. ASSUME NEW i \in 1..(s.len + 1)
          PROVE  Held(g, r)[i] = Append(Held(heap, s), c)[i]
      <4>1. Held(g, r)[i] = q[i]
        BY <2>9, <2>10 DEF Held
      <4>2. CASE i = s.len + 1
        <5>1. Append(Held(heap, s), c)[s.len + 1] = c
          BY <3>1
        <5> QED
          BY <2>8, <4>1, <4>2, <5>1
      <4>3. CASE i # s.len + 1
        <5>1. i \in 1..s.len
          BY <2>1, <4>3
        <5>2. Append(Held(heap, s), c)[i] = Held(heap, s)[i]
          BY <3>1, <5>1
        <5> QED
          BY <2>8, <4>1, <5>1, <5>2 DEF Held
      <4> QED
        BY <4>2, <4>3
    <3> QED
      BY <2>1, <3>2, <3>3, <3>4, SeqEqual
  <2>13. ASSUME NEW t \in Slices, SliceIn(heap, t)
         PROVE  KeptIn(heap, g, t)
    <3>1. CASE t.array = 0
      BY <1>1, <2>13, <3>1 DEF KeptIn, SliceIn, Held
    <3>2. CASE t.array # 0
      <4>1. t.array \in 1..Len(heap) /\ t.len \in 1..Len(heap[t.array]) /\ t.array \in 1..Len(g)
        BY <1>1, <2>9, <2>13, <3>2 DEF SliceIn
      <4> QED
        BY <2>9, <2>13, <4>1 DEF KeptIn, SliceIn, Held
    <3> QED
      BY <3>1, <3>2
  <2> QED
    BY <2>7, <2>9, <2>10, <2>11, <2>12, <2>13
<1> QED
  BY <1>3, <1>4

\* A copy holds what the path's slice holds, in an array of its own.
LEMMA CopiedRight ==
  ASSUME heap \in Seq(Seq(Cells)), NEW s \in Slices, SliceIn(heap, s), s.len # 0
  PROVE  /\ Copied(s).heap \in Seq(Seq(Cells))
         /\ Copied(s).slice \in Slices
         /\ SliceIn(Copied(s).heap, Copied(s).slice)
         /\ Held(Copied(s).heap, Copied(s).slice) = Held(heap, s)
         /\ Copied(s).slice.array = Len(heap) + 1
         /\ \A t \in Slices : SliceIn(heap, t) => KeptIn(heap, Copied(s).heap, t)
<1>1. Len(heap) \in Nat /\ Held(heap, s) \in Seq(Crossings) /\ Len(Held(heap, s)) = s.len /\ s.len \in Nat
  BY HeldTyped DEF Slices
<1>2. PICK q : q = Held(heap, s)
  OBVIOUS
<1>3. q \in Seq(Cells) /\ Len(q) = s.len /\ \A i \in 1..s.len : q[i] \in Crossings
  BY <1>1, <1>2 DEF Cells
<1>4. PICK g : g = Append(heap, q)
  OBVIOUS
<1>5. PICK r : r = [array |-> Len(heap) + 1, len |-> s.len]
  OBVIOUS
<1>6. Copied(s) = [slice |-> r, heap |-> g]
  BY <1>2, <1>4, <1>5 DEF Copied, Contents, Held
<1>7. g \in Seq(Seq(Cells)) /\ Len(g) = Len(heap) + 1 /\ g[Len(heap) + 1] = q
      /\ \A a \in 1..Len(heap) : g[a] = heap[a]
  BY <1>3, <1>4
<1>8. r \in Slices /\ r.array = Len(heap) + 1 /\ r.len = s.len
  BY <1>1, <1>5 DEF Slices
<1>9. SliceIn(g, r) /\ Held(g, r) = q
  <2>1. SliceIn(g, r)
    BY <1>1, <1>3, <1>7, <1>8 DEF SliceIn
  <2>2. Held(g, r) \in Seq(Crossings) /\ Len(Held(g, r)) = s.len
    BY <1>8, <2>1, HeldTyped
  <2>3. \A i \in 1..s.len : Held(g, r)[i] = q[i]
    BY <1>7, <1>8 DEF Held
  <2> QED
    BY <1>1, <1>2, <2>1, <2>2, <2>3
<1>10. ASSUME NEW t \in Slices, SliceIn(heap, t)
       PROVE  KeptIn(heap, g, t)
  <2>1. CASE t.array = 0
    BY <1>1, <1>10, <2>1 DEF KeptIn, SliceIn, Held
  <2>2. CASE t.array # 0
    <3>1. t.array \in 1..Len(heap) /\ t.len \in 1..Len(heap[t.array]) /\ t.array \in 1..Len(g)
      BY <1>1, <1>7, <1>10, <2>2 DEF SliceIn
    <3> QED
      BY <1>7, <1>10, <3>1 DEF KeptIn, SliceIn, Held
  <2> QED
    BY <2>1, <2>2
<1> QED
  BY <1>2, <1>6, <1>7, <1>8, <1>9, <1>10

\* A set of natural numbers that is not empty has a least one.
LEMMA LeastOf ==
  ASSUME NEW T, T \subseteq Nat, T # {}
  PROVE  \E x \in T : \A y \in T : x <= y
<1> DEFINE Less == {p \in Nat \X Nat : p[1] < p[2]}
<1>1. OpToRel(<, Nat) = Less
  BY DEF OpToRel
<1>2. IsWellFoundedOn(Less, Nat)
  BY <1>1, NatLessThanWellFounded
<1>3. PICK x \in T : \A y \in T : ~(<<y, x>> \in Less)
  <2> HIDE DEF Less
  <2> QED
    BY <1>2, WFMin
<1>4. ASSUME NEW y \in T PROVE x <= y
  <2>1. x \in Nat /\ y \in Nat
    OBVIOUS
  <2>2. ~(y < x)
    BY <1>3, <2>1
  <2> QED
    BY <2>1, <2>2
<1> QED
  BY <1>4

\* Induction over the natural numbers, for a set instead of a predicate.
LEMMA SetInduction ==
  ASSUME NEW T, 0 \in T, \A n \in Nat : n \in T => n + 1 \in T
  PROVE  Nat \subseteq T
<1> SUFFICES ASSUME ~(Nat \subseteq T) PROVE FALSE
  OBVIOUS
<1>1. PICK x \in Nat \ T : \A y \in Nat \ T : x <= y
  BY LeastOf
<1>2. x # 0
  BY <1>1
<1>3. x - 1 \in Nat /\ x - 1 \in T
  BY <1>1, <1>2
<1> QED
  BY <1>1, <1>2, <1>3

-----------------------------------------------------------------------------
(* Walks as chains *)

Linked(w, u) == \E e \in EdgesOf(w[1]) : Found(e.callee) /\ u = Onward(w, e)

Chain(v) ==
  /\ v \in Seq(WalkStates) /\ v # <<>>
  /\ \A i \in 1..(Len(v) - 1) : Linked(v[i], v[i + 1])

WalkedTo(k) == {w \in WalkStates : \E v : Chain(v) /\ v[1] \in Roots /\ Len(v) = k + 1 /\ v[k + 1] = w}

LEMMA EdgesTyped ==
  ASSUME GraphTyped, NEW n \in Ids
  PROVE  /\ callees[n] \in Seq(Edges) /\ Len(callees[n]) \in Nat
         /\ \A j \in 1..Len(callees[n]) : callees[n][j] \in Edges /\ callees[n][j].callee \in Ids
         /\ \A e \in EdgesOf(n) : e \in Edges /\ \E j \in 1..Len(callees[n]) : e = callees[n][j]
<1>1. callees[n] \in Seq(Edges)
  BY DEF GraphTyped
<1>2. \A j \in 1..Len(callees[n]) : callees[n][j] \in Edges
  BY <1>1
<1>3. \A e \in Edges : e.callee \in Ids
  BY DEF Edges
<1> QED
  BY <1>1, <1>2, <1>3 DEF EdgesOf

LEMMA OnwardTyped ==
  ASSUME NEW w \in WalkStates, NEW e \in Edges
  PROVE  Onward(w, e) \in WalkStates
<1>1. e.callee \in Ids /\ w[1] \in Ids /\ w[2] \in Seq(Crossings)
  BY DEF Edges, WalkStates
<1>2. [from |-> w[1][1], to |-> e.callee[1], via |-> w[1][2]] \in Crossings
  <2>1. PICK p : p = <<w[1], e.callee>>
    OBVIOUS
  <2>2. p \in Ids \X Ids /\ p[1] = w[1] /\ p[2] = e.callee
    BY <1>1, <2>1
  <2> QED
    BY <2>2 DEF Crossings
<1>3. Append(w[2], [from |-> w[1][1], to |-> e.callee[1], via |-> w[1][2]]) \in Seq(Crossings)
  BY <1>1, <1>2
<1> QED
  BY <1>1, <1>3 DEF Onward, WalkStates

LEMMA LinkedTyped ==
  ASSUME GraphTyped, NEW w \in WalkStates, NEW u, Linked(w, u)
  PROVE  u \in WalkStates
<1>1. w[1] \in Ids
  BY DEF WalkStates
<1>2. PICK e \in EdgesOf(w[1]) : u = Onward(w, e)
  BY DEF Linked
<1> QED
  BY <1>1, <1>2, EdgesTyped, OnwardTyped

LEMMA StartsTyped ==
  ASSUME GraphMore
  PROVE  LiveEntries \subseteq Nodes /\ LiveEntries \subseteq Ids /\ Roots \subseteq WalkStates
<1>1. LiveEntries \subseteq Nodes /\ Nodes \subseteq Ids
  BY DEF LiveEntries, GraphMore, Nodes
<1>2. ASSUME NEW n \in Ids
      PROVE  <<n, <<>>>> \in WalkStates
  <2>1. <<>> \in Seq(Crossings)
    OBVIOUS
  <2> QED
    BY <2>1 DEF WalkStates
<1>3. Roots \subseteq WalkStates
  BY <1>1, <1>2 DEF Roots
<1> QED
  BY <1>1, <1>3

\* One edge more
LEMMA WalkedFurther ==
  ASSUME GraphTyped, NEW k \in Nat
  PROVE  WalkedTo(k + 1) =
           UNION {{Onward(w, e) : e \in {d \in EdgesOf(w[1]) : Found(d.callee)}} : w \in WalkedTo(k)}
<1> DEFINE Further == UNION {{Onward(w, e) : e \in {d \in EdgesOf(w[1]) : Found(d.callee)}} : w \in WalkedTo(k)}
<1>1. \A u : u \in Further <=> \E w \in WalkedTo(k) : Linked(w, u)
  BY DEF Linked
<1> HIDE DEF Further
<1>2. ASSUME NEW u \in WalkedTo(k + 1)
      PROVE  \E w \in WalkedTo(k) : Linked(w, u)
  <2>1. PICK v : Chain(v) /\ v[1] \in Roots /\ Len(v) = (k + 1) + 1 /\ v[(k + 1) + 1] = u
    BY DEF WalkedTo
  <2>2. PICK p : p = SubSeq(v, 1, k + 1)
    OBVIOUS
  <2>3. v \in Seq(WalkStates)
    BY <2>1 DEF Chain
  <2>4. /\ p \in Seq(WalkStates) /\ Len(p) = k + 1 /\ p # <<>>
        /\ \A i \in 1..(k + 1) : p[i] = v[i]
    BY <2>1, <2>2, <2>3
  <2>5. Chain(p)
    BY <2>1, <2>4 DEF Chain
  <2>6. p[1] \in Roots /\ p[k + 1] = v[k + 1] /\ v[k + 1] \in WalkStates
    BY <2>1, <2>3, <2>4
  <2>7. v[k + 1] \in WalkedTo(k)
    BY <2>4, <2>5, <2>6 DEF WalkedTo
  <2>8. Linked(v[k + 1], v[(k + 1) + 1])
    BY <2>1 DEF Chain
  <2> QED
    BY <2>1, <2>7, <2>8
<1>3. ASSUME NEW w \in WalkedTo(k), NEW u, Linked(w, u)
      PROVE  u \in WalkedTo(k + 1)
  <2>1. PICK v : Chain(v) /\ v[1] \in Roots /\ Len(v) = k + 1 /\ v[k + 1] = w
    BY DEF WalkedTo
  <2>2. w \in WalkStates
    BY DEF WalkedTo
  <2>3. u \in WalkStates
    BY <1>3, <2>2, LinkedTyped
  <2>4. PICK p : p = Append(v, u)
    OBVIOUS
  <2>5. /\ p \in Seq(WalkStates) /\ Len(p) = (k + 1) + 1 /\ p # <<>>
        /\ p[(k + 1) + 1] = u
        /\ \A i \in 1..(k + 1) : p[i] = v[i]
    BY <2>1, <2>3, <2>4 DEF Chain
  <2>6. ASSUME NEW i \in 1..(Len(p) - 1)
        PROVE  Linked(p[i], p[i + 1])
    <3>1. CASE i = k + 1
      BY <1>3, <2>1, <2>5, <3>1
    <3>2. CASE i # k + 1
      <4>1. i \in 1..(Len(v) - 1) /\ i \in 1..(k + 1) /\ i + 1 \in 1..(k + 1)
        BY <2>1, <2>5, <3>2
      <4> QED
        BY <2>1, <2>5, <4>1 DEF Chain
    <3> QED
      BY <3>1, <3>2
  <2>7. Chain(p) /\ p[1] \in Roots
    BY <2>1, <2>5, <2>6 DEF Chain
  <2> QED
    BY <2>3, <2>5, <2>7 DEF WalkedTo
<1>4. \A u : u \in WalkedTo(k + 1) <=> u \in Further
  BY <1>1, <1>2, <1>3
<1> QED
  BY <1>4 DEF Further

LEMMA WalksAre ==
  ASSUME GraphTyped, GraphMore
  PROVE  Walks = UNION {WalkedTo(k) : k \in 0..MaxDepth}
<1> DEFINE Far(S) == UNION {{Onward(w, e) : e \in {d \in EdgesOf(w[1]) : Found(d.callee)}} : w \in S}
           body(g, k) == IF k = 0 THEN Roots
                         ELSE UNION {{Onward(w, e) : e \in {d \in EdgesOf(w[1]) : Found(d.callee)}} : w \in g[k - 1]}
           Eq(g) == g = [k \in 0..MaxDepth |-> body(g, k)]
           K == CHOOSE g : Eq(g)
           G == [k \in 0..MaxDepth |-> WalkedTo(k)]
<1>1. MaxDepth \in Nat
  BY DepthAssumption
<1>2. WalkedTo(0) = Roots
  <2>1. ASSUME NEW w \in Roots
        PROVE  w \in WalkedTo(0)
    <3>1. w \in WalkStates
      BY StartsTyped
    <3>2. <<w>> \in Seq(WalkStates) /\ Len(<<w>>) = 1 /\ <<w>>[1] = w /\ <<w>> # <<>>
      BY <3>1
    <3>3. Chain(<<w>>)
      BY <3>2 DEF Chain
    <3> QED
      BY <3>1, <3>2, <3>3 DEF WalkedTo
  <2> QED
    BY <2>1 DEF WalkedTo
<1>3. \A g, k : k # 0 => body(g, k) = Far(g[k - 1])
  OBVIOUS
<1>4. \A k \in Nat : WalkedTo(k + 1) = Far(WalkedTo(k))
  BY WalkedFurther
<1>5. \A g : body(g, 0) = Roots
  OBVIOUS
<1> HIDE DEF body, Far
<1>6. Eq(G)
  <2>1. ASSUME NEW k \in 0..MaxDepth
        PROVE  body(G, k) = WalkedTo(k)
    <3>1. CASE k = 0
      BY <1>2, <1>5, <3>1
    <3>2. CASE k # 0
      <4>1. k - 1 \in Nat /\ k - 1 \in 0..MaxDepth /\ (k - 1) + 1 = k
        BY <1>1, <3>2
      <4>2. G[k - 1] = WalkedTo(k - 1)
        BY <4>1
      <4>3. body(G, k) = Far(WalkedTo(k - 1))
        BY <1>3, <3>2, <4>2
      <4> QED
        BY <1>4, <4>1, <4>3
    <3> QED
      BY <3>1, <3>2
  <2> QED
    BY <2>1
<1>7. Eq(K)
  <2> HIDE DEF Eq, G
  <2> QED
    BY <1>6
<1>8. Walks = UNION {K[k] : k \in 0..MaxDepth}
  BY DEF Walks, body
<1> HIDE DEF K
<1>9. \A k \in 0..MaxDepth : K[k] = body(K, k)
  BY <1>7
<1>10. \A k \in 0..MaxDepth : K[k] = WalkedTo(k)
  <2> DEFINE T == {k \in Nat : k <= MaxDepth => K[k] = WalkedTo(k)}
  <2>1. 0 \in T
    BY <1>1, <1>2, <1>5, <1>9
  <2>2. ASSUME NEW k \in Nat, k \in T
        PROVE  k + 1 \in T
    <3> SUFFICES ASSUME k + 1 <= MaxDepth PROVE K[k + 1] = WalkedTo(k + 1)
      OBVIOUS
    <3>1. k + 1 \in 0..MaxDepth /\ k + 1 # 0 /\ (k + 1) - 1 = k /\ K[k] = WalkedTo(k)
      BY <1>1, <2>2
    <3> QED
      BY <1>3, <1>4, <1>9, <3>1
  <2>3. Nat \subseteq T
    <3> HIDE DEF T
    <3> QED
      BY <2>1, <2>2, SetInduction
  <2> QED
    BY <1>1, <2>3
<1> QED
  BY <1>8, <1>10

-----------------------------------------------------------------------------
(* What has been searched *)

\* The flows have what a path that ends in w must report.
Reported(w) ==
  w[2] # <<>> => \A u \in unresolved : u.caller = w[1] =>
    \E f \in flows : f.sink = w[1] /\ f.kind = SinkOf(u.kind) /\ Held(heap, f.crossings) = w[2]

\* ... and what the paths of d edges or fewer from x must report.
Searched(x, d) == \A v : Chain(v) /\ v[1] = x /\ Len(v) <= d + 1 => Reported(v[Len(v)])

\* Every path of d edges or fewer from x ends in R.
AllIn(R, x, d) == \A v : Chain(v) /\ v[1] = x /\ Len(v) <= d + 1 => v[Len(v)] \in R

LEMMA SearchedBelow ==
  ASSUME NEW x \in WalkStates, NEW d \in Nat, NEW R, x \in R,
         d > 0 => \A u : Linked(x, u) => AllIn(R, u, d - 1)
  PROVE  AllIn(R, x, d)
<1> SUFFICES ASSUME NEW v, Chain(v), v[1] = x, Len(v) <= d + 1
             PROVE  v[Len(v)] \in R
  BY DEF AllIn
<1>1. v \in Seq(WalkStates) /\ v # <<>> /\ Len(v) \in Nat
  BY DEF Chain
<1>2. CASE Len(v) = 1
  BY <1>2
<1>3. CASE Len(v) # 1
  <2>1. PICK p : p = Tail(v)
    OBVIOUS
  <2>2. /\ Len(v) >= 2 /\ d > 0
        /\ p \in Seq(WalkStates) /\ Len(p) = Len(v) - 1 /\ p # <<>>
        /\ \A i \in 1..Len(p) : p[i] = v[i + 1]
    <3>1. Len(v) >= 2
      <4>1. Len(v) # 0
        BY <1>1, EmptySeq
      <4> QED
        BY ONLY <1>1, <1>3, <4>1, SMT
    <3>2. d > 0 /\ p \in Seq(WalkStates) /\ Len(p) = Len(v) - 1
      BY <1>1, <2>1, <3>1
    <3>3. p # <<>>
      BY <3>1, <3>2
    <3>4. \A i \in 1..Len(p) : p[i] = v[i + 1]
      BY <1>1, <2>1, <3>2
    <3> QED
      BY <3>1, <3>2, <3>3, <3>4
  <2>3. ASSUME NEW i \in 1..(Len(p) - 1)
        PROVE  Linked(p[i], p[i + 1])
    <3>1. i + 1 \in 1..(Len(v) - 1) /\ i \in 1..Len(p) /\ i + 1 \in 1..Len(p)
      BY <1>1, <2>2
    <3>2. Linked(v[i + 1], v[(i + 1) + 1])
      BY <3>1 DEF Chain
    <3> QED
      BY <2>2, <3>1, <3>2
  <2>4. Chain(p)
    BY <2>2, <2>3 DEF Chain
  <2>5. Linked(x, p[1])
    <3>1. 1 \in 1..(Len(v) - 1) /\ 1 \in 1..Len(p)
      BY <1>1, <2>2
    <3>2. Linked(v[1], v[1 + 1])
      BY <3>1 DEF Chain
    <3> QED
      BY <2>2, <3>1, <3>2
  <2>6. AllIn(R, p[1], d - 1)
    BY <2>2, <2>5
  <2>7. Len(p) <= (d - 1) + 1
    BY <1>1, <2>2
  <2>8. p[Len(p)] \in R
    BY <2>4, <2>6, <2>7 DEF AllIn
  <2>9. p[Len(p)] = v[Len(v)]
    <3>1. Len(p) \in 1..Len(p) /\ Len(p) + 1 = Len(v)
      BY <1>1, <2>2
    <3> QED
      BY <2>2, <3>1
  <2> QED
    BY <2>8, <2>9
<1> QED
  BY <1>2, <1>3

-----------------------------------------------------------------------------
(* The searches' stack *)

Visits == [node : Ids, next : Nat \ {0}, slice : Slices]

\* The edge the k-th open call is in
Via(k) == callees[stack[k].node][stack[k].next - 1]

\* Each open call but the last is in the edge to the next.
StackInv ==
  /\ stack \in Seq(Visits)
  /\ \A k \in 1..Len(stack) :
       /\ stack[k].next <= Len(callees[stack[k].node]) + 1
       /\ k < Len(stack) => stack[k].next > 1 /\ stack[k + 1].node = Via(k).callee

PendingInv == pending \in Seq({entries[k] : k \in 1..Len(entries)})

\* An open path's slice is its own: no path below it on the stack reaches as far into the
\* array, and no flow has the array.
SlicesInv ==
  /\ heap \in Seq(Seq(Cells))
  /\ \A k \in 1..Len(stack) : SliceIn(heap, stack[k].slice)
  /\ \A j, k \in 1..Len(stack) :
       j <= k /\ stack[j].slice.array = stack[k].slice.array => stack[j].slice.len <= stack[k].slice.len
  /\ \A f \in flows : /\ f.crossings \in Slices /\ SliceIn(heap, f.crossings)
                      /\ \A k \in 1..Len(stack) : stack[k].slice.array # f.crossings.array

At(k) == <<stack[k].node, Held(heap, stack[k].slice)>>

\* The open calls are a path from an entry point, with the crossings of that path.
PathInv ==
  /\ Len(stack) <= MaxDepth + 1
  /\ stack # <<>> => At(1) \in Roots /\ At(1) = <<stack[1].node, <<>>>>
  /\ \A k \in 1..(Len(stack) - 1) : \A e :
       e = Via(k) => Found(e.callee) /\ At(k + 1) = Onward(At(k), e)

\* The k-th open call is done with its j-th edge.
Behind(k, j) == j < stack[k].next /\ (k < Len(stack) => j # stack[k].next - 1)

\* What an open call is done with has been searched, as deep as it is to be.
DeepInv ==
  \A k \in 1..Len(stack) : \A j \in 1..Len(callees[stack[k].node]) : \A e, x :
    /\ Behind(k, j) /\ k <= MaxDepth
    /\ e = callees[stack[k].node][j] /\ Found(e.callee) /\ x = Onward(At(k), e)
    => Searched(x, MaxDepth - k)

\* n is still to be started from.
Waiting(n) == \E k \in 1..Len(pending) : Live(pending[k]) /\ Id(pending[k]) = n

\* Every entry point has been searched, is being searched, or is still to be.
StartsInv ==
  \A n \in LiveEntries : Found(n) =>
    \/ Searched(<<n, <<>>>>, MaxDepth)
    \/ stack # <<>> /\ stack[1].node = n
    \/ Waiting(n)

FlowRight(f) ==
  /\ \E v : Chain(v) /\ v[1] \in Roots /\ Len(v) <= MaxDepth + 1
            /\ v[Len(v)] = <<f.sink, Held(heap, f.crossings)>>
  /\ Held(heap, f.crossings) # <<>>
  /\ \E u \in unresolved : u.caller = f.sink /\ f.kind = SinkOf(u.kind)

FlowsInv == \A f \in flows : FlowRight(f)

TaintInv == StackInv /\ PendingInv /\ SlicesInv /\ PathInv /\ DeepInv /\ StartsInv /\ FlowsInv

LEMMA GraphFixed ==
  ASSUME UNCHANGED graphVars
  PROVE  /\ UNCHANGED <<project, pass, nodes, entries, callees, unresolved, external, toExternal, toWrite>>
         /\ LiveEntries' = LiveEntries /\ Roots' = Roots
         /\ \A n : Found(n)' <=> Found(n)
         /\ \A p : Live(p)' <=> Live(p)
         /\ \A p : Id(p)' = Id(p)
         /\ \A v : Chain(v)' <=> Chain(v)
<1>1. UNCHANGED <<project, pass, nodes, entries, callees, unresolved, external, toExternal, toWrite>>
  BY DEF graphVars
<1>2. \A p : Id(p)' = Id(p)
  BY <1>1 DEF Id, Def
<1>3. \A n : Found(n)' <=> Found(n)
  BY <1>1 DEF Found, Id, Def
<1>4. \A p : Live(p)' <=> Live(p)
  BY <1>1 DEF Live, Id, Def
<1>5. LiveEntries' = LiveEntries
  BY <1>1 DEF LiveEntries, Live, Id, Def
<1>6. Roots' = Roots
  BY <1>3, <1>5 DEF Roots
<1>7. \A n : EdgesOf(n)' = EdgesOf(n)
  BY <1>1 DEF EdgesOf
<1>8. \A w, u : Linked(w, u)' <=> Linked(w, u)
  BY <1>3, <1>7 DEF Linked
<1>9. \A v : Chain(v)' <=> Chain(v)
  BY <1>8 DEF Chain
<1> QED
  BY <1>1, <1>2, <1>3, <1>4, <1>5, <1>6, <1>9

\* What was searched stays searched, since a flow's crossings are its own.
LEMMA KeptSearched ==
  ASSUME UNCHANGED graphVars, flows \subseteq flows',
         \A f \in flows : Held(heap', f.crossings) = Held(heap, f.crossings),
         NEW x, NEW d, Searched(x, d)
  PROVE  Searched(x, d)'
<1> SUFFICES ASSUME NEW v, Chain(v)', v[1] = x, Len(v) <= d + 1
             PROVE  Reported(v[Len(v)])'
  BY DEF Searched
<1>1. Reported(v[Len(v)])
  BY GraphFixed DEF Searched
<1>2. PICK w : w = v[Len(v)]
  OBVIOUS
<1>3. Reported(w)'
  BY <1>1, <1>2, GraphFixed DEF Reported
<1> QED
  BY <1>2, <1>3

LEMMA KeptWaiting ==
  ASSUME UNCHANGED graphVars, UNCHANGED pending
  PROVE  \A n : Waiting(n)' <=> Waiting(n)
BY GraphFixed DEF Waiting

LEMMA KeptFlow ==
  ASSUME UNCHANGED graphVars, NEW f, Held(heap', f.crossings) = Held(heap, f.crossings), FlowRight(f)
  PROVE  FlowRight(f)'
BY GraphFixed DEF FlowRight

\* Where the search is
LEMMA TopTyped ==
  ASSUME StackInv, stack # <<>>
  PROVE  /\ Len(stack) \in Nat \ {0} /\ Len(stack) \in 1..Len(stack) /\ 1 \in 1..Len(stack)
         /\ \A k \in 1..Len(stack) :
              /\ stack[k] \in Visits /\ stack[k].node \in Ids
              /\ stack[k].next \in Nat \ {0} /\ stack[k].slice \in Slices
<1>1. stack \in Seq(Visits)
  BY DEF StackInv
<1>2. Len(stack) \in Nat /\ Len(stack) # 0
  BY <1>1, EmptySeq
<1>3. \A k \in 1..Len(stack) : stack[k] \in Visits
  BY <1>1
<1>4. \A f \in Visits : f.node \in Ids /\ f.next \in Nat \ {0} /\ f.slice \in Slices
  BY DEF Visits
<1> QED
  BY <1>2, <1>3, <1>4

LEMMA MovedTyped ==
  ASSUME StackInv, AtEdge, GraphTyped, NEW L, L = Len(stack)
  PROVE  /\ Moved \in Seq(Visits) /\ Len(Moved) = L
         /\ \A k \in 1..L : k # L => Moved[k] = stack[k]
         /\ Moved[L] = [node |-> stack[L].node, next |-> stack[L].next + 1, slice |-> stack[L].slice]
         /\ stack[L].next \in 1..Len(callees[stack[L].node])
         /\ Edge = callees[stack[L].node][stack[L].next] /\ Edge \in Edges /\ Edge.callee \in Ids
         /\ Edge \in EdgesOf(stack[L].node)
<1>1. stack \in Seq(Visits) /\ L \in 1..Len(stack) /\ L \in Nat
  BY TopTyped DEF StackInv, AtEdge
<1>2. stack[L] \in Visits /\ stack[L].node \in Ids /\ stack[L].next \in Nat \ {0} /\ stack[L].slice \in Slices
  BY <1>1, TopTyped DEF AtEdge
<1>3. PICK t : t = [node |-> stack[L].node, next |-> stack[L].next + 1, slice |-> stack[L].slice]
  OBVIOUS
<1>4. [stack[L] EXCEPT !.next = @ + 1] = t /\ t \in Visits
  BY <1>2, <1>3 DEF Visits
<1>5. Moved = [stack EXCEPT ![L] = t]
  BY <1>1, <1>4 DEF Moved
<1>6. Moved \in Seq(Visits) /\ Len(Moved) = L /\ (\A k \in 1..L : k # L => Moved[k] = stack[k]) /\ Moved[L] = t
  BY <1>1, <1>4, <1>5
<1>7. callees[stack[L].node] \in Seq(Edges) /\ Len(callees[stack[L].node]) \in Nat
  BY <1>2, EdgesTyped
<1>8. stack[L].next \in 1..Len(callees[stack[L].node])
  BY <1>2, <1>7 DEF AtEdge, Top
<1>9. Edge = callees[stack[L].node][stack[L].next] /\ Edge \in Edges /\ Edge.callee \in Ids
  BY <1>2, <1>8, EdgesTyped DEF Edge, Top
<1> QED
  BY <1>3, <1>6, <1>8, <1>9 DEF EdgesOf

LEMMA PoppedTyped ==
  ASSUME StackInv, stack # <<>>, NEW L, L = Len(stack)
  PROVE  /\ Popped \in Seq(Visits) /\ Len(Popped) = L - 1
         /\ \A k \in 1..(L - 1) : Popped[k] = stack[k]
         /\ Popped = <<>> <=> L = 1
<1>1. stack \in Seq(Visits) /\ L \in Nat \ {0}
  BY TopTyped DEF StackInv
<1>2. Popped \in Seq(Visits) /\ Len(Popped) = L - 1 /\ \A k \in 1..(L - 1) : Popped[k] = stack[k]
  BY <1>1 DEF Popped
<1> QED
  BY <1>1, <1>2, EmptySeq

\* An open path is a chain from a root.
LEMMA PathIsChain ==
  ASSUME GraphTyped, StackInv, SlicesInv, PathInv, NEW L \in 1..Len(stack)
  PROVE  \E v : Chain(v) /\ v[1] \in Roots /\ Len(v) = L /\ v[L] = At(L)
<1>1. Len(stack) \in Nat /\ stack # <<>> /\ L \in Nat \ {0}
  BY DEF StackInv
<1>2. PICK v : v = [i \in 1..L |-> At(i)]
  OBVIOUS
<1>3. ASSUME NEW i \in 1..L
      PROVE  At(i) \in WalkStates
  <2>1. i \in 1..Len(stack)
    BY <1>1
  <2>2. stack[i].node \in Ids /\ Held(heap, stack[i].slice) \in Seq(Crossings)
    BY <1>1, <2>1, TopTyped, HeldTyped DEF SlicesInv
  <2> QED
    BY <2>2 DEF At, WalkStates
<1>4. v \in Seq(WalkStates) /\ Len(v) = L /\ v # <<>> /\ \A i \in 1..L : v[i] = At(i)
  BY <1>1, <1>2, <1>3
<1>5. ASSUME NEW i \in 1..(Len(v) - 1)
      PROVE  Linked(v[i], v[i + 1])
  <2>1. i \in 1..(Len(stack) - 1) /\ i \in 1..L /\ i + 1 \in 1..L /\ i \in 1..Len(stack) /\ i < Len(stack)
    BY <1>1, <1>4
  <2>2. Found(Via(i).callee) /\ At(i + 1) = Onward(At(i), Via(i))
    BY <2>1 DEF PathInv
  <2>3. Via(i) \in EdgesOf(At(i)[1])
    <3>1. stack[i].next > 1 /\ stack[i].next <= Len(callees[stack[i].node]) + 1
      BY <2>1 DEF StackInv
    <3>2. stack[i].node \in Ids /\ stack[i].next \in Nat
      BY <1>1, <2>1, TopTyped
    <3>3. Len(callees[stack[i].node]) \in Nat
      BY <3>2, EdgesTyped
    <3>4. stack[i].next - 1 \in 1..Len(callees[stack[i].node])
      BY <3>1, <3>2, <3>3
    <3> QED
      BY <3>4 DEF Via, EdgesOf, At
  <2> QED
    BY <1>4, <2>1, <2>2, <2>3 DEF Linked
<1>6. Chain(v)
  BY <1>4, <1>5 DEF Chain
<1>7. v[1] = At(1) /\ v[L] = At(L)
  BY <1>1, <1>4
<1> QED
  BY <1>1, <1>4, <1>6, <1>7 DEF PathInv

-----------------------------------------------------------------------------
(* The search for flows *)

\* What an edge hands on: the slice of the path through it, in a heap that has all there was.
LEMMA HandedOn ==
  ASSUME GraphTyped, StackInv, SlicesInv, AtEdge, NEW L, L = Len(stack), NEW p,
         p = IF Found(Edge.callee) /\ Crosses THEN Appended(Top.slice, Crossing)
             ELSE [slice |-> Top.slice, heap |-> heap]
  PROVE  /\ p.heap \in Seq(Seq(Cells)) /\ p.slice \in Slices /\ SliceIn(p.heap, p.slice)
         /\ Found(Edge.callee) => <<Edge.callee, Held(p.heap, p.slice)>> = Onward(At(L), Edge)
         /\ \A k \in 1..L : KeptIn(heap, p.heap, stack[k].slice)
         /\ \A f \in flows : KeptIn(heap, p.heap, f.crossings)
         /\ \A k \in 1..L : stack[k].slice.array = p.slice.array => stack[k].slice.len <= p.slice.len
         /\ \A f \in flows : p.slice.array # f.crossings.array
<1>1. /\ L \in 1..Len(stack) /\ L \in Nat /\ Len(heap) \in Nat
      /\ \A k \in 1..L : /\ stack[k].slice \in Slices /\ stack[k].node \in Ids
                         /\ SliceIn(heap, stack[k].slice)
  BY TopTyped DEF AtEdge, SlicesInv
<1>2. PICK s : s = stack[L].slice
  OBVIOUS
<1>3. s \in Slices /\ SliceIn(heap, s) /\ Top.slice = s /\ Top.node = stack[L].node
  BY <1>1, <1>2 DEF Top
<1>4. \A k \in 1..L : stack[k].slice.array # s.array \/ stack[k].slice.len <= s.len
  BY <1>1, <1>2 DEF SlicesInv
<1>5. \A f \in flows : f.crossings \in Slices /\ SliceIn(heap, f.crossings) /\ f.crossings.array # s.array
  BY <1>1, <1>2 DEF SlicesInv
<1>6. Edge \in Edges /\ Edge.callee \in Ids
  BY MovedTyped
<1>7. heap \in Seq(Seq(Cells))
  BY DEF SlicesInv
<1>8. At(L) = <<stack[L].node, Held(heap, s)>>
  BY <1>2 DEF At
<1>9. CASE Found(Edge.callee) /\ Crosses
  <2>1. PICK c : c = Crossing
    OBVIOUS
  <2>2. c = [from |-> stack[L].node[1], to |-> Edge.callee[1], via |-> stack[L].node[2]]
    BY <1>3, <2>1 DEF Crossing
  <2>3. c \in Crossings
    <3>1. PICK q : q = <<stack[L].node, Edge.callee>>
      OBVIOUS
    <3>2. q \in Ids \X Ids /\ q[1] = stack[L].node /\ q[2] = Edge.callee
      BY <1>1, <1>6, <3>1
    <3> QED
      BY <2>2, <3>2 DEF Crossings
  <2>4. p = Appended(s, c)
    BY <1>3, <1>9, <2>1
  <2>5. /\ p.heap \in Seq(Seq(Cells))
        /\ p.slice \in Slices
        /\ SliceIn(p.heap, p.slice)
        /\ Held(p.heap, p.slice) = Append(Held(heap, s), c)
        /\ (p.slice.array = s.array /\ p.slice.len > s.len) \/ p.slice.array = Len(heap) + 1
        /\ \A t \in Slices : SliceIn(heap, t) /\ (t.array # s.array \/ t.len <= s.len) =>
             KeptIn(heap, p.heap, t)
    BY <1>3, <1>7, <2>3, <2>4, AppendedRight
  <2>6. <<Edge.callee, Held(p.heap, p.slice)>> = Onward(At(L), Edge)
    <3>1. Edge.kind \in Leaving /\ Edge.callee[1] # stack[L].node[1]
      BY <1>3, <1>9 DEF Crosses
    <3> QED
      BY <1>8, <2>2, <2>5, <3>1 DEF Onward
  <2>7. \A k \in 1..L : KeptIn(heap, p.heap, stack[k].slice)
    BY <1>1, <1>4, <2>5
  <2>8. \A f \in flows : KeptIn(heap, p.heap, f.crossings)
    BY <1>5, <2>5
  <2>9. ASSUME NEW k \in 1..L, stack[k].slice.array = p.slice.array
        PROVE  stack[k].slice.len <= p.slice.len
    <3>1. stack[k].slice.array # Len(heap) + 1
      BY <1>1 DEF SliceIn
    <3>2. stack[k].slice.len <= s.len /\ p.slice.len > s.len
      BY <1>4, <2>5, <2>9, <3>1
    <3> QED
      BY <1>1, <1>3, <2>5, <3>2 DEF Slices
  <2>10. ASSUME NEW f \in flows
         PROVE  p.slice.array # f.crossings.array
    <3>1. f.crossings.array # Len(heap) + 1
      BY <1>1, <1>5 DEF SliceIn
    <3> QED
      BY <1>5, <2>5, <3>1
  <2> QED
    BY <2>5, <2>6, <2>7, <2>8, <2>9, <2>10
<1>10. CASE ~(Found(Edge.callee) /\ Crosses)
  <2>1. p.slice = s /\ p.heap = heap
    BY <1>3, <1>10
  <2>2. Found(Edge.callee) => <<Edge.callee, Held(heap, s)>> = Onward(At(L), Edge)
    <3> SUFFICES ASSUME Found(Edge.callee)
                 PROVE  <<Edge.callee, Held(heap, s)>> = Onward(At(L), Edge)
      OBVIOUS
    <3>1. ~(Edge.kind \in Leaving /\ Edge.callee[1] # stack[L].node[1])
      BY <1>3, <1>10 DEF Crosses
    <3> QED
      BY <1>8, <3>1 DEF Onward
  <2>3. \A t : SliceIn(heap, t) => KeptIn(heap, heap, t)
    BY DEF KeptIn
  <2>4. \A k \in 1..L : stack[k].slice.array = s.array => stack[k].slice.len <= s.len
    BY <1>4
  <2> QED
    BY <1>1, <1>3, <1>5, <1>7, <2>1, <2>2, <2>3, <2>4
<1> QED
  BY <1>9, <1>10

\* The stack after an edge: the caller a step on, and the callee if it is looked into.
LEMMA EdgeStack ==
  ASSUME GraphTyped, StackInv, AtEdge, NEW L, L = Len(stack), UNCHANGED callees,
         NEW s \in Slices,
         \/ stack' = Moved
         \/ stack' = Append(Moved, Frame(Edge.callee, s))
  PROVE  /\ StackInv'
         /\ Len(stack') = IF stack' = Moved THEN L ELSE L + 1
         /\ \A k \in 1..L : stack'[k].node = stack[k].node /\ stack'[k].slice = stack[k].slice
         /\ \A k \in 1..(L - 1) : stack'[k].next = stack[k].next
         /\ stack'[L].next = stack[L].next + 1
         /\ \A k \in 1..(L - 1) : Via(k)' = Via(k)
         /\ Via(L)' = Edge
         /\ stack' # Moved => stack'[L + 1] = Frame(Edge.callee, s)
<1>1. /\ Moved \in Seq(Visits) /\ Len(Moved) = L
      /\ \A k \in 1..L : k # L => Moved[k] = stack[k]
      /\ Moved[L] = [node |-> stack[L].node, next |-> stack[L].next + 1, slice |-> stack[L].slice]
      /\ stack[L].next \in 1..Len(callees[stack[L].node])
      /\ Edge = callees[stack[L].node][stack[L].next] /\ Edge \in Edges /\ Edge.callee \in Ids
  BY MovedTyped
<1>2. /\ L \in Nat \ {0} /\ L \in 1..L
      /\ \A k \in 1..L : /\ stack[k] \in Visits /\ stack[k].node \in Ids
                         /\ stack[k].next \in Nat \ {0} /\ stack[k].slice \in Slices
  BY TopTyped DEF AtEdge
<1>3. PICK t : t = Frame(Edge.callee, s)
  OBVIOUS
<1>4. t \in Visits /\ t.node = Edge.callee /\ t.next = 1 /\ t.slice = s
  BY <1>1, <1>3 DEF Frame, Visits
<1>5. /\ stack' \in Seq(Visits)
      /\ Len(stack') = IF stack' = Moved THEN L ELSE L + 1
      /\ \A k \in 1..L : stack'[k] = Moved[k]
      /\ stack' # Moved => stack'[L + 1] = t
  <2>1. CASE stack' = Moved
    BY <1>1, <1>2, <2>1
  <2>2. CASE stack' # Moved
    <3>1. stack' = Append(Moved, t)
      BY <1>3, <2>2
    <3>2. /\ Append(Moved, t) \in Seq(Visits) /\ Len(Append(Moved, t)) = L + 1
          /\ Append(Moved, t)[L + 1] = t
          /\ \A k \in 1..L : Append(Moved, t)[k] = Moved[k]
      BY <1>1, <1>2, <1>4
    <3> QED
      BY <2>2, <3>1, <3>2
  <2> QED
    BY <2>1, <2>2
<1>6. /\ \A k \in 1..L : stack'[k].node = stack[k].node /\ stack'[k].slice = stack[k].slice
      /\ \A k \in 1..(L - 1) : stack'[k].next = stack[k].next
      /\ stack'[L].next = stack[L].next + 1
  <2>1. ASSUME NEW k \in 1..L
        PROVE  stack'[k].node = stack[k].node /\ stack'[k].slice = stack[k].slice
    BY <1>1, <1>5
  <2>2. ASSUME NEW k \in 1..(L - 1)
        PROVE  stack'[k].next = stack[k].next
    <3>1. k \in 1..L /\ k # L
      BY <1>2
    <3> QED
      BY <1>1, <1>5, <3>1
  <2>3. stack'[L].next = stack[L].next + 1
    BY <1>1, <1>2, <1>5
  <2> QED
    BY <2>1, <2>2, <2>3
<1>7. \A k \in 1..(L - 1) : Via(k)' = Via(k)
  <2> SUFFICES ASSUME NEW k \in 1..(L - 1)
               PROVE  Via(k)' = Via(k)
    OBVIOUS
  <2>1. k \in 1..L
    BY <1>2
  <2> QED
    BY <1>6, <2>1 DEF Via
<1>8. Via(L)' = Edge
  <2>1. Via(L)' = callees[stack[L].node][(stack[L].next + 1) - 1]
    BY <1>2, <1>6 DEF Via
  <2> QED
    BY <1>1, <1>2, <2>1
<1>9. StackInv'
  <2>1. ASSUME NEW k \in 1..Len(stack')
        PROVE  stack'[k].next <= Len(callees[stack'[k].node]) + 1
    <3>1. CASE k \in 1..(L - 1)
      <4>1. k \in 1..L
        BY <1>2, <3>1
      <4>2. stack[k].next <= Len(callees[stack[k].node]) + 1
        BY <4>1 DEF StackInv
      <4> QED
        BY <1>6, <3>1, <4>1, <4>2
    <3>2. CASE k = L
      <4>1. Len(callees[stack[L].node]) \in Nat
        BY <1>2, EdgesTyped
      <4> QED
        BY <1>1, <1>2, <1>6, <3>2, <4>1
    <3>3. CASE k = L + 1
      <4>1. stack' # Moved
        BY <1>2, <1>5, <3>3
      <4>2. Len(callees[Edge.callee]) \in Nat
        BY <1>1, EdgesTyped
      <4>3. stack'[k] = t
        BY <1>5, <3>3, <4>1
      <4> QED
        BY <1>4, <4>2, <4>3
    <3> QED
      BY <1>2, <1>5, <3>1, <3>2, <3>3
  <2>2. ASSUME NEW k \in 1..Len(stack'), k < Len(stack')
        PROVE  stack'[k].next > 1 /\ stack'[k + 1].node = Via(k)'.callee
    <3>1. CASE k \in 1..(L - 1)
      <4>1. k \in 1..Len(stack) /\ k < Len(stack) /\ k + 1 \in 1..L /\ k \in 1..L
        BY <1>2, <3>1
      <4>2. stack[k].next > 1 /\ stack[k + 1].node = Via(k).callee
        BY <4>1 DEF StackInv
      <4> QED
        BY <1>6, <1>7, <3>1, <4>1, <4>2
    <3>2. CASE k = L
      <4>1. stack' # Moved
        BY <1>2, <1>5, <2>2, <3>2
      <4> QED
        BY <1>1, <1>2, <1>4, <1>5, <1>6, <1>8, <3>2, <4>1
    <3> QED
      BY <1>2, <1>5, <2>2, <3>1, <3>2
  <2> QED
    BY <1>5, <2>1, <2>2 DEF StackInv
<1> QED
  BY <1>3, <1>5, <1>6, <1>7, <1>8, <1>9

LEMMA TaintEdgeInv ==
  ASSUME GraphTyped, GraphMore, TaintInv, TaintEdge
  PROVE  TaintInv'
<1>1. UNCHANGED graphVars /\ UNCHANGED <<pending, flows>> /\ AtEdge /\ MaxDepth \in Nat
  BY DepthAssumption DEF TaintEdge
<1>2. PICK L, p : /\ L = Len(stack)
                  /\ p = IF Found(Edge.callee) /\ Crosses THEN Appended(Top.slice, Crossing)
                         ELSE [slice |-> Top.slice, heap |-> heap]
  OBVIOUS
<1>3. /\ heap' = p.heap
      /\ stack' = IF Found(Edge.callee) /\ L <= MaxDepth
                  THEN Append(Moved, Frame(Edge.callee, p.slice)) ELSE Moved
  BY <1>2 DEF TaintEdge
<1>4. StackInv /\ SlicesInv /\ PathInv /\ DeepInv /\ StartsInv /\ FlowsInv /\ PendingInv
  BY DEF TaintInv
<1>5. /\ p.heap \in Seq(Seq(Cells)) /\ p.slice \in Slices /\ SliceIn(p.heap, p.slice)
      /\ Found(Edge.callee) => <<Edge.callee, Held(p.heap, p.slice)>> = Onward(At(L), Edge)
      /\ \A k \in 1..L : KeptIn(heap, p.heap, stack[k].slice)
      /\ \A f \in flows : KeptIn(heap, p.heap, f.crossings)
      /\ \A k \in 1..L : stack[k].slice.array = p.slice.array => stack[k].slice.len <= p.slice.len
      /\ \A f \in flows : p.slice.array # f.crossings.array
  BY <1>1, <1>2, <1>4, HandedOn
<1>6. /\ StackInv'
      /\ Len(stack') = IF stack' = Moved THEN L ELSE L + 1
      /\ \A k \in 1..L : stack'[k].node = stack[k].node /\ stack'[k].slice = stack[k].slice
      /\ \A k \in 1..(L - 1) : stack'[k].next = stack[k].next
      /\ stack'[L].next = stack[L].next + 1
      /\ \A k \in 1..(L - 1) : Via(k)' = Via(k)
      /\ Via(L)' = Edge
      /\ stack' # Moved => stack'[L + 1] = Frame(Edge.callee, p.slice)
  BY <1>1, <1>2, <1>3, <1>4, <1>5, GraphFixed, EdgeStack
<1>7. L \in Nat \ {0} /\ 1 \in 1..L /\ Len(Moved) = L /\ Moved \in Seq(Visits) /\ Edge.callee \in Ids
      /\ stack # <<>> /\ stack' # <<>>
  <2>1. L \in Nat \ {0} /\ 1 \in 1..L /\ stack # <<>>
    BY <1>1, <1>2, <1>4, TopTyped DEF AtEdge
  <2>2. Len(Moved) = L /\ Moved \in Seq(Visits) /\ Edge.callee \in Ids
    BY <1>1, <1>2, <1>4, MovedTyped
  <2>3. stack' # <<>>
    BY <1>6, <2>1
  <2> QED
    BY <2>1, <2>2, <2>3
<1>8. /\ stack' # Moved => Found(Edge.callee) /\ L <= MaxDepth
      /\ stack' = Moved => ~(Found(Edge.callee) /\ L <= MaxDepth)
  <2>1. Append(Moved, Frame(Edge.callee, p.slice)) # Moved
    <3>1. Frame(Edge.callee, p.slice) \in Visits
      BY <1>5, <1>7 DEF Frame, Visits
    <3>2. Len(Append(Moved, Frame(Edge.callee, p.slice))) = L + 1
      BY <1>7, <3>1
    <3> QED
      BY <1>7, <3>2
  <2> QED
    BY <1>3, <2>1
<1>9. \A k \in 1..L : At(k)' = At(k)
  BY <1>3, <1>5, <1>6 DEF At, KeptIn
<1>10. stack' # Moved => /\ stack'[L + 1].node = Edge.callee /\ stack'[L + 1].next = 1
                         /\ stack'[L + 1].slice = p.slice
                         /\ At(L + 1)' = Onward(At(L), Edge)
  <2> SUFFICES ASSUME stack' # Moved
               PROVE  /\ stack'[L + 1].node = Edge.callee /\ stack'[L + 1].next = 1
                      /\ stack'[L + 1].slice = p.slice
                      /\ At(L + 1)' = Onward(At(L), Edge)
    OBVIOUS
  <2>1. stack'[L + 1].node = Edge.callee /\ stack'[L + 1].next = 1 /\ stack'[L + 1].slice = p.slice
    BY <1>6 DEF Frame
  <2>2. At(L + 1)' = <<Edge.callee, Held(p.heap, p.slice)>>
    BY <1>3, <2>1 DEF At
  <2> QED
    BY <1>5, <1>8, <2>1, <2>2
<1>11. \A k \in 1..Len(stack') : k \in 1..L \/ (k = L + 1 /\ stack' # Moved)
  BY <1>6, <1>7
<1>12. SlicesInv'
  <2>1. \A k \in 1..Len(stack') : SliceIn(heap', stack'[k].slice)
    BY <1>3, <1>5, <1>6, <1>10, <1>11 DEF KeptIn
  <2>2. ASSUME NEW j \in 1..Len(stack'), NEW k \in 1..Len(stack'), j <= k,
               stack'[j].slice.array = stack'[k].slice.array
        PROVE  stack'[j].slice.len <= stack'[k].slice.len
    <3>1. CASE k \in 1..L
      <4>1. j \in 1..L
        BY <1>7, <2>2, <3>1
      <4> QED
        BY <1>2, <1>4, <1>6, <2>2, <3>1, <4>1 DEF SlicesInv
    <3>2. CASE k = L + 1 /\ stack' # Moved /\ j \in 1..L
      BY <1>5, <1>6, <1>10, <2>2, <3>2
    <3>3. CASE k = L + 1 /\ stack' # Moved /\ j = L + 1
      BY <1>5, <1>10, <3>3 DEF Slices
    <3> QED
      BY <1>11, <3>1, <3>2, <3>3
  <2>3. ASSUME NEW f \in flows
        PROVE  /\ f.crossings \in Slices /\ SliceIn(heap', f.crossings)
               /\ \A k \in 1..Len(stack') : stack'[k].slice.array # f.crossings.array
    <3>1. f.crossings \in Slices /\ SliceIn(heap', f.crossings)
      BY <1>3, <1>4, <1>5 DEF SlicesInv, KeptIn
    <3>2. \A k \in 1..L : stack'[k].slice.array # f.crossings.array
      BY <1>2, <1>4, <1>6 DEF SlicesInv
    <3> QED
      BY <1>5, <1>10, <1>11, <3>1, <3>2
  <2> QED
    BY <1>1, <1>3, <1>5, <2>1, <2>2, <2>3 DEF SlicesInv
<1>13. PathInv'
  <2>1. Len(stack') <= MaxDepth + 1
    BY <1>1, <1>2, <1>4, <1>6, <1>7, <1>8 DEF PathInv
  <2>2. At(1)' \in Roots' /\ At(1)' = <<stack'[1].node, <<>>>>
    BY <1>1, <1>4, <1>6, <1>7, <1>9, GraphFixed DEF PathInv
  <2>3. ASSUME NEW k \in 1..(Len(stack') - 1), NEW e, e = Via(k)'
        PROVE  Found(e.callee)' /\ At(k + 1)' = Onward(At(k)', e)
    <3>1. CASE k \in 1..(L - 1)
      <4>1. k \in 1..L /\ k + 1 \in 1..L /\ k \in 1..(Len(stack) - 1)
        BY <1>2, <1>7, <3>1
      <4>2. Found(Via(k).callee) /\ At(k + 1) = Onward(At(k), Via(k))
        BY <1>4, <4>1 DEF PathInv
      <4>3. Via(k)' = Via(k) /\ At(k)' = At(k) /\ At(k + 1)' = At(k + 1)
        BY <1>6, <1>9, <3>1, <4>1
      <4>4. \A n : Found(n)' <=> Found(n)
        BY <1>1, GraphFixed
      <4> QED
        BY <2>3, <4>2, <4>3, <4>4
    <3>2. CASE k = L
      <4>1. stack' # Moved
        BY <1>6, <1>7, <3>2
      <4>2. Found(Edge.callee) /\ At(L + 1)' = Onward(At(L), Edge) /\ At(L)' = At(L) /\ Via(L)' = Edge
        BY <1>6, <1>7, <1>8, <1>9, <1>10, <4>1
      <4>3. \A n : Found(n)' <=> Found(n)
        BY <1>1, GraphFixed
      <4> QED
        BY <2>3, <3>2, <4>2, <4>3
    <3> QED
      BY <1>6, <1>7, <3>1, <3>2
  <2> QED
    BY <2>1, <2>2, <2>3 DEF PathInv
<1>14. \A f \in flows : Held(heap', f.crossings) = Held(heap, f.crossings)
  BY <1>3, <1>5 DEF KeptIn
<1>15. \A x, d : Searched(x, d) => Searched(x, d)'
  BY <1>1, <1>14, KeptSearched
<1>16. DeepInv'
  <2> SUFFICES ASSUME NEW k \in 1..Len(stack'), NEW j \in 1..Len(callees[stack'[k].node]),
                      NEW e, NEW x, Behind(k, j)', k <= MaxDepth,
                      e = callees[stack'[k].node][j], Found(e.callee), x = Onward(At(k)', e)
               PROVE  Searched(x, MaxDepth - k)'
    BY <1>1, GraphFixed DEF DeepInv
  <2>1. CASE k \in 1..(L - 1)
    <3>1. k \in 1..Len(stack) /\ k \in 1..L /\ k < Len(stack) /\ k < Len(stack')
      BY <1>2, <1>6, <1>7, <2>1
    <3>2. Behind(k, j)
      BY <1>6, <2>1, <3>1 DEF Behind
    <3> QED
      BY <1>4, <1>6, <1>9, <1>15, <3>1, <3>2 DEF DeepInv
  <2>2. CASE k = L
    <3>1. j # stack[L].next
      <4>1. CASE stack' # Moved
        <5>1. L < Len(stack') /\ j # (stack[L].next + 1) - 1
          BY <1>6, <1>7, <2>2, <4>1 DEF Behind
        <5> QED
          BY <1>2, <1>4, <1>7, <5>1, TopTyped
      <4>2. CASE stack' = Moved
        <5>1. ~Found(Edge.callee)
          BY <1>8, <2>2, <4>2
        <5>2. Edge = callees[stack[L].node][stack[L].next]
          BY <1>1, <1>2, <1>4, MovedTyped
        <5>3. stack'[L].node = stack[L].node
          BY <1>6, <1>7
        <5> QED
          BY <2>2, <5>1, <5>2, <5>3
      <4> QED
        BY <4>1, <4>2
    <3>2. j < stack[L].next
      <4>1. j < stack[L].next + 1
        BY <1>6, <2>2 DEF Behind
      <4>2. stack[L].next \in Nat
        BY <1>2, <1>4, <1>7, TopTyped
      <4> QED
        BY <3>1, <4>1, <4>2
    <3>3. Behind(L, j) /\ L \in 1..Len(stack)
      BY <1>2, <1>7, <3>2 DEF Behind
    <3> QED
      BY <1>4, <1>6, <1>9, <1>15, <2>2, <3>3 DEF DeepInv
  <2>3. CASE k = L + 1 /\ stack' # Moved
    BY <1>10, <2>3 DEF Behind
  <2> QED
    BY <1>7, <1>11, <2>1, <2>2, <2>3
<1>17. StartsInv'
  BY <1>1, <1>4, <1>6, <1>7, <1>15, GraphFixed, KeptWaiting DEF StartsInv
<1>18. FlowsInv'
  <2>1. ASSUME NEW f \in flows
        PROVE  FlowRight(f)'
    BY <1>1, <1>4, <1>14, KeptFlow DEF FlowsInv
  <2> QED
    BY <1>1, <2>1 DEF FlowsInv
<1>19. PendingInv'
  BY <1>1, <1>4, GraphFixed DEF PendingInv
<1> QED
  BY <1>6, <1>12, <1>13, <1>16, <1>17, <1>18, <1>19 DEF TaintInv

\* The node at the end of the path has all its edges behind it: with what it reports
\* itself, all that can be reached from it is reported.
LEMMA EndSearched ==
  ASSUME GraphTyped, StackInv, SlicesInv, PathInv, DeepInv, AtEnd, NEW L, L = Len(stack),
         UNCHANGED graphVars, flows \subseteq flows',
         \A f \in flows : Held(heap', f.crossings) = Held(heap, f.crossings),
         NEW x, x = At(L), Reported(x)'
  PROVE  Searched(x, MaxDepth - (L - 1))'
<1>1. /\ L \in 1..Len(stack) /\ L \in Nat /\ stack[L].node \in Ids /\ stack[L].slice \in Slices
      /\ stack[L].next \in Nat /\ MaxDepth \in Nat
  BY TopTyped, DepthAssumption DEF AtEnd
<1>2. L <= MaxDepth + 1 /\ MaxDepth - (L - 1) \in Nat
  BY <1>1 DEF PathInv
<1>3. x \in WalkStates /\ x[1] = stack[L].node
  <2>1. Held(heap, stack[L].slice) \in Seq(Crossings)
    BY <1>1, HeldTyped DEF SlicesInv
  <2> QED
    BY <1>1, <2>1 DEF At, WalkStates
<1>4. ASSUME MaxDepth - (L - 1) > 0, NEW u, Linked(x, u)
      PROVE  Searched(u, (MaxDepth - (L - 1)) - 1)'
  <2>1. PICK e \in EdgesOf(stack[L].node) : Found(e.callee) /\ u = Onward(x, e)
    BY <1>3, <1>4 DEF Linked
  <2>2. PICK j \in 1..Len(callees[stack[L].node]) : e = callees[stack[L].node][j]
    BY <1>1, EdgesTyped
  <2>3. Behind(L, j)
    <3>1. Len(callees[stack[L].node]) \in Nat /\ stack[L].next > Len(callees[stack[L].node])
      BY <1>1, EdgesTyped DEF AtEnd, Top
    <3> QED
      BY <1>1, <3>1 DEF Behind
  <2>4. L <= MaxDepth /\ (MaxDepth - (L - 1)) - 1 = MaxDepth - L
    BY <1>1, <1>4
  <2>5. Searched(u, MaxDepth - L)
    BY <1>1, <2>1, <2>2, <2>3, <2>4 DEF DeepInv
  <2>6. Searched(u, MaxDepth - L)'
    BY <2>5, KeptSearched
  <2> QED
    BY <2>4, <2>6
<1>5. PICK R, d : R = {w \in WalkStates : Reported(w)'} /\ d = MaxDepth - (L - 1)
  OBVIOUS
<1>6. x \in R
  BY <1>3, <1>5
<1>7. ASSUME d > 0, NEW u, Linked(x, u)
      PROVE  AllIn(R, u, d - 1)
  <2>1. Searched(u, d - 1)'
    BY <1>4, <1>5, <1>7
  <2> SUFFICES ASSUME NEW v, Chain(v), v[1] = u, Len(v) <= (d - 1) + 1
               PROVE  v[Len(v)] \in R
    BY DEF AllIn
  <2>2. PICK w : w = v[Len(v)]
    OBVIOUS
  <2>3. Reported(w)'
    BY <2>1, <2>2, GraphFixed DEF Searched
  <2>4. w \in WalkStates
    <3>1. v \in Seq(WalkStates) /\ Len(v) # 0
      BY EmptySeq DEF Chain
    <3> QED
      BY <2>2, <3>1
  <2> QED
    BY <1>5, <2>2, <2>3, <2>4
<1>8. AllIn(R, x, d)
  BY <1>2, <1>3, <1>5, <1>6, <1>7, SearchedBelow
<1>9. Searched(x, d)'
  <2> SUFFICES ASSUME NEW v, Chain(v)', v[1] = x, Len(v) <= d + 1
               PROVE  Reported(v[Len(v)])'
    BY DEF Searched
  <2>1. PICK w : w = v[Len(v)]
    OBVIOUS
  <2>2. w \in R
    BY <1>8, <2>1, GraphFixed DEF AllIn
  <2> QED
    BY <1>5, <2>1, <2>2
<1> QED
  BY <1>5, <1>9

\* What a return adds: flows with a copy of the path's crossings, for each kind of sink.
LEMMA ReturnFlows ==
  ASSUME StackInv, SlicesInv, AtEnd, NEW L, L = Len(stack), UNCHANGED graphVars,
         LET sinks == {SinkOf(u.kind) : u \in {v \in unresolved : v.caller = Top.node}} IN
           IF Top.slice.len = 0 \/ sinks = {}
           THEN UNCHANGED <<flows, heap>>
           ELSE /\ flows' = flows \cup {[sink |-> Top.node, kind |-> k,
                                         crossings |-> Copied(Top.slice).slice] : k \in sinks}
                /\ heap' = Copied(Top.slice).heap
  PROVE  /\ heap' \in Seq(Seq(Cells)) /\ flows \subseteq flows'
         /\ \A t \in Slices : SliceIn(heap, t) => KeptIn(heap, heap', t)
         /\ \A f \in flows' : f \notin flows =>
              /\ f.crossings \in Slices /\ SliceIn(heap', f.crossings)
              /\ f.crossings.array = Len(heap) + 1
              /\ <<f.sink, Held(heap', f.crossings)>> = At(L)
              /\ Held(heap', f.crossings) # <<>>
              /\ \E u \in unresolved : u.caller = f.sink /\ f.kind = SinkOf(u.kind)
         /\ \A x : x = At(L) => Reported(x)'
<1>1. L \in 1..Len(stack) /\ stack[L].slice \in Slices /\ heap \in Seq(Seq(Cells)) /\ SliceIn(heap, stack[L].slice)
  BY TopTyped DEF AtEnd, SlicesInv
<1>2. PICK s, n : s = Top.slice /\ n = Top.node
  OBVIOUS
<1>3. s \in Slices /\ SliceIn(heap, s) /\ At(L) = <<n, Held(heap, s)>>
  BY <1>1, <1>2 DEF Top, At
<1>4. PICK sinks : sinks = {SinkOf(u.kind) : u \in {v \in unresolved : v.caller = n}}
  OBVIOUS
<1>5. Held(heap, s) # <<>> <=> s.len # 0
  BY <1>3, HeldTyped
<1>6. CASE s.len = 0 \/ sinks = {}
  <2>1. flows' = flows /\ heap' = heap
    BY <1>2, <1>4, <1>6
  <2>2. ASSUME NEW x, x = At(L)
        PROVE  Reported(x)'
    <3>1. x[2] # <<>> => ~\E u \in unresolved : u.caller = x[1]
      BY <1>3, <1>4, <1>5, <1>6, <2>2
    <3> QED
      BY <3>1, GraphFixed DEF Reported
  <2>3. \A t : SliceIn(heap, t) => KeptIn(heap, heap, t)
    BY DEF KeptIn
  <2> QED
    BY <1>1, <2>1, <2>2, <2>3
<1>7. CASE ~(s.len = 0 \/ sinks = {})
  <2>1. PICK c : c = Copied(s)
    OBVIOUS
  <2>2. flows' = flows \cup {[sink |-> n, kind |-> k, crossings |-> c.slice] : k \in sinks} /\ heap' = c.heap
    BY <1>2, <1>4, <1>7, <2>1
  <2>3. /\ c.heap \in Seq(Seq(Cells)) /\ c.slice \in Slices /\ SliceIn(c.heap, c.slice)
        /\ Held(c.heap, c.slice) = Held(heap, s) /\ c.slice.array = Len(heap) + 1
        /\ \A t \in Slices : SliceIn(heap, t) => KeptIn(heap, c.heap, t)
    BY <1>1, <1>3, <1>7, <2>1, CopiedRight
  <2>4. ASSUME NEW f \in flows', f \notin flows
        PROVE  /\ f.crossings \in Slices /\ SliceIn(heap', f.crossings)
               /\ f.crossings.array = Len(heap) + 1
               /\ <<f.sink, Held(heap', f.crossings)>> = At(L)
               /\ Held(heap', f.crossings) # <<>>
               /\ \E u \in unresolved : u.caller = f.sink /\ f.kind = SinkOf(u.kind)
    <3>1. PICK k \in sinks : f = [sink |-> n, kind |-> k, crossings |-> c.slice]
      BY <2>2, <2>4
    <3>2. PICK u \in unresolved : u.caller = n /\ k = SinkOf(u.kind)
      BY <1>4, <3>1
    <3> QED
      BY <1>3, <1>5, <1>7, <2>2, <2>3, <3>1, <3>2
  <2>5. ASSUME NEW x, x = At(L)
        PROVE  Reported(x)'
    <3> SUFFICES ASSUME NEW u \in unresolved, u.caller = n
                 PROVE  \E f \in flows' : /\ f.sink = n /\ f.kind = SinkOf(u.kind)
                                          /\ Held(heap', f.crossings) = Held(heap, s)
      BY <1>3, <2>5, GraphFixed DEF Reported
    <3>1. PICK f : f = [sink |-> n, kind |-> SinkOf(u.kind), crossings |-> c.slice]
      OBVIOUS
    <3>2. SinkOf(u.kind) \in sinks
      BY <1>4
    <3>3. f \in flows'
      BY <2>2, <3>1, <3>2
    <3> QED
      BY <2>2, <2>3, <3>1, <3>3
  <2> QED
    BY <2>2, <2>3, <2>4, <2>5
<1> QED
  BY <1>6, <1>7

\* The stack after a return
LEMMA PoppedStack ==
  ASSUME StackInv, stack # <<>>, NEW L, L = Len(stack), UNCHANGED callees, stack' = Popped
  PROVE  /\ StackInv' /\ Len(stack') = L - 1
         /\ \A k \in 1..(L - 1) : stack'[k] = stack[k] /\ k \in 1..Len(stack) /\ Via(k)' = Via(k)
         /\ stack' = <<>> <=> L = 1
<1>1. /\ Popped \in Seq(Visits) /\ Len(Popped) = L - 1
      /\ \A k \in 1..(L - 1) : Popped[k] = stack[k]
      /\ Popped = <<>> <=> L = 1
  BY PoppedTyped
<1>2. L \in Nat \ {0}
  BY TopTyped
<1>3. \A k \in 1..(L - 1) : stack'[k] = stack[k] /\ k \in 1..Len(stack) /\ Via(k)' = Via(k)
  BY <1>1, <1>2 DEF Via
<1>4. ASSUME NEW k \in 1..(L - 1)
      PROVE  /\ stack[k].next <= Len(callees[stack[k].node]) + 1
             /\ stack[k].next > 1 /\ stack[k + 1].node = Via(k).callee
  BY <1>2 DEF StackInv
<1>5. StackInv'
  <2>1. ASSUME NEW k \in 1..Len(stack')
        PROVE  /\ stack'[k].next <= Len(callees'[stack'[k].node]) + 1
               /\ k < Len(stack') => stack'[k].next > 1 /\ stack'[k + 1].node = Via(k)'.callee
    <3>1. k \in 1..(L - 1) /\ (k < Len(stack') => k + 1 \in 1..(L - 1))
      BY <1>1, <1>2
    <3> QED
      BY <1>1, <1>3, <1>4, <3>1
  <2> QED
    BY <1>1, <2>1 DEF StackInv
<1> QED
  BY <1>1, <1>3, <1>5

LEMMA TaintReturnInv ==
  ASSUME GraphTyped, GraphMore, TaintInv, TaintReturn
  PROVE  TaintInv'
<1>1. UNCHANGED graphVars /\ UNCHANGED pending /\ AtEnd /\ stack # <<>> /\ stack' = Popped /\ MaxDepth \in Nat
  BY DepthAssumption DEF TaintReturn, AtEnd
<1>2. StackInv /\ SlicesInv /\ PathInv /\ DeepInv /\ StartsInv /\ FlowsInv /\ PendingInv
  BY DEF TaintInv
<1>3. PICK L : L = Len(stack)
  OBVIOUS
<1>4. /\ heap' \in Seq(Seq(Cells)) /\ flows \subseteq flows'
      /\ \A t \in Slices : SliceIn(heap, t) => KeptIn(heap, heap', t)
      /\ \A f \in flows' : f \notin flows =>
           /\ f.crossings \in Slices /\ SliceIn(heap', f.crossings)
           /\ f.crossings.array = Len(heap) + 1
           /\ <<f.sink, Held(heap', f.crossings)>> = At(L)
           /\ Held(heap', f.crossings) # <<>>
           /\ \E u \in unresolved : u.caller = f.sink /\ f.kind = SinkOf(u.kind)
      /\ \A x : x = At(L) => Reported(x)'
  BY <1>1, <1>2, <1>3, ReturnFlows DEF TaintReturn
<1>5. /\ StackInv' /\ Len(stack') = L - 1
      /\ \A k \in 1..(L - 1) : stack'[k] = stack[k] /\ k \in 1..Len(stack) /\ Via(k)' = Via(k)
      /\ stack' = <<>> <=> L = 1
  BY <1>1, <1>2, <1>3, GraphFixed, PoppedStack
<1>6. L \in Nat \ {0} /\ L \in 1..Len(stack) /\ Len(heap) \in Nat
  BY <1>1, <1>2, <1>3, TopTyped DEF SlicesInv
<1>7. \A k \in 1..(L - 1) : At(k)' = At(k) /\ stack[k].slice \in Slices /\ SliceIn(heap, stack[k].slice)
  <2> SUFFICES ASSUME NEW k \in 1..(L - 1)
               PROVE  At(k)' = At(k) /\ stack[k].slice \in Slices /\ SliceIn(heap, stack[k].slice)
    OBVIOUS
  <2>1. k \in 1..Len(stack) /\ stack'[k] = stack[k]
    BY <1>5
  <2>2. stack[k].slice \in Slices /\ SliceIn(heap, stack[k].slice)
    BY <1>1, <1>2, <2>1, TopTyped DEF SlicesInv
  <2>3. Held(heap', stack[k].slice) = Held(heap, stack[k].slice)
    BY <1>4, <2>2 DEF KeptIn
  <2> QED
    BY <2>1, <2>2, <2>3 DEF At
<1>8. \A f \in flows : f.crossings \in Slices /\ SliceIn(heap, f.crossings)
  BY <1>2 DEF SlicesInv
<1>9. \A f \in flows : Held(heap', f.crossings) = Held(heap, f.crossings)
  BY <1>4, <1>8 DEF KeptIn
<1>10. \A x, d : Searched(x, d) => Searched(x, d)'
  BY <1>1, <1>4, <1>9, KeptSearched
<1>11. \A x : x = At(L) => Searched(x, MaxDepth - (L - 1))'
  BY <1>1, <1>2, <1>3, <1>4, <1>9, EndSearched
<1>12. SlicesInv'
  <2>1. \A k \in 1..Len(stack') : SliceIn(heap', stack'[k].slice)
    BY <1>4, <1>5, <1>7 DEF KeptIn
  <2>2. \A j, k \in 1..Len(stack') :
          j <= k /\ stack'[j].slice.array = stack'[k].slice.array => stack'[j].slice.len <= stack'[k].slice.len
    BY <1>2, <1>5 DEF SlicesInv
  <2>3. ASSUME NEW f \in flows'
        PROVE  /\ f.crossings \in Slices /\ SliceIn(heap', f.crossings)
               /\ \A k \in 1..Len(stack') : stack'[k].slice.array # f.crossings.array
    <3>1. CASE f \in flows
      <4>1. \A k \in 1..(L - 1) : stack[k].slice.array # f.crossings.array
        BY <1>2, <1>5, <3>1 DEF SlicesInv
      <4> QED
        BY <1>4, <1>5, <1>8, <3>1, <4>1 DEF KeptIn
    <3>2. CASE f \notin flows
      <4>1. \A k \in 1..(L - 1) : stack[k].slice.array # Len(heap) + 1
        BY <1>6, <1>7 DEF SliceIn
      <4> QED
        BY <1>4, <1>5, <3>2, <4>1
    <3> QED
      BY <3>1, <3>2
  <2> QED
    BY <1>4, <2>1, <2>2, <2>3 DEF SlicesInv
<1>13. PathInv'
  <2>1. Len(stack') <= MaxDepth + 1
    BY <1>1, <1>2, <1>3, <1>5, <1>6 DEF PathInv
  <2>2. stack' # <<>> => At(1)' \in Roots' /\ At(1)' = <<stack'[1].node, <<>>>>
    <3>1. L # 1 => 1 \in 1..(L - 1)
      BY <1>6
    <3> QED
      BY <1>1, <1>2, <1>5, <1>7, <3>1, GraphFixed DEF PathInv
  <2>3. ASSUME NEW k \in 1..(Len(stack') - 1), NEW e, e = Via(k)'
        PROVE  Found(e.callee)' /\ At(k + 1)' = Onward(At(k)', e)
    <3>1. k \in 1..(L - 1) /\ k + 1 \in 1..(L - 1) /\ k \in 1..(Len(stack) - 1)
      BY <1>3, <1>5, <1>6
    <3>2. e = Via(k)
      BY <1>5, <2>3, <3>1
    <3>3. Found(e.callee) /\ At(k + 1) = Onward(At(k), e)
      BY <1>2, <3>1, <3>2 DEF PathInv
    <3> QED
      BY <1>1, <1>7, <3>1, <3>3, GraphFixed
  <2> QED
    BY <2>1, <2>2, <2>3 DEF PathInv
<1>14. DeepInv'
  <2> SUFFICES ASSUME NEW k \in 1..Len(stack'), NEW j \in 1..Len(callees[stack'[k].node]),
                      NEW e, NEW x, Behind(k, j)', k <= MaxDepth,
                      e = callees[stack'[k].node][j], Found(e.callee), x = Onward(At(k)', e)
               PROVE  Searched(x, MaxDepth - k)'
    BY <1>1, GraphFixed DEF DeepInv
  <2>1. k \in 1..(L - 1) /\ k \in 1..Len(stack) /\ k < Len(stack) /\ stack'[k] = stack[k] /\ At(k)' = At(k)
    BY <1>3, <1>5, <1>6, <1>7
  <2>2. CASE j # stack[k].next - 1
    <3>1. Behind(k, j)
      BY <2>1, <2>2 DEF Behind
    <3>2. Searched(x, MaxDepth - k)
      BY <1>2, <2>1, <3>1 DEF DeepInv
    <3> QED
      BY <1>10, <3>2
  <2>3. CASE j = stack[k].next - 1
    <3>1. k = L - 1
      <4>1. ~(k < Len(stack'))
        BY <2>1, <2>3 DEF Behind
      <4> QED
        BY <1>5, <1>6, <2>1, <4>1
    <3>2. e = Via(k) /\ k \in 1..(Len(stack) - 1)
      BY <1>3, <1>6, <2>1, <2>3, <3>1 DEF Via
    <3>3. x = At(k + 1) /\ k + 1 = L /\ MaxDepth - (L - 1) = MaxDepth - k
      BY <1>1, <1>2, <1>6, <2>1, <3>1, <3>2 DEF PathInv
    <3> QED
      BY <1>11, <3>3
  <2> QED
    BY <2>2, <2>3
<1>15. StartsInv'
  <2> SUFFICES ASSUME NEW n \in LiveEntries, Found(n)
               PROVE  \/ Searched(<<n, <<>>>>, MaxDepth)'
                      \/ stack' # <<>> /\ stack'[1].node = n
                      \/ Waiting(n)
    BY <1>1, GraphFixed, KeptWaiting DEF StartsInv
  <2>1. PICK x : x = <<n, <<>>>>
    OBVIOUS
  <2>2. CASE Searched(x, MaxDepth)
    BY <1>10, <2>1, <2>2
  <2>3. CASE stack[1].node = n
    <3>1. CASE L = 1
      <4>1. x = At(L) /\ MaxDepth - (L - 1) = MaxDepth
        BY <1>1, <1>2, <2>1, <2>3, <3>1 DEF PathInv
      <4>2. Searched(x, MaxDepth)'
        BY <1>11, <4>1
      <4> QED
        BY <2>1, <4>2
    <3>2. CASE L # 1
      <4>1. 1 \in 1..(L - 1)
        BY <1>6, <3>2
      <4> QED
        BY <1>5, <2>3, <3>2, <4>1
    <3> QED
      BY <3>1, <3>2
  <2> QED
    BY <1>2, <2>1, <2>2, <2>3 DEF StartsInv
<1>16. FlowsInv'
  <2> SUFFICES ASSUME NEW f \in flows'
               PROVE  FlowRight(f)'
    BY DEF FlowsInv
  <2>1. CASE f \in flows
    BY <1>1, <1>2, <1>9, <2>1, KeptFlow DEF FlowsInv
  <2>2. CASE f \notin flows
    <3>1. PICK v : Chain(v) /\ v[1] \in Roots /\ Len(v) = L /\ v[L] = At(L)
      BY <1>2, <1>3, <1>6, PathIsChain
    <3>2. L <= MaxDepth + 1
      BY <1>2, <1>3 DEF PathInv
    <3>3. Chain(v)' /\ Roots' = Roots /\ unresolved' = unresolved
      BY <1>1, <3>1, GraphFixed
    <3> QED
      BY <1>4, <2>2, <3>1, <3>2, <3>3 DEF FlowRight
  <2> QED
    BY <2>1, <2>2
<1>17. PendingInv'
  BY <1>1, <1>2, GraphFixed DEF PendingInv
<1> QED
  BY <1>5, <1>12, <1>13, <1>14, <1>15, <1>16, <1>17 DEF TaintInv

\* The entry point at the head of those still to be started from
LEMMA HeadPending ==
  ASSUME GraphMore, PendingInv, pending # <<>>
  PROVE  /\ Head(pending) \in {entries[k] : k \in 1..Len(entries)}
         /\ Id(Head(pending)) \in Ids
         /\ Live(Head(pending)) => Id(Head(pending)) \in LiveEntries
         /\ Tail(pending) \in Seq({entries[k] : k \in 1..Len(entries)})
         /\ \A n : Waiting(n) =>
              \/ Live(Head(pending)) /\ Id(Head(pending)) = n
              \/ \E k \in 1..Len(Tail(pending)) : Live(Tail(pending)[k]) /\ Id(Tail(pending)[k]) = n
<1>1. PICK E : E = {entries[k] : k \in 1..Len(entries)}
  OBVIOUS
<1>2. pending \in Seq(E) /\ Len(pending) \in Nat /\ Len(pending) # 0
  BY <1>1, EmptySeq DEF PendingInv
<1>3. /\ Head(pending) = pending[1] /\ pending[1] \in E
      /\ Tail(pending) \in Seq(E) /\ Len(Tail(pending)) = Len(pending) - 1
      /\ \A k \in 1..Len(Tail(pending)) : Tail(pending)[k] = pending[k + 1]
  BY <1>2
<1>4. PICK k \in 1..Len(entries) : Head(pending) = entries[k]
  BY <1>1, <1>3
<1>5. Id(Head(pending)) \in Ids
  BY <1>4 DEF GraphMore, Nodes
<1>6. Live(Head(pending)) => Id(Head(pending)) \in LiveEntries
  BY <1>4 DEF LiveEntries
<1>7. ASSUME NEW n, Waiting(n)
      PROVE  \/ Live(Head(pending)) /\ Id(Head(pending)) = n
             \/ \E i \in 1..Len(Tail(pending)) : Live(Tail(pending)[i]) /\ Id(Tail(pending)[i]) = n
  <2>1. PICK i \in 1..Len(pending) : Live(pending[i]) /\ Id(pending[i]) = n
    BY <1>7 DEF Waiting
  <2>2. CASE i = 1
    BY <1>3, <2>1, <2>2
  <2>3. CASE i # 1
    <3>1. i - 1 \in 1..Len(Tail(pending)) /\ (i - 1) + 1 = i
      BY <1>2, <1>3, <2>3
    <3>2. Tail(pending)[i - 1] = pending[i]
      BY <1>3, <3>1
    <3> QED
      BY <2>1, <3>1, <3>2
  <2> QED
    BY <2>2, <2>3
<1> QED
  BY <1>1, <1>3, <1>5, <1>6, <1>7

\* What is still to be started from after the head is taken
LEMMA TakenPending ==
  ASSUME GraphMore, PendingInv, pending # <<>>, UNCHANGED graphVars, pending' = Tail(pending)
  PROVE  /\ PendingInv'
         /\ \A n : Waiting(n) => Waiting(n)' \/ (Live(Head(pending)) /\ Id(Head(pending)) = n)
<1>1. PendingInv'
  BY HeadPending, GraphFixed DEF PendingInv
<1>2. ASSUME NEW n, Waiting(n), ~(Live(Head(pending)) /\ Id(Head(pending)) = n)
      PROVE  Waiting(n)'
  BY <1>2, HeadPending, GraphFixed DEF Waiting
<1> QED
  BY <1>1, <1>2

\* The stack of a search that starts, or of one that does not
LEMMA EntryStack ==
  ASSUME GraphTyped, NEW n \in Ids, UNCHANGED callees, stack' = <<Frame(n, NilSlice)>> \/ stack' = <<>>
  PROVE  /\ StackInv' /\ (Len(stack') = 0 \/ Len(stack') = 1)
         /\ Len(stack') = 0 => stack' = <<>>
         /\ stack' # <<>> => Len(stack') = 1 /\ stack'[1].node = n /\ stack'[1].next = 1 /\ stack'[1].slice = NilSlice
<1>1. PICK t : t = Frame(n, NilSlice)
  OBVIOUS
<1>2. t \in Visits /\ t.node = n /\ t.next = 1 /\ t.slice = NilSlice
  BY <1>1 DEF Frame, Visits, Slices, NilSlice
<1>3. Len(callees[n]) \in Nat
  BY EdgesTyped
<1>4. CASE stack' = <<>>
  BY <1>4 DEF StackInv
<1>5. CASE stack' = <<t>>
  <2>1. stack' \in Seq(Visits) /\ Len(stack') = 1 /\ stack'[1] = t /\ stack' # <<>>
    BY <1>2, <1>5
  <2>2. \A k \in 1..Len(stack') : k = 1
    BY <2>1
  <2>3. StackInv'
    BY <1>2, <1>3, <2>1, <2>2 DEF StackInv
  <2> QED
    BY <1>2, <2>1, <2>3
<1> QED
  BY <1>1, <1>4, <1>5

LEMMA TaintEntryInv ==
  ASSUME GraphTyped, GraphMore, TaintInv, TaintEntry
  PROVE  TaintInv'
<1>1. UNCHANGED graphVars /\ UNCHANGED <<heap, flows>> /\ stack = <<>> /\ pending # <<>>
      /\ pending' = Tail(pending) /\ MaxDepth \in Nat
  BY DepthAssumption DEF TaintEntry
<1>2. StackInv /\ SlicesInv /\ PathInv /\ DeepInv /\ StartsInv /\ FlowsInv /\ PendingInv
  BY DEF TaintInv
<1>3. PICK p, n : p = Head(pending) /\ n = Id(Head(pending))
  OBVIOUS
<1>4. stack' = IF Live(p) /\ Found(n) THEN <<Frame(n, NilSlice)>> ELSE <<>>
  BY <1>3 DEF TaintEntry
<1>5. n \in Ids /\ (Live(p) => n \in LiveEntries)
  BY <1>1, <1>2, <1>3, HeadPending
<1>6. /\ StackInv' /\ (Len(stack') = 0 \/ Len(stack') = 1)
      /\ Len(stack') = 0 => stack' = <<>>
      /\ stack' # <<>> => Len(stack') = 1 /\ stack'[1].node = n /\ stack'[1].next = 1 /\ stack'[1].slice = NilSlice
  BY <1>1, <1>4, <1>5, GraphFixed, EntryStack
<1>7. stack' # <<>> => Live(p) /\ Found(n)
  BY <1>4
<1>8. Live(p) /\ Found(n) => stack' # <<>>
  <2>1. <<Frame(n, NilSlice)>> # <<>>
    OBVIOUS
  <2> QED
    BY <1>4, <2>1
<1>9. \A k \in 1..Len(stack') : k = 1 /\ stack' # <<>>
  <2>1. CASE Len(stack') = 0
    BY <2>1
  <2>2. CASE Len(stack') = 1
    <3>1. stack' # <<>>
      BY <2>2
    <3> QED
      BY <2>2, <3>1
  <2> QED
    BY <1>6, <2>1, <2>2
<1>10. stack' # <<>> => At(1)' = <<n, <<>>>>
  <2>1. Held(heap, NilSlice) = <<>>
    BY DEF Held, NilSlice
  <2> QED
    BY <1>1, <1>6, <2>1 DEF At
<1>11. SlicesInv'
  <2>1. SliceIn(heap, NilSlice) /\ NilSlice.array = 0 /\ NilSlice.len = 0
    BY DEF SliceIn, NilSlice
  <2>2. ASSUME NEW f \in flows
        PROVE  f.crossings.array # 0
    <3>1. SliceIn(heap, f.crossings) /\ f.crossings \in Slices
      BY <1>2 DEF SlicesInv
    <3>2. FlowRight(f)
      BY <1>2 DEF FlowsInv
    <3>3. f.crossings.len # 0
      BY <3>1, <3>2, HeldTyped DEF FlowRight
    <3> QED
      BY <3>1, <3>3 DEF SliceIn
  <2>3. \A k \in 1..Len(stack') : stack'[k].slice = NilSlice
    BY <1>6, <1>9
  <2> QED
    BY <1>1, <1>2, <2>1, <2>2, <2>3 DEF SlicesInv
<1>12. PathInv'
  <2>1. Len(stack') <= MaxDepth + 1
    <3>1. CASE Len(stack') = 0
      BY ONLY <1>1, <3>1, SMT
    <3>2. CASE Len(stack') = 1
      BY ONLY <1>1, <3>2, SMT
    <3> QED
      BY <1>6, <3>1, <3>2
  <2>2. stack' # <<>> => At(1)' \in Roots' /\ At(1)' = <<stack'[1].node, <<>>>>
    BY <1>1, <1>5, <1>6, <1>7, <1>10, GraphFixed DEF Roots
  <2>3. ~\E k : k \in 1..(Len(stack') - 1)
    <3>1. CASE Len(stack') = 0
      BY ONLY <3>1, SMT
    <3>2. CASE Len(stack') = 1
      BY ONLY <3>2, SMT
    <3> QED
      BY <1>6, <3>1, <3>2
  <2> QED
    BY <2>1, <2>2, <2>3 DEF PathInv
<1>13. DeepInv'
  <2>1. \A k \in 1..Len(stack') : stack'[k].next = 1
    BY <1>6, <1>9
  <2>2. ASSUME NEW k \in 1..Len(stack'), NEW j \in Nat \ {0}
        PROVE  ~Behind(k, j)'
    BY <2>1 DEF Behind
  <2>3. \A k \in 1..Len(stack') : \A j \in 1..Len(callees'[stack'[k].node]) : j \in Nat \ {0}
    <3>1. \A k \in 1..Len(stack') : Len(callees'[stack'[k].node]) \in Nat
      BY <1>1, <1>5, <1>6, <1>9, EdgesTyped, GraphFixed
    <3> QED
      BY <3>1
  <2> QED
    BY <2>2, <2>3 DEF DeepInv
<1>14. \A x, d : Searched(x, d) => Searched(x, d)'
  BY <1>1, KeptSearched
<1>15. StartsInv'
  <2> SUFFICES ASSUME NEW m \in LiveEntries, Found(m)
               PROVE  \/ Searched(<<m, <<>>>>, MaxDepth)'
                      \/ stack' # <<>> /\ stack'[1].node = m
                      \/ Waiting(m)'
    BY <1>1, GraphFixed DEF StartsInv
  <2>1. Searched(<<m, <<>>>>, MaxDepth) \/ Waiting(m)
    BY <1>1, <1>2 DEF StartsInv
  <2>2. Waiting(m) => Waiting(m)' \/ (Live(p) /\ n = m)
    BY <1>1, <1>2, <1>3, TakenPending
  <2> QED
    BY <1>6, <1>8, <1>14, <2>1, <2>2
<1>16. FlowsInv'
  <2>1. ASSUME NEW f \in flows
        PROVE  FlowRight(f)'
    BY <1>1, <1>2, KeptFlow DEF FlowsInv
  <2> QED
    BY <1>1, <2>1 DEF FlowsInv
<1>17. PendingInv'
  BY <1>1, <1>2, TakenPending
<1> QED
  BY <1>6, <1>11, <1>12, <1>13, <1>15, <1>16, <1>17 DEF TaintInv

LEMMA GraphReadyInv ==
  ASSUME GraphTyped, GraphMore, stack = <<>>, heap = <<>>, flows = {}, GraphReady
  PROVE  TaintInv'
<1>1. UNCHANGED graphVars /\ stack' = <<>> /\ heap' = <<>> /\ flows' = {} /\ pending' = entries /\ MaxDepth \in Nat
  BY DepthAssumption DEF GraphReady
<1>2. stack' \in Seq(Visits) /\ Len(stack') = 0 /\ heap' \in Seq(Seq(Cells))
  BY <1>1
<1>3. StackInv' /\ SlicesInv' /\ PathInv' /\ DeepInv' /\ FlowsInv'
  BY <1>1, <1>2 DEF StackInv, SlicesInv, PathInv, DeepInv, FlowsInv
<1>4. PendingInv'
  <2>1. entries \in Seq({entries[k] : k \in 1..Len(entries)})
    BY DEF GraphMore
  <2> QED
    BY <1>1, <2>1, GraphFixed DEF PendingInv
<1>5. StartsInv'
  <2>1. \A n \in LiveEntries : Waiting(n)'
    BY <1>1, GraphFixed DEF LiveEntries, Waiting
  <2> QED
    BY <1>1, <2>1, GraphFixed DEF StartsInv
<1> QED
  BY <1>3, <1>4, <1>5 DEF TaintInv

-----------------------------------------------------------------------------
(* The flows when the search has ended *)

FlowsDone ==
  /\ \A f \in flows : f.crossings \in Slices /\ SliceIn(heap, f.crossings) /\ FlowRight(f)
  /\ \A n \in LiveEntries : Found(n) => Searched(<<n, <<>>>>, MaxDepth)

LEMMA TaintIsDone ==
  ASSUME TaintInv, stack = <<>>, pending = <<>>
  PROVE  FlowsDone
<1>1. \A n : ~Waiting(n)
  BY DEF Waiting
<1> QED
  BY <1>1 DEF TaintInv, FlowsDone, FlowsInv, SlicesInv, StartsInv

LEMMA FlowsStay ==
  ASSUME FlowsDone, UNCHANGED graphVars, UNCHANGED <<heap, flows>>
  PROVE  FlowsDone'
<1>1. \A x, d : Searched(x, d) => Searched(x, d)'
  BY KeptSearched
<1>2. \A f : FlowRight(f) => FlowRight(f)'
  BY KeptFlow
<1> QED
  BY <1>1, <1>2, GraphFixed DEF FlowsDone

LEMMA FlowsFromDone ==
  ASSUME GraphTyped, GraphMore, FlowsDone
  PROVE  FlowsExact
<1> DEFINE Have == {[sink |-> f.sink, kind |-> f.kind, crossings |-> Contents(f.crossings)] : f \in flows}
           Due  == UNION {{[sink |-> w[1], kind |-> SinkOf(u.kind), crossings |-> w[2]] :
                             u \in {v \in unresolved : v.caller = w[1]}} :
                          w \in {x \in Walks : x[2] # <<>>}}
<1>1. MaxDepth \in Nat /\ Walks = UNION {WalkedTo(k) : k \in 0..MaxDepth}
  BY WalksAre, DepthAssumption
<1>2. \A s : Contents(s) = Held(heap, s)
  BY DEF Contents, Held
<1>3. ASSUME NEW f \in flows
      PROVE  [sink |-> f.sink, kind |-> f.kind, crossings |-> Contents(f.crossings)] \in Due
  <2>1. FlowRight(f)
    BY DEF FlowsDone
  <2>2. PICK v : Chain(v) /\ v[1] \in Roots /\ Len(v) <= MaxDepth + 1 /\ v[Len(v)] = <<f.sink, Held(heap, f.crossings)>>
    BY <2>1 DEF FlowRight
  <2>3. PICK w : w = <<f.sink, Held(heap, f.crossings)>>
    OBVIOUS
  <2>4. v \in Seq(WalkStates) /\ Len(v) \in Nat \ {0}
    <3>1. v \in Seq(WalkStates) /\ v # <<>>
      BY <2>2 DEF Chain
    <3> QED
      BY <3>1, EmptySeq
  <2>5. w \in WalkStates /\ Len(v) - 1 \in 0..MaxDepth /\ (Len(v) - 1) + 1 = Len(v)
    BY <1>1, <2>2, <2>3, <2>4
  <2>6. w \in WalkedTo(Len(v) - 1)
    BY <2>2, <2>3, <2>5 DEF WalkedTo
  <2>7. w \in Walks /\ w[1] = f.sink /\ w[2] = Held(heap, f.crossings) /\ w[2] # <<>>
    BY <1>1, <2>1, <2>3, <2>5, <2>6 DEF FlowRight
  <2>8. PICK u \in unresolved : u.caller = f.sink /\ f.kind = SinkOf(u.kind)
    BY <2>1 DEF FlowRight
  <2> QED
    BY <1>2, <2>7, <2>8
<1>4. ASSUME NEW w \in Walks, w[2] # <<>>, NEW u \in unresolved, u.caller = w[1]
      PROVE  [sink |-> w[1], kind |-> SinkOf(u.kind), crossings |-> w[2]] \in Have
  <2>1. PICK k \in 0..MaxDepth : w \in WalkedTo(k)
    BY <1>1
  <2>2. PICK v : Chain(v) /\ v[1] \in Roots /\ Len(v) = k + 1 /\ v[k + 1] = w
    BY <2>1 DEF WalkedTo
  <2>3. PICK n \in LiveEntries : Found(n) /\ v[1] = <<n, <<>>>>
    BY <2>2 DEF Roots
  <2>4. Searched(<<n, <<>>>>, MaxDepth) /\ Len(v) <= MaxDepth + 1
    BY <1>1, <2>2, <2>3 DEF FlowsDone
  <2>5. Reported(w)
    BY <2>2, <2>3, <2>4 DEF Searched
  <2>6. PICK f \in flows : f.sink = w[1] /\ f.kind = SinkOf(u.kind) /\ Held(heap, f.crossings) = w[2]
    BY <1>4, <2>5 DEF Reported
  <2> QED
    BY <1>2, <2>6
<1>5. Have = Due
  <2>1. ASSUME NEW x \in Have PROVE x \in Due
    <3>1. PICK f \in flows : x = [sink |-> f.sink, kind |-> f.kind, crossings |-> Contents(f.crossings)]
      OBVIOUS
    <3> HIDE DEF Have, Due
    <3> QED
      BY <1>3, <3>1
  <2>2. ASSUME NEW x \in Due PROVE x \in Have
    <3>1. PICK w \in {y \in Walks : y[2] # <<>>} :
            x \in {[sink |-> w[1], kind |-> SinkOf(u.kind), crossings |-> w[2]] :
                    u \in {v \in unresolved : v.caller = w[1]}}
      OBVIOUS
    <3>2. PICK u \in unresolved : u.caller = w[1] /\ x = [sink |-> w[1], kind |-> SinkOf(u.kind), crossings |-> w[2]]
      BY <3>1
    <3> HIDE DEF Have, Due
    <3> QED
      BY <1>4, <3>1, <3>2
  <2> HIDE DEF Have, Due
  <2> QED
    BY <2>1, <2>2
<1> QED
  BY <1>5 DEF FlowsExact

-----------------------------------------------------------------------------
(* The search for cycles *)

\* The k-th node of w is in the contract of the one before, or is one w has been at, the
\* first left aside.
Back(w, k) == w[k][1] = w[k - 1][1] \/ \E i \in 2..(k - 1) : w[i] = w[k]

\* A path of k nodes from n along external calls that did not come back before its last
OutPath(n, k, w) ==
  /\ w \in Seq(Ids) /\ Len(w) = k /\ w[1] = n
  /\ \A i \in 1..(k - 1) : CallsOut(w[i], w[i + 1])
  /\ \A i \in 2..(k - 1) : ~Back(w, i)

\* ... and comes back then
Returning(n, w) == Len(w) \in 2..(MaxCycleDepth + 2) /\ OutPath(n, Len(w), w) /\ Back(w, Len(w))

\* The paths of k nodes that have not come back
OpenPaths(n, k) == {w \in Seq(Ids) : OutPath(n, k, w) /\ (k # 1 => ~Back(w, k))}

LEMMA LongerAre ==
  ASSUME GraphTyped, NEW n \in Ids, NEW k \in Nat \ {0}
  PROVE  Longer(OpenPaths(n, k)) = {w \in Seq(Ids) : OutPath(n, k + 1, w)}
<1>1. ASSUME NEW w \in Longer(OpenPaths(n, k))
      PROVE  w \in Seq(Ids) /\ OutPath(n, k + 1, w)
  <2>1. PICK x \in OpenPaths(n, k) \X Ids : CallsOut(x[1][Len(x[1])], x[2]) /\ w = Append(x[1], x[2])
    BY DEF Longer
  <2>2. PICK v, m : v = x[1] /\ m = x[2]
    OBVIOUS
  <2>3. /\ v \in Seq(Ids) /\ Len(v) = k /\ m \in Ids /\ v[1] = n
        /\ \A i \in 1..(k - 1) : CallsOut(v[i], v[i + 1])
        /\ \A i \in 2..(k - 1) : ~Back(v, i)
        /\ k # 1 => ~Back(v, k)
        /\ CallsOut(v[k], m) /\ w = Append(v, m)
    BY <2>1, <2>2 DEF OpenPaths, OutPath
  <2>4. w \in Seq(Ids) /\ Len(w) = k + 1 /\ w[k + 1] = m /\ \A i \in 1..k : w[i] = v[i]
    BY <2>3
  <2>5. ASSUME NEW i \in 1..k
        PROVE  CallsOut(w[i], w[i + 1])
    <3>1. CASE i = k
      BY <2>3, <2>4, <3>1
    <3>2. CASE i # k
      <4>1. i \in 1..(k - 1) /\ i + 1 \in 1..k
        BY <3>2
      <4> QED
        BY <2>3, <2>4, <4>1
    <3> QED
      BY <3>1, <3>2
  <2>6. ASSUME NEW i \in 2..k
        PROVE  ~Back(w, i)
    <3>1. ~Back(v, i)
      <4>1. i = k \/ i \in 2..(k - 1)
        OBVIOUS
      <4> QED
        BY <2>3, <4>1
    <3>2. i \in 1..k /\ i - 1 \in 1..k /\ \A j \in 2..(i - 1) : j \in 1..k
      OBVIOUS
    <3> QED
      BY <2>4, <3>1, <3>2 DEF Back
  <2>7. w[1] = n
    BY <2>3, <2>4
  <2>8. PICK h : h = k + 1
    OBVIOUS
  <2>9. h - 1 = k
    BY <2>8
  <2>10. OutPath(n, h, w)
    BY <2>4, <2>5, <2>6, <2>7, <2>8, <2>9 DEF OutPath
  <2> QED
    BY <2>4, <2>8, <2>10
<1>2. ASSUME NEW w \in Seq(Ids), OutPath(n, k + 1, w)
      PROVE  w \in Longer(OpenPaths(n, k))
  <2>1. /\ Len(w) = k + 1 /\ w[1] = n
        /\ \A i \in 1..k : CallsOut(w[i], w[i + 1])
        /\ \A i \in 2..k : ~Back(w, i)
    BY <1>2 DEF OutPath
  <2>2. PICK v, m : v = SubSeq(w, 1, k) /\ m = w[k + 1]
    OBVIOUS
  <2>3. v \in Seq(Ids) /\ Len(v) = k /\ m \in Ids /\ \A i \in 1..k : v[i] = w[i]
    BY <2>1, <2>2
  <2>4. w = Append(v, m)
    <3>1. Append(v, m) \in Seq(Ids) /\ Len(Append(v, m)) = k + 1
      BY <2>3
    <3>2. ASSUME NEW i \in 1..(k + 1)
          PROVE  w[i] = Append(v, m)[i]
      <4>1. CASE i = k + 1
        BY <2>2, <2>3, <4>1
      <4>2. CASE i # k + 1
        <5>1. i \in 1..k
          BY <4>2
        <5> QED
          BY <2>3, <5>1
      <4> QED
        BY <4>1, <4>2
    <3> QED
      BY <2>1, <3>1, <3>2, SeqEqual
  <2>5. OutPath(n, k, v)
    <3>1. ASSUME NEW i \in 1..(k - 1)
          PROVE  CallsOut(v[i], v[i + 1])
      <4>1. i \in 1..k /\ i + 1 \in 1..k
        OBVIOUS
      <4> QED
        BY <2>1, <2>3, <4>1
    <3>2. ASSUME NEW i \in 2..k
          PROVE  ~Back(v, i)
      <4>1. i \in 1..k /\ i - 1 \in 1..k /\ \A j \in 2..(i - 1) : j \in 1..k
        OBVIOUS
      <4> QED
        BY <2>1, <2>3, <4>1 DEF Back
    <3>3. v[1] = n
      BY <2>1, <2>3
    <3>4. \A i \in 2..(k - 1) : i \in 2..k
      OBVIOUS
    <3> QED
      BY <2>3, <3>1, <3>2, <3>3, <3>4 DEF OutPath
  <2>6. k # 1 => ~Back(v, k)
    <3> SUFFICES ASSUME k # 1 PROVE ~Back(v, k)
      OBVIOUS
    <3>1. k \in 2..k /\ k \in 1..k /\ k - 1 \in 1..k /\ \A j \in 2..(k - 1) : j \in 1..k
      OBVIOUS
    <3> QED
      BY <2>1, <2>3, <3>1 DEF Back
  <2>7. v \in OpenPaths(n, k)
    BY <2>3, <2>5, <2>6 DEF OpenPaths
  <2>8. CallsOut(v[Len(v)], m)
    <3>1. k \in 1..k
      OBVIOUS
    <3> QED
      BY <2>1, <2>2, <2>3, <3>1
  <2>9. PICK x : x = <<v, m>>
    OBVIOUS
  <2> QED
    BY <2>3, <2>4, <2>7, <2>8, <2>9 DEF Longer
<1>3. \A w : w \in Longer(OpenPaths(n, k)) <=> w \in {u \in Seq(Ids) : OutPath(n, k + 1, u)}
  BY <1>1, <1>2
<1> QED
  BY <1>3

LEMMA OpenPathsFurther ==
  ASSUME GraphTyped, NEW n \in Ids
  PROVE  /\ OpenPaths(n, 1) = {<<n>>}
         /\ \A k \in Nat \ {0} : OpenPaths(n, k + 1) = {w \in Longer(OpenPaths(n, k)) : ~Returns(w)}
<1>1. OpenPaths(n, 1) = {<<n>>}
  <2>1. ASSUME NEW w \in OpenPaths(n, 1)
        PROVE  w = <<n>>
    <3>1. w \in Seq(Ids) /\ Len(w) = 1 /\ w[1] = n
      BY DEF OpenPaths, OutPath
    <3>2. <<n>> \in Seq(Ids) /\ Len(<<n>>) = 1 /\ <<n>>[1] = n
      OBVIOUS
    <3>3. \A i \in 1..Len(w) : w[i] = <<n>>[i]
      BY <3>1, <3>2
    <3> QED
      BY <3>1, <3>2, <3>3, SeqEqual
  <2>2. <<n>> \in OpenPaths(n, 1)
    <3>1. <<n>> \in Seq(Ids) /\ Len(<<n>>) = 1 /\ <<n>>[1] = n
      OBVIOUS
    <3>2. (~\E i : i \in 1..(1 - 1)) /\ ~\E i : i \in 2..(1 - 1)
      OBVIOUS
    <3> QED
      BY <3>1, <3>2 DEF OpenPaths, OutPath
  <2> QED
    BY <2>1, <2>2
<1>2. ASSUME NEW k \in Nat \ {0}
      PROVE  OpenPaths(n, k + 1) = {w \in Longer(OpenPaths(n, k)) : ~Returns(w)}
  <2>1. Longer(OpenPaths(n, k)) = {w \in Seq(Ids) : OutPath(n, k + 1, w)}
    BY LongerAre
  <2>2. \A w : OutPath(n, k + 1, w) => (Returns(w) <=> Back(w, k + 1))
    BY DEF OutPath, Returns, Back
  <2>3. k + 1 # 1
    OBVIOUS
  <2>4. \A w : w \in OpenPaths(n, k + 1) <=> w \in {u \in Longer(OpenPaths(n, k)) : ~Returns(u)}
    BY <2>1, <2>2, <2>3 DEF OpenPaths
  <2> QED
    BY <2>4
<1> QED
  BY <1>1, <1>2

LEMMA ReturningAre ==
  ASSUME GraphTyped, NEW n \in Ids
  PROVE  \A w : w \in ReturningPaths(n) <=> Returning(n, w)
<1> DEFINE D == 1..(MaxCycleDepth + 1)
           body(g, k) == IF k = 1 THEN {<<n>>} ELSE {w \in Longer(g[k - 1]) : ~Returns(w)}
           Eq(g) == g = [k \in D |-> body(g, k)]
           K == CHOOSE g : Eq(g)
           G == [k \in D |-> OpenPaths(n, k)]
<1>1. MaxCycleDepth \in Nat
  BY DepthAssumption
<1>2. /\ OpenPaths(n, 1) = {<<n>>}
      /\ \A k \in Nat \ {0} : OpenPaths(n, k + 1) = {w \in Longer(OpenPaths(n, k)) : ~Returns(w)}
  BY OpenPathsFurther
<1>3. \A g : body(g, 1) = {<<n>>}
  OBVIOUS
<1>4. \A g, k : k # 1 => body(g, k) = {w \in Longer(g[k - 1]) : ~Returns(w)}
  OBVIOUS
<1> HIDE DEF body
<1>5. Eq(G)
  <2>1. ASSUME NEW k \in D
        PROVE  body(G, k) = OpenPaths(n, k)
    <3>1. CASE k = 1
      BY <1>2, <1>3, <3>1
    <3>2. CASE k # 1
      <4>1. k - 1 \in Nat \ {0} /\ k - 1 \in D /\ (k - 1) + 1 = k
        BY <1>1, <3>2
      <4>2. G[k - 1] = OpenPaths(n, k - 1)
        BY <4>1
      <4> QED
        BY <1>2, <1>4, <3>2, <4>1, <4>2
    <3> QED
      BY <3>1, <3>2
  <2> QED
    BY <2>1
<1>6. Eq(K)
  <2> HIDE DEF Eq, G
  <2> QED
    BY <1>5
<1>7. ReturningPaths(n) = {w \in UNION {Longer(K[k]) : k \in D} : Returns(w)}
  BY DEF ReturningPaths, body
<1> HIDE DEF K
<1>8. \A k \in D : K[k] = body(K, k)
  BY <1>6
<1>9. \A k \in D : K[k] = OpenPaths(n, k)
  <2> DEFINE T == {k \in Nat : k + 1 <= MaxCycleDepth + 1 => K[k + 1] = OpenPaths(n, k + 1)}
  <2>1. 0 \in T
    <3>1. 1 \in D
      BY <1>1
    <3>2. K[1] = OpenPaths(n, 1)
      BY <1>2, <1>3, <1>8, <3>1
    <3>3. 0 + 1 = 1
      OBVIOUS
    <3>4. K[0 + 1] = OpenPaths(n, 0 + 1)
      BY <3>2, <3>3
    <3> QED
      BY <3>4
  <2>2. ASSUME NEW k \in Nat, k \in T
        PROVE  k + 1 \in T
    <3> SUFFICES ASSUME (k + 1) + 1 <= MaxCycleDepth + 1
                 PROVE  K[(k + 1) + 1] = OpenPaths(n, (k + 1) + 1)
      OBVIOUS
    <3>1. (k + 1) + 1 \in D /\ (k + 1) + 1 # 1 /\ ((k + 1) + 1) - 1 = k + 1 /\ k + 1 \in Nat \ {0}
          /\ K[k + 1] = OpenPaths(n, k + 1)
      BY <1>1, <2>2
    <3> QED
      BY <1>2, <1>4, <1>8, <3>1
  <2>3. Nat \subseteq T
    <3> HIDE DEF T
    <3> QED
      BY <2>1, <2>2, SetInduction
  <2>4. ASSUME NEW k \in D PROVE K[k] = OpenPaths(n, k)
    <3>1. k - 1 \in T /\ (k - 1) + 1 = k /\ k <= MaxCycleDepth + 1
      BY <1>1, <2>3
    <3> QED
      BY <3>1
  <2> QED
    BY <2>4
<1>10. ASSUME NEW w \in ReturningPaths(n)
       PROVE  Returning(n, w)
  <2>1. PICK k \in D : w \in Longer(K[k]) /\ Returns(w)
    BY <1>7
  <2>2. k \in Nat \ {0} /\ k + 1 \in 2..(MaxCycleDepth + 2)
    BY <1>1
  <2>3. OutPath(n, k + 1, w)
    BY <1>9, <2>1, <2>2, LongerAre
  <2>4. Len(w) = k + 1
    BY <2>3 DEF OutPath
  <2> QED
    BY <2>1, <2>2, <2>3, <2>4 DEF Returning, Returns, Back
<1>11. ASSUME NEW w, Returning(n, w)
       PROVE  w \in ReturningPaths(n)
  <2>1. PICK k : k = Len(w) - 1
    OBVIOUS
  <2>2. Len(w) \in 2..(MaxCycleDepth + 2) /\ OutPath(n, Len(w), w) /\ Back(w, Len(w))
    BY <1>11 DEF Returning
  <2>3. k \in D /\ k \in Nat \ {0} /\ k + 1 = Len(w) /\ w \in Seq(Ids)
    BY <1>1, <2>1, <2>2 DEF OutPath
  <2>4. w \in Longer(K[k])
    BY <1>9, <2>2, <2>3, LongerAre
  <2>5. Returns(w)
    BY <2>2 DEF Returns, Back
  <2> QED
    BY <1>7, <2>3, <2>4, <2>5
<1> QED
  BY <1>10, <1>11

Starts == LiveEntries \cap toExternal

AllReported(n) == \A w : Returning(n, w) => w \in cycles

\* w goes along the first k open calls.
Follows(w, k) == Len(w) > k /\ \A i \in 1..k : w[i] = stack[i].node

\* The open calls are a path of external calls that has not come back.
OutInv ==
  /\ Len(stack) <= MaxCycleDepth + 1
  /\ stack # <<>> => stack[1].node \in Starts
  /\ \A k \in 1..(Len(stack) - 1) : \A e : e = Via(k) => e.kind \in Leaving
  /\ \A k \in 2..Len(stack) : /\ stack[k].node[1] # stack[k - 1].node[1]
                              /\ \A i \in 2..(k - 1) : stack[i].node # stack[k].node

FoundRight == \A w \in cycles : \E n \in Starts : Returning(n, w)

\* The returning paths along the edges that an open call is done with are reported.
BehindInv ==
  \A k \in 1..Len(stack) : \A j \in 1..Len(callees[stack[k].node]) : \A e, w :
    /\ j < stack[k].next /\ e = callees[stack[k].node][j] /\ e.kind \in Leaving
    /\ Returning(stack[1].node, w) /\ Follows(w, k) /\ w[k + 1] = e.callee
    /\ k < Len(stack) => w[k + 1] # stack[k + 1].node
    => w \in cycles

CycleStarts ==
  \A n \in Starts : AllReported(n) \/ (stack # <<>> /\ stack[1].node = n) \/ Waiting(n)

CyclesInv == StackInv /\ PendingInv /\ OutInv /\ FoundRight /\ BehindInv /\ CycleStarts

LEMMA CallsFixed ==
  ASSUME UNCHANGED graphVars
  PROVE  /\ \A n, w : Returning(n, w)' <=> Returning(n, w)
         /\ Starts' = Starts
<1>1. \A m, n : CallsOut(m, n)' <=> CallsOut(m, n)
  BY GraphFixed DEF CallsOut, EdgesOf
<1>2. \A n, w : Returning(n, w)' <=> Returning(n, w)
  BY <1>1 DEF Returning, OutPath, Back
<1> QED
  BY <1>2, GraphFixed DEF Starts

LEMMA KeptReported ==
  ASSUME UNCHANGED graphVars, cycles \subseteq cycles', NEW n, AllReported(n)
  PROVE  AllReported(n)'
BY CallsFixed DEF AllReported

LEMMA CycleEntryInv ==
  ASSUME GraphTyped, GraphMore, CyclesInv, CycleEntry
  PROVE  CyclesInv'
<1>1. UNCHANGED graphVars /\ UNCHANGED cycles /\ stack = <<>> /\ pending # <<>>
      /\ pending' = Tail(pending) /\ MaxCycleDepth \in Nat
  BY DepthAssumption DEF CycleEntry
<1>2. StackInv /\ PendingInv /\ OutInv /\ FoundRight /\ BehindInv /\ CycleStarts
  BY DEF CyclesInv
<1>3. PICK p, n : p = Head(pending) /\ n = Id(Head(pending))
  OBVIOUS
<1>4. stack' = IF Live(p) /\ n \in toExternal THEN <<Frame(n, NilSlice)>> ELSE <<>>
  BY <1>3 DEF CycleEntry
<1>5. n \in Ids /\ (Live(p) => n \in LiveEntries)
  BY <1>1, <1>2, <1>3, HeadPending
<1>6. /\ StackInv' /\ (Len(stack') = 0 \/ Len(stack') = 1)
      /\ Len(stack') = 0 => stack' = <<>>
      /\ stack' # <<>> => Len(stack') = 1 /\ stack'[1].node = n /\ stack'[1].next = 1 /\ stack'[1].slice = NilSlice
  BY <1>1, <1>4, <1>5, GraphFixed, EntryStack
<1>7. stack' # <<>> <=> Live(p) /\ n \in toExternal
  <2>1. <<Frame(n, NilSlice)>> # <<>>
    OBVIOUS
  <2> QED
    BY <1>4, <2>1
<1>8. /\ \A k \in 1..Len(stack') : k = 1 /\ stack' # <<>>
      /\ Len(stack') <= MaxCycleDepth + 1
      /\ ~\E k : k \in 1..(Len(stack') - 1)
      /\ ~\E k : k \in 2..Len(stack')
  <2>1. CASE Len(stack') = 0
    BY ONLY <1>1, <2>1, SMT
  <2>2. CASE Len(stack') = 1
    <3>1. stack' # <<>>
      BY <2>2
    <3> QED
      BY ONLY <1>1, <2>2, <3>1, SMT
  <2> QED
    BY <1>6, <2>1, <2>2
<1>9. OutInv'
  <2>1. stack' # <<>> => stack'[1].node \in Starts'
    BY <1>1, <1>5, <1>6, <1>7, CallsFixed DEF Starts
  <2> QED
    BY <1>8, <2>1 DEF OutInv
<1>10. BehindInv'
  <2>1. ASSUME NEW k \in 1..Len(stack'), NEW j \in 1..Len(callees'[stack'[k].node])
        PROVE  ~(j < stack'[k].next)
    <3>1. k = 1 /\ stack'[1].node = n /\ stack'[1].next = 1
      BY <1>6, <1>8
    <3>2. Len(callees'[stack'[k].node]) \in Nat
      BY <1>1, <1>5, <3>1, EdgesTyped, GraphFixed
    <3> QED
      BY <3>1, <3>2
  <2> QED
    BY <2>1 DEF BehindInv
<1>11. FoundRight'
  BY <1>1, <1>2, CallsFixed DEF FoundRight
<1>12. CycleStarts'
  <2> SUFFICES ASSUME NEW m \in Starts
               PROVE  AllReported(m)' \/ (stack' # <<>> /\ stack'[1].node = m) \/ Waiting(m)'
    BY <1>1, CallsFixed DEF CycleStarts
  <2>1. AllReported(m) \/ Waiting(m)
    BY <1>1, <1>2 DEF CycleStarts
  <2>2. AllReported(m) => AllReported(m)'
    BY <1>1, KeptReported
  <2>3. Waiting(m) => Waiting(m)' \/ (Live(p) /\ n = m)
    BY <1>1, <1>2, <1>3, TakenPending
  <2>4. m \in toExternal
    BY DEF Starts
  <2> QED
    BY <1>6, <1>7, <2>1, <2>2, <2>3, <2>4
<1>13. PendingInv'
  BY <1>1, <1>2, TakenPending
<1> QED
  BY <1>6, <1>9, <1>10, <1>11, <1>12, <1>13 DEF CyclesInv

\* A returning path along all the open calls goes on: the calls have not come back.
LEMMA GoesOn ==
  ASSUME GraphTyped, StackInv, OutInv, stack # <<>>, NEW L, L = Len(stack),
         NEW w, Returning(stack[1].node, w), Len(w) >= L, \A i \in 1..L : w[i] = stack[i].node
  PROVE  Len(w) > L
<1>1. L \in Nat \ {0} /\ Len(w) \in 2..(MaxCycleDepth + 2) /\ Back(w, Len(w)) /\ MaxCycleDepth \in Nat
  BY TopTyped, DepthAssumption DEF Returning
<1>2. CASE Len(w) = L
  <2>1. L \in 2..L /\ L \in 1..L /\ L - 1 \in 1..L /\ \A i \in 2..(L - 1) : i \in 1..L
    BY <1>1, <1>2
  <2>2. stack[L].node[1] # stack[L - 1].node[1] /\ \A i \in 2..(L - 1) : stack[i].node # stack[L].node
    BY <2>1 DEF OutInv
  <2>3. ~Back(w, L)
    BY <2>1, <2>2 DEF Back
  <2> QED
    BY <1>1, <1>2, <2>3
<1> QED
  BY <1>1, <1>2

\* With all edges of the last open call behind it, all returning paths along the open
\* calls are reported.
LEMMA EndReported ==
  ASSUME GraphTyped, StackInv, OutInv, BehindInv, AtEnd, NEW L, L = Len(stack),
         NEW w, Returning(stack[1].node, w), Len(w) >= L, \A i \in 1..L : w[i] = stack[i].node
  PROVE  w \in cycles
<1>1. Len(w) > L
  BY GoesOn DEF AtEnd
<1>2. L \in 1..Len(stack) /\ L \in Nat \ {0} /\ stack[L].node \in Ids /\ stack[L].next \in Nat
  BY TopTyped DEF AtEnd
<1>3. Len(w) \in Nat /\ \A i \in 1..(Len(w) - 1) : CallsOut(w[i], w[i + 1])
  BY DEF Returning, OutPath
<1>4. CallsOut(stack[L].node, w[L + 1])
  <2>1. L \in 1..(Len(w) - 1) /\ L \in 1..L
    BY <1>1, <1>2, <1>3
  <2> QED
    BY <1>3, <2>1
<1>5. PICK e \in EdgesOf(stack[L].node) : e.callee = w[L + 1] /\ e.kind \in Leaving
  BY <1>4 DEF CallsOut
<1>6. PICK j \in 1..Len(callees[stack[L].node]) : e = callees[stack[L].node][j]
  BY <1>2, EdgesTyped
<1>7. j < stack[L].next
  <2>1. Len(callees[stack[L].node]) \in Nat /\ stack[L].next > Len(callees[stack[L].node])
    BY <1>2, EdgesTyped DEF AtEnd, Top
  <2> QED
    BY <1>2, <2>1
<1>8. Follows(w, L) /\ ~(L < Len(stack))
  BY <1>1, <1>2 DEF Follows
<1> QED
  BY <1>2, <1>5, <1>6, <1>7, <1>8 DEF BehindInv

LEMMA CycleReturnInv ==
  ASSUME GraphTyped, GraphMore, CyclesInv, CycleReturn
  PROVE  CyclesInv'
<1>1. UNCHANGED graphVars /\ UNCHANGED <<pending, cycles>> /\ AtEnd /\ stack # <<>> /\ stack' = Popped
      /\ MaxCycleDepth \in Nat
  BY DepthAssumption DEF CycleReturn, AtEnd
<1>2. StackInv /\ PendingInv /\ OutInv /\ FoundRight /\ BehindInv /\ CycleStarts
  BY DEF CyclesInv
<1>3. PICK L : L = Len(stack)
  OBVIOUS
<1>4. /\ StackInv' /\ Len(stack') = L - 1
      /\ \A k \in 1..(L - 1) : stack'[k] = stack[k] /\ k \in 1..Len(stack) /\ Via(k)' = Via(k)
      /\ stack' = <<>> <=> L = 1
  BY <1>1, <1>2, <1>3, GraphFixed, PoppedStack
<1>5. L \in Nat \ {0} /\ L \in 1..Len(stack)
  BY <1>1, <1>2, <1>3, TopTyped
<1>6. \A w : Returning(stack[1].node, w) /\ Len(w) >= L /\ (\A i \in 1..L : w[i] = stack[i].node) => w \in cycles
  BY <1>1, <1>2, <1>3, EndReported
<1>7. L # 1 => 1 \in 1..(L - 1) /\ stack'[1] = stack[1]
  BY <1>4, <1>5
<1>8. OutInv'
  <2>1. Len(stack') <= MaxCycleDepth + 1
    BY <1>1, <1>2, <1>3, <1>4, <1>5 DEF OutInv
  <2>2. stack' # <<>> => stack'[1].node \in Starts'
    BY <1>1, <1>2, <1>4, <1>7, CallsFixed DEF OutInv
  <2>3. ASSUME NEW k \in 1..(Len(stack') - 1)
        PROVE  \A e : e = Via(k)' => e.kind \in Leaving
    <3>1. k \in 1..(L - 1) /\ k \in 1..(Len(stack) - 1)
      BY <1>3, <1>4, <1>5
    <3> QED
      BY <1>2, <1>4, <3>1 DEF OutInv
  <2>4. ASSUME NEW k \in 2..Len(stack')
        PROVE  /\ stack'[k].node[1] # stack'[k - 1].node[1]
               /\ \A i \in 2..(k - 1) : stack'[i].node # stack'[k].node
    <3>1. k \in 1..(L - 1) /\ k - 1 \in 1..(L - 1) /\ k \in 2..Len(stack) /\ \A i \in 2..(k - 1) : i \in 1..(L - 1)
      BY <1>3, <1>4, <1>5
    <3>2. stack[k].node[1] # stack[k - 1].node[1] /\ \A i \in 2..(k - 1) : stack[i].node # stack[k].node
      BY <1>2, <3>1 DEF OutInv
    <3> QED
      BY <1>4, <3>1, <3>2
  <2> QED
    BY <2>1, <2>2, <2>3, <2>4 DEF OutInv
<1>9. FoundRight'
  BY <1>1, <1>2, CallsFixed DEF FoundRight
<1>10. BehindInv'
  <2> SUFFICES ASSUME NEW k \in 1..Len(stack'), NEW j \in 1..Len(callees[stack'[k].node]),
                      NEW e, NEW w, j < stack'[k].next, e = callees[stack'[k].node][j], e.kind \in Leaving,
                      Returning(stack'[1].node, w), Follows(w, k)', w[k + 1] = e.callee,
                      k < Len(stack') => w[k + 1] # stack'[k + 1].node
               PROVE  w \in cycles
    BY <1>1, GraphFixed, CallsFixed DEF BehindInv
  <2>1. /\ k \in 1..(L - 1) /\ k \in 1..Len(stack) /\ k < Len(stack) /\ stack'[k] = stack[k]
        /\ stack'[1] = stack[1] /\ L # 1
    BY <1>3, <1>4, <1>5, <1>7
  <2>2. Len(w) > k /\ \A i \in 1..k : w[i] = stack[i].node
    <3>1. \A i \in 1..k : i \in 1..(L - 1)
      BY <1>5, <2>1
    <3> QED
      BY <1>4, <3>1 DEF Follows
  <2>3. CASE w[k + 1] # stack[k + 1].node
    BY <1>2, <2>1, <2>2, <2>3 DEF BehindInv, Follows
  <2>4. CASE w[k + 1] = stack[k + 1].node
    <3>1. k + 1 = L
      <4>1. CASE k < Len(stack')
        <5>1. k + 1 \in 1..(L - 1)
          BY <1>4, <1>5, <4>1
        <5> QED
          BY <1>4, <2>4, <4>1, <5>1
      <4>2. CASE ~(k < Len(stack'))
        BY <1>4, <1>5, <2>1, <4>2
      <4> QED
        BY <4>1, <4>2
    <3>2. Len(w) \in Nat
      BY DEF Returning
    <3>3. Len(w) >= L /\ \A i \in 1..L : w[i] = stack[i].node
      <4>1. Len(w) >= L
        BY <1>5, <2>1, <2>2, <3>1, <3>2
      <4>2. \A i \in 1..L : i \in 1..k \/ i = k + 1
        BY <1>5, <2>1, <3>1
      <4> QED
        BY <2>2, <2>4, <4>1, <4>2
    <3> QED
      BY <1>6, <2>1, <3>3
  <2> QED
    BY <2>3, <2>4
<1>11. CycleStarts'
  <2> SUFFICES ASSUME NEW m \in Starts
               PROVE  AllReported(m)' \/ (stack' # <<>> /\ stack'[1].node = m) \/ Waiting(m)'
    BY <1>1, CallsFixed DEF CycleStarts
  <2>1. CASE stack[1].node = m /\ L = 1
    <3>1. ASSUME NEW w, Returning(m, w)
          PROVE  w \in cycles
      <4>1. Len(w) \in 2..(MaxCycleDepth + 2) /\ w[1] = m
        BY <3>1 DEF Returning, OutPath
      <4>2. Len(w) >= L /\ \A i \in 1..L : w[i] = stack[i].node
        BY <2>1, <4>1
      <4> QED
        BY <1>6, <2>1, <3>1, <4>2
    <3> QED
      BY <1>1, <3>1, CallsFixed DEF AllReported
  <2>2. CASE stack[1].node = m /\ L # 1
    BY <1>4, <1>7, <2>2
  <2>3. CASE AllReported(m)
    BY <1>1, <2>3, KeptReported
  <2>4. CASE Waiting(m)
    BY <1>1, <2>4, KeptWaiting
  <2> QED
    BY <1>2, <2>1, <2>2, <2>3, <2>4 DEF CycleStarts
<1>12. PendingInv'
  BY <1>1, <1>2, GraphFixed DEF PendingInv
<1> QED
  BY <1>4, <1>8, <1>9, <1>10, <1>11, <1>12 DEF CyclesInv

\* The open calls and an external call that comes back make a returning path.
LEMMA ReturnFound ==
  ASSUME GraphTyped, StackInv, OutInv, AtEdge, NEW L, L = Len(stack), Edge.kind \in Leaving,
         Visited(Edge.callee) \/ Edge.callee[1] = Top.node[1]
  PROVE  Returning(stack[1].node, Append(Path, Edge.callee))
<1>1. /\ L \in Nat \ {0} /\ L \in 1..Len(stack) /\ 1 \in 1..L
      /\ \A k \in 1..L : stack[k].node \in Ids /\ stack[k].next \in Nat
      /\ MaxCycleDepth \in Nat
  BY TopTyped, DepthAssumption DEF AtEdge
<1>2. Edge \in EdgesOf(stack[L].node) /\ Edge.callee \in Ids
  BY MovedTyped
<1>3. PICK w, c : c = Edge.callee /\ w = Append(Path, c)
  OBVIOUS
<1>4. Path \in Seq(Ids) /\ Len(Path) = L /\ \A i \in 1..L : Path[i] = stack[i].node
  BY <1>1 DEF Path
<1>5. w \in Seq(Ids) /\ Len(w) = L + 1 /\ w[L + 1] = c /\ \A i \in 1..L : w[i] = stack[i].node
  BY <1>1, <1>2, <1>3, <1>4
<1>6. ASSUME NEW i \in 1..L
      PROVE  CallsOut(w[i], w[i + 1])
  <2>1. CASE i = L
    BY <1>1, <1>2, <1>3, <1>5, <2>1 DEF CallsOut
  <2>2. CASE i # L
    <3>1. i \in 1..Len(stack) /\ i < Len(stack) /\ i \in 1..(Len(stack) - 1) /\ i + 1 \in 1..L
      BY <1>1, <2>2
    <3>2. stack[i].next > 1 /\ stack[i].next <= Len(callees[stack[i].node]) + 1
          /\ stack[i + 1].node = Via(i).callee
      BY <3>1 DEF StackInv
    <3>3. Len(callees[stack[i].node]) \in Nat
      BY <1>1, EdgesTyped
    <3>4. stack[i].next - 1 \in 1..Len(callees[stack[i].node])
      BY <1>1, <3>2, <3>3
    <3>5. Via(i) \in EdgesOf(stack[i].node)
      BY <3>4 DEF Via, EdgesOf
    <3>6. Via(i).kind \in Leaving
      BY <3>1 DEF OutInv
    <3> QED
      BY <1>5, <3>1, <3>2, <3>5, <3>6 DEF CallsOut
  <2> QED
    BY <2>1, <2>2
<1>7. ASSUME NEW i \in 2..L
      PROVE  ~Back(w, i)
  <2>1. i \in 2..Len(stack) /\ i \in 1..L /\ i - 1 \in 1..L /\ \A j \in 2..(i - 1) : j \in 1..L
    BY <1>1
  <2>2. stack[i].node[1] # stack[i - 1].node[1] /\ \A j \in 2..(i - 1) : stack[j].node # stack[i].node
    BY <2>1 DEF OutInv
  <2> QED
    BY <1>5, <2>1, <2>2 DEF Back
<1>8. OutPath(stack[1].node, L + 1, w)
  <2>1. (L + 1) - 1 = L
    BY <1>1
  <2> QED
    BY <1>1, <1>5, <1>6, <1>7, <2>1 DEF OutPath
<1>9. Back(w, L + 1)
  <2>1. (L + 1) - 1 = L /\ L \in 1..L /\ \A i \in 2..L : i \in 1..L
    BY <1>1
  <2>2. CASE c[1] = Top.node[1]
    BY <1>5, <2>1, <2>2 DEF Back, Top
  <2>3. CASE Visited(c)
    <3>1. PICK i \in 2..L : stack[i].node = c
      BY <2>3 DEF Visited
    <3> QED
      BY <1>5, <2>1, <3>1 DEF Back
  <2> QED
    BY <1>3, <2>2, <2>3
<1>10. L + 1 \in 2..(MaxCycleDepth + 2)
  BY <1>1 DEF OutInv
<1> QED
  BY <1>3, <1>5, <1>8, <1>9, <1>10 DEF Returning

\* A returning path along the open calls and this edge comes back with it exactly if the
\* search sees that it does.
LEMMA ReturnSeen ==
  ASSUME GraphTyped, StackInv, OutInv, AtEdge, NEW L, L = Len(stack),
         NEW w, Returning(stack[1].node, w), Follows(w, L), w[L + 1] = Edge.callee
  PROVE  IF Visited(Edge.callee) \/ Edge.callee[1] = Top.node[1]
         THEN w = Append(Path, Edge.callee)
         ELSE L <= MaxCycleDepth
<1>1. /\ L \in Nat \ {0} /\ 1 \in 1..L /\ L \in 1..L
      /\ \A k \in 1..L : stack[k].node \in Ids
      /\ MaxCycleDepth \in Nat
  BY TopTyped, DepthAssumption DEF AtEdge
<1>2. PICK c : c = Edge.callee
  OBVIOUS
<1>3. c \in Ids
  BY <1>2, MovedTyped
<1>4. /\ w \in Seq(Ids) /\ Len(w) \in 2..(MaxCycleDepth + 2)
      /\ \A i \in 2..(Len(w) - 1) : ~Back(w, i)
      /\ Back(w, Len(w)) /\ Len(w) > L /\ w[L + 1] = c /\ \A i \in 1..L : w[i] = stack[i].node
  BY <1>2 DEF Returning, OutPath, Follows
<1>5. Back(w, L + 1) <=> Visited(c) \/ c[1] = Top.node[1]
  <2>1. (L + 1) - 1 = L /\ \A i \in 2..L : i \in 1..L
    BY <1>1
  <2>2. Back(w, L + 1) <=> c[1] = stack[L].node[1] \/ \E i \in 2..L : w[i] = c
    BY <1>1, <1>4, <2>1 DEF Back
  <2>3. (\E i \in 2..L : w[i] = c) <=> \E i \in 2..L : stack[i].node = c
    BY <1>4, <2>1
  <2> QED
    BY <2>2, <2>3 DEF Visited, Top
<1>6. CASE Back(w, L + 1)
  <2>1. Len(w) = L + 1
    <3>1. CASE Len(w) # L + 1
      <4>1. L + 1 \in 2..(Len(w) - 1)
        BY <1>1, <1>4, <3>1
      <4> QED
        BY <1>4, <1>6, <4>1
    <3> QED
      BY <3>1
  <2>2. Path \in Seq(Ids) /\ Len(Path) = L /\ \A i \in 1..L : Path[i] = stack[i].node
    BY <1>1 DEF Path
  <2>3. Append(Path, c) \in Seq(Ids) /\ Len(Append(Path, c)) = L + 1 /\ Append(Path, c)[L + 1] = c
        /\ \A i \in 1..L : Append(Path, c)[i] = stack[i].node
    BY <1>1, <1>3, <2>2
  <2>4. \A i \in 1..(L + 1) : i \in 1..L \/ i = L + 1
    BY <1>1
  <2>5. \A i \in 1..Len(w) : w[i] = Append(Path, c)[i]
    BY <1>4, <2>1, <2>3, <2>4
  <2>6. w = Append(Path, c)
    BY <1>4, <2>1, <2>3, <2>5, SeqEqual
  <2> QED
    BY <1>2, <1>5, <1>6, <2>6
<1>7. CASE ~Back(w, L + 1)
  <2>1. Len(w) # L + 1
    BY <1>4, <1>7
  <2>2. L <= MaxCycleDepth
    BY <1>1, <1>4, <2>1
  <2> QED
    BY <1>2, <1>5, <1>7, <2>2
<1> QED
  BY <1>6, <1>7

LEMMA CycleEdgeInv ==
  ASSUME GraphTyped, GraphMore, CyclesInv, CycleEdge
  PROVE  CyclesInv'
<1>1. UNCHANGED graphVars /\ UNCHANGED pending /\ AtEdge /\ MaxCycleDepth \in Nat
  BY DepthAssumption DEF CycleEdge
<1>2. StackInv /\ PendingInv /\ OutInv /\ FoundRight /\ BehindInv /\ CycleStarts
  BY DEF CyclesInv
<1>3. PICK L : L = Len(stack)
  OBVIOUS
<1>b. PICK b \in BOOLEAN : b <=> Visited(Edge.callee) \/ Edge.callee[1] = Top.node[1]
  OBVIOUS
<1>4. /\ L \in Nat \ {0} /\ L \in 1..Len(stack) /\ 1 \in 1..L
      /\ Edge \in Edges /\ Edge.callee \in Ids /\ Len(Moved) = L /\ Moved \in Seq(Visits)
      /\ stack[L].next \in 1..Len(callees[stack[L].node])
      /\ Edge = callees[stack[L].node][stack[L].next]
      /\ stack # <<>>
  BY <1>1, <1>2, <1>3, TopTyped, MovedTyped DEF AtEdge
<1>5. /\ stack' = Moved \/ stack' = Append(Moved, Frame(Edge.callee, NilSlice))
      /\ stack' # Moved => Edge.kind \in Leaving /\ ~b /\ L <= MaxCycleDepth
      /\ Edge.kind \in Leaving /\ ~b /\ L <= MaxCycleDepth => stack' # Moved
      /\ cycles' = IF Edge.kind \in Leaving /\ b THEN cycles \cup {Append(Path, Edge.callee)} ELSE cycles
  <2>1. Append(Moved, Frame(Edge.callee, NilSlice)) # Moved
    <3>1. Frame(Edge.callee, NilSlice) \in Visits
      BY <1>4 DEF Frame, Visits, Slices, NilSlice
    <3>2. Len(Append(Moved, Frame(Edge.callee, NilSlice))) = L + 1
      BY <1>4, <3>1
    <3> QED
      BY <1>4, <3>2
  <2>2. CASE Edge.kind \notin Leaving
    BY <2>2 DEF CycleEdge
  <2>3. CASE Edge.kind \in Leaving /\ b
    BY <1>b, <1>3, <2>3 DEF CycleEdge
  <2>4. CASE Edge.kind \in Leaving /\ ~b
    <3>1. /\ stack' = IF L <= MaxCycleDepth THEN Append(Moved, Frame(Edge.callee, NilSlice)) ELSE Moved
          /\ cycles' = cycles
      BY <1>b, <1>3, <2>4 DEF CycleEdge
    <3> QED
      BY <2>1, <2>4, <3>1
  <2> QED
    BY <2>2, <2>3, <2>4
<1>6. /\ StackInv'
      /\ Len(stack') = IF stack' = Moved THEN L ELSE L + 1
      /\ \A k \in 1..L : stack'[k].node = stack[k].node /\ stack'[k].slice = stack[k].slice
      /\ \A k \in 1..(L - 1) : stack'[k].next = stack[k].next
      /\ stack'[L].next = stack[L].next + 1
      /\ \A k \in 1..(L - 1) : Via(k)' = Via(k)
      /\ Via(L)' = Edge
      /\ stack' # Moved => stack'[L + 1] = Frame(Edge.callee, NilSlice)
  <2>1. NilSlice \in Slices
    BY DEF Slices, NilSlice
  <2> QED
    BY <1>1, <1>2, <1>3, <1>5, <2>1, GraphFixed, EdgeStack
<1>7. stack' # Moved => stack'[L + 1].node = Edge.callee /\ stack'[L + 1].next = 1
  BY <1>6 DEF Frame
<1>8. /\ \A k \in 1..Len(stack') : k \in 1..L \/ (k = L + 1 /\ stack' # Moved)
      /\ stack'[1].node = stack[1].node /\ stack' # <<>>
  <2>1. \A k \in 1..Len(stack') : k \in 1..L \/ (k = L + 1 /\ stack' # Moved)
    BY <1>4, <1>6
  <2>2. stack'[1].node = stack[1].node
    BY <1>4, <1>6
  <2>3. stack' # <<>>
    BY <1>4, <1>6
  <2> QED
    BY <2>1, <2>2, <2>3
<1>9. OutInv'
  <2>1. Len(stack') <= MaxCycleDepth + 1
    <3>1. L <= MaxCycleDepth + 1
      BY <1>2, <1>3 DEF OutInv
    <3>2. CASE stack' = Moved
      BY <1>6, <3>1, <3>2
    <3>3. CASE stack' # Moved
      <4>1. Len(stack') = L + 1 /\ L <= MaxCycleDepth
        BY <1>5, <1>6, <3>3
      <4> QED
        BY ONLY <1>1, <1>4, <4>1, SMT
    <3> QED
      BY <3>2, <3>3
  <2>2. stack'[1].node \in Starts'
    BY <1>1, <1>2, <1>4, <1>8, CallsFixed DEF OutInv
  <2>3. ASSUME NEW k \in 1..(Len(stack') - 1), NEW e, e = Via(k)'
        PROVE  e.kind \in Leaving
    <3>1. CASE k \in 1..(L - 1)
      <4>1. k \in 1..(Len(stack) - 1) /\ e = Via(k)
        BY <1>3, <1>6, <2>3, <3>1
      <4> QED
        BY <1>2, <4>1 DEF OutInv
    <3>2. CASE k = L
      <4>1. stack' # Moved
        BY <1>4, <1>6, <3>2
      <4> QED
        BY <1>5, <1>6, <2>3, <3>2, <4>1
    <3> QED
      BY <1>4, <1>6, <3>1, <3>2
  <2>4. ASSUME NEW k \in 2..Len(stack')
        PROVE  /\ stack'[k].node[1] # stack'[k - 1].node[1]
               /\ \A i \in 2..(k - 1) : stack'[i].node # stack'[k].node
    <3>1. k \in 1..Len(stack') /\ k - 1 \in 1..L /\ \A i \in 2..(k - 1) : i \in 1..L
      BY <1>4, <1>6
    <3>2. CASE k \in 1..L
      <4>1. k \in 2..Len(stack)
        BY <1>3, <3>2
      <4>2. stack[k].node[1] # stack[k - 1].node[1] /\ \A i \in 2..(k - 1) : stack[i].node # stack[k].node
        BY <1>2, <4>1 DEF OutInv
      <4> QED
        BY <1>6, <3>1, <3>2, <4>2
    <3>3. CASE k = L + 1 /\ stack' # Moved
      <4>1. ~b /\ stack'[k].node = Edge.callee /\ k - 1 = L
        BY <1>4, <1>5, <1>7, <3>3
      <4>2. Edge.callee[1] # stack[L].node[1] /\ \A i \in 2..L : stack[i].node # Edge.callee
        BY <1>b, <1>3, <4>1 DEF Visited, Top
      <4> QED
        BY <1>6, <3>1, <4>1, <4>2
    <3> QED
      BY <1>8, <3>1, <3>2, <3>3
  <2> QED
    BY <2>1, <2>2, <2>3, <2>4 DEF OutInv
<1>10. FoundRight'
  <2>1. Edge.kind \in Leaving /\ b => Returning(stack[1].node, Append(Path, Edge.callee))
    BY <1>b, <1>1, <1>2, <1>3, ReturnFound
  <2>2. stack[1].node \in Starts
    BY <1>2, <1>4 DEF OutInv
  <2>3. ASSUME NEW w \in cycles'
        PROVE  \E n \in Starts : Returning(n, w)
    BY <1>2, <1>5, <2>1, <2>2, <2>3 DEF FoundRight
  <2> QED
    BY <1>1, <2>3, CallsFixed DEF FoundRight
<1>11. BehindInv'
  <2> SUFFICES ASSUME NEW k \in 1..Len(stack'), NEW j \in 1..Len(callees[stack'[k].node]),
                      NEW e, NEW w, j < stack'[k].next, e = callees[stack'[k].node][j], e.kind \in Leaving,
                      Returning(stack'[1].node, w), Follows(w, k)', w[k + 1] = e.callee,
                      k < Len(stack') => w[k + 1] # stack'[k + 1].node
               PROVE  w \in cycles'
    BY <1>1, GraphFixed, CallsFixed DEF BehindInv
  <2>1. CASE k = L + 1 /\ stack' # Moved
    <3>1. stack'[k].next = 1 /\ stack'[k].node = Edge.callee
      BY <1>7, <2>1
    <3>2. Len(callees[Edge.callee]) \in Nat
      BY <1>4, EdgesTyped
    <3> QED
      BY <3>1, <3>2
  <2>2. CASE k \in 1..L
    <3>1. k \in 1..Len(stack) /\ stack'[k].node = stack[k].node /\ stack[k].node \in Ids
      BY <1>2, <1>3, <1>4, <1>6, <2>2, TopTyped
    <3>2. Follows(w, k)
      <4>1. \A i \in 1..k : i \in 1..L
        BY <1>4, <2>2
      <4> QED
        BY <1>6, <4>1 DEF Follows
    <3>3. Returning(stack[1].node, w)
      BY <1>8
    <3>4. cycles \subseteq cycles'
      BY <1>5
    <3>5. CASE k # L
      <4>1. k \in 1..(L - 1) /\ k + 1 \in 1..L /\ k < Len(stack)
        BY <1>3, <1>4, <2>2, <3>5
      <4>2. stack'[k].next = stack[k].next /\ stack'[k + 1].node = stack[k + 1].node
        BY <1>6, <4>1
      <4>3. k < Len(stack')
        BY <1>4, <1>6, <4>1
      <4>4. w \in cycles
        BY <1>2, <3>1, <3>2, <3>3, <4>1, <4>2, <4>3 DEF BehindInv
      <4> QED
        BY <3>4, <4>4
    <3>6. CASE k = L /\ j # stack[L].next
      <4>1. j < stack[L].next
        <5>1. Len(callees[stack[k].node]) \in Nat
          BY <3>1, EdgesTyped
        <5> QED
          BY <1>4, <1>6, <3>1, <3>6, <5>1
      <4>2. ~(k < Len(stack))
        BY <1>3, <1>4, <3>6
      <4>3. w \in cycles
        BY <1>2, <3>1, <3>2, <3>3, <3>6, <4>1, <4>2 DEF BehindInv
      <4> QED
        BY <3>4, <4>3
    <3>7. CASE k = L /\ j = stack[L].next
      <4>1. e = Edge /\ w[L + 1] = Edge.callee
        BY <1>4, <3>1, <3>7
      <4>2. IF b THEN w = Append(Path, Edge.callee) ELSE L <= MaxCycleDepth
        <5>1. Follows(w, L)
          BY <3>2, <3>7
        <5>2. IF Visited(Edge.callee) \/ Edge.callee[1] = Top.node[1]
              THEN w = Append(Path, Edge.callee) ELSE L <= MaxCycleDepth
          BY <1>1, <1>2, <1>3, <3>3, <4>1, <5>1, ReturnSeen
        <5> QED
          BY <1>b, <5>2
      <4>3. CASE b
        BY <1>5, <4>1, <4>2, <4>3
      <4>4. CASE ~b
        <5>1. stack' # Moved
          BY <1>5, <4>1, <4>2, <4>4
        <5>2. k < Len(stack') /\ stack'[k + 1].node = Edge.callee
          BY <1>4, <1>6, <1>7, <3>7, <5>1
        <5> QED
          BY <3>7, <4>1, <5>2
      <4> QED
        BY <4>3, <4>4
    <3> QED
      BY <3>5, <3>6, <3>7
  <2> QED
    BY <1>8, <2>1, <2>2
<1>12. CycleStarts'
  <2>1. cycles \subseteq cycles'
    BY <1>5
  <2>2. \A n : AllReported(n) => AllReported(n)'
    BY <1>1, <2>1, KeptReported
  <2> QED
    BY <1>1, <1>2, <1>4, <1>8, <2>2, CallsFixed, KeptWaiting DEF CycleStarts
<1>13. PendingInv'
  BY <1>1, <1>2, GraphFixed DEF PendingInv
<1> QED
  BY <1>6, <1>9, <1>10, <1>11, <1>12, <1>13 DEF CyclesInv

CyclesDone == FoundRight /\ \A n \in Starts : AllReported(n)

\* Any caller can make n call m, which is, or leads to, a state write.
Unprotected(n, m) ==
  /\ Def(nodes[n]).public /\ ~Def(nodes[n]).guarded
  /\ CallsOut(n, m)
  /\ ({m} \cup Below(ClosedSets, m)) \cap Writers # {}

UnguardedRight == unguarded = {x \in Nodes \X Nodes : Unprotected(x[1], x[2])}

PipelineInv ==
  /\ IInv /\ GraphMore
  /\ stage # "graph" => pass = "built"
  /\ \/ stage = "graph" /\ stack = <<>> /\ heap = <<>> /\ flows = {} /\ cycles = {}
     \/ stage = "taint" /\ TaintInv /\ cycles = {}
     \/ stage = "cycles" /\ FlowsDone /\ CyclesInv
     \/ stage = "done" /\ FlowsDone /\ CyclesDone /\ UnguardedRight

LEMMA InitPipeline == Init => PipelineInv
<1> SUFFICES ASSUME Init PROVE PipelineInv
  OBVIOUS
<1>1. IInv
  BY InitInv DEF Init
<1>2. entries = <<>> /\ callees = [n \in Ids |-> <<>>] /\ pass = "nodes"
  BY DEF Init, GraphInit
<1>3. entries \in Seq(Files \X Nat) /\ Len(entries) = 0
  BY <1>2
<1>4. \A n \in Ids : Len(callees[n]) = 0
  BY <1>2
<1>5. GraphMore
  BY <1>2, <1>3, <1>4 DEF GraphMore
<1> QED
  BY <1>1, <1>5 DEF Init, PipelineInv

\* A step of the searches leaves the graph as it is.
LEMMA GraphKept ==
  ASSUME IInv, GraphMore, UNCHANGED graphVars
  PROVE  IInv' /\ GraphMore' /\ pass' = pass
BY StutterInv, GraphMoreNext, GraphFixed

LEMMA CyclesStartInv ==
  ASSUME GraphMore, TaintDone, cycles = {}
  PROVE  CyclesInv'
<1>1. UNCHANGED graphVars /\ stack' = <<>> /\ cycles' = {} /\ pending' = entries /\ MaxCycleDepth \in Nat
  BY DepthAssumption DEF TaintDone
<1>2. stack' \in Seq(Visits) /\ Len(stack') = 0
  BY <1>1
<1>3. StackInv' /\ OutInv' /\ FoundRight' /\ BehindInv'
  BY <1>1, <1>2 DEF StackInv, OutInv, FoundRight, BehindInv
<1>4. PendingInv'
  <2>1. entries \in Seq({entries[k] : k \in 1..Len(entries)})
    BY DEF GraphMore
  <2> QED
    BY <1>1, <2>1, GraphFixed DEF PendingInv
<1>5. CycleStarts'
  <2>1. \A n \in LiveEntries : Waiting(n)'
    BY <1>1, GraphFixed DEF LiveEntries, Waiting
  <2> QED
    BY <1>1, <2>1, CallsFixed DEF CycleStarts, Starts
<1> QED
  BY <1>3, <1>4, <1>5 DEF CyclesInv

LEMMA CyclesAreDone ==
  ASSUME CyclesInv, stack = <<>>, pending = <<>>
  PROVE  CyclesDone
<1>1. \A n : ~Waiting(n)
  BY DEF Waiting
<1> QED
  BY <1>1 DEF CyclesInv, CyclesDone, CycleStarts

LEMMA CyclesStay ==
  ASSUME CyclesDone, UNCHANGED graphVars, UNCHANGED cycles
  PROVE  CyclesDone'
BY CallsFixed DEF CyclesDone, FoundRight, AllReported

LEMMA UnprotectedFixed ==
  ASSUME UNCHANGED graphVars
  PROVE  Nodes' = Nodes /\ \A n, m : Unprotected(n, m)' <=> Unprotected(n, m)
<1>1. /\ nodes' = nodes /\ Nodes' = Nodes /\ Writers' = Writers /\ ClosedSets' = ClosedSets
      /\ \A n : Callees(n)' = Callees(n)
      /\ \A p : Def(p)' = Def(p)
      /\ \A m, n : CallsOut(m, n)' <=> CallsOut(m, n)
  BY GraphFixed DEF Nodes, Writers, ClosedSets, Callees, Def, CallsOut, EdgesOf
<1>2. \A n : Below(ClosedSets, n)' = Below(ClosedSets, n)
  BY <1>1 DEF Below
<1>3. ASSUME NEW n, NEW m
      PROVE  Unprotected(n, m)' <=> Unprotected(n, m)
  <2>1. Def(nodes[n])' = Def(nodes[n])
    BY <1>1 DEF Def
  <2> QED
    BY <1>1, <1>2, <2>1 DEF Unprotected
<1> QED
  BY <1>1, <1>3

\* The flags of a graph that is built
LEMMA BuiltFlags ==
  ASSUME IInv, GraphMore, pass = "built"
  PROVE  /\ toExternal = {n \in Nodes : Below(ClosedSets, n) \cap external # {}}
         /\ toWrite = {n \in Nodes : Below(ClosedSets, n) \cap Writers # {}}
<1>1. left = {} /\ ~changed /\ external \subseteq Ids
  BY DEF GraphMore, IInv, GraphTyped
<1>2. toExternal = {n \in Nodes : Below(ClosedSets, n) \cap external # {}}
  BY <1>1, AtRestExact DEF IInv, Flags
<1>3. toWrite = {n \in Nodes : Below(ClosedSets, n) \cap Writers # {}}
  BY <1>1, AtRestExact, WritersAreIds DEF IInv, Flags
<1> QED BY <1>2, <1>3

LEMMA UnguardedFound ==
  ASSUME IInv, GraphMore, pass = "built", DetectUnprotected
  PROVE  UnguardedRight'
<1>1. UNCHANGED graphVars
  BY DEF DetectUnprotected
<1>2. Writers \subseteq Nodes /\ Nodes \subseteq Ids
  BY DEF Writers, Nodes
<1>3. GraphTyped /\ OnlyNodesCall
  BY DEF IInv
<1>4. PICK W : W = {n \in Nodes : Below(ClosedSets, n) \cap Writers # {}}
  OBVIOUS
<1>5. toWrite = W
  BY <1>4, BuiltFlags
<1>6. PICK O : O = {m \in external : Def(nodes[m]).public /\ ~Def(nodes[m]).guarded}
  OBVIOUS
<1>7. PICK Right : Right = {x \in Nodes \X Nodes : Unprotected(x[1], x[2])}
  OBVIOUS
<1>8. unguarded' =
        UNION {{<<n, callees[n][k].callee>> :
                  k \in {j \in 1..Len(callees[n]) : /\ callees[n][j].kind \in Leaving
                                                    /\ callees[n][j].callee \in Writers \cup toWrite}} : n \in O}
  BY <1>6 DEF DetectUnprotected
<1>9. ASSUME NEW x \in unguarded'
      PROVE  x \in Right
  <2>1. PICK n \in O : x \in {<<n, callees[n][k].callee>> :
                  k \in {j \in 1..Len(callees[n]) : /\ callees[n][j].kind \in Leaving
                                                    /\ callees[n][j].callee \in Writers \cup toWrite}}
    BY <1>8
  <2>2. PICK k \in 1..Len(callees[n]) : /\ callees[n][k].kind \in Leaving
                                        /\ callees[n][k].callee \in Writers \cup toWrite
                                        /\ x = <<n, callees[n][k].callee>>
    BY <2>1
  <2>3. PICK m : m = callees[n][k].callee
    OBVIOUS
  <2>4. n \in Ids /\ n \in external /\ Def(nodes[n]).public /\ ~Def(nodes[n]).guarded
    BY <1>3, <1>6 DEF GraphTyped
  <2>5. Callees(n) # {} /\ CallsOut(n, m)
    BY <2>2, <2>3 DEF Callees, CallsOut, EdgesOf
  <2>6. n \in Nodes
    BY <1>3, <2>4, <2>5 DEF OnlyNodesCall
  <2>7. m \in Nodes /\ (m \in Writers \/ Below(ClosedSets, m) \cap Writers # {})
    BY <1>2, <1>4, <1>5, <2>2, <2>3
  <2>8. x = <<n, m>> /\ x \in Nodes \X Nodes /\ x[1] = n /\ x[2] = m
    BY <2>2, <2>3, <2>6, <2>7
  <2> QED
    BY <1>7, <2>4, <2>5, <2>7, <2>8 DEF Unprotected
<1>10. ASSUME NEW x \in Right
       PROVE  x \in unguarded'
  <2>1. PICK n, m : n = x[1] /\ m = x[2]
    OBVIOUS
  <2>2. /\ x = <<n, m>> /\ n \in Nodes /\ m \in Nodes
        /\ Def(nodes[n]).public /\ ~Def(nodes[n]).guarded /\ CallsOut(n, m)
        /\ m \in Writers \/ Below(ClosedSets, m) \cap Writers # {}
    BY <1>7, <2>1 DEF Unprotected
  <2>3. PICK e \in EdgesOf(n) : e.callee = m /\ e.kind \in Leaving
    BY <2>2 DEF CallsOut
  <2>4. PICK k \in 1..Len(callees[n]) : e = callees[n][k]
    BY <1>2, <1>3, <2>2, EdgesTyped
  <2>5. n \in O
    BY <1>2, <1>6, <2>2, <2>3, <2>4 DEF GraphMore
  <2>6. m \in Writers \cup toWrite
    BY <1>4, <1>5, <2>2
  <2> QED
    BY <1>8, <2>2, <2>3, <2>4, <2>5, <2>6
<1>11. unguarded' = Right
  BY <1>9, <1>10
<1> QED
  BY <1>1, <1>7, <1>11, UnprotectedFixed DEF UnguardedRight

LEMMA UnguardedStay ==
  ASSUME UnguardedRight, UNCHANGED graphVars, UNCHANGED unguarded
  PROVE  UnguardedRight'
BY UnprotectedFixed DEF UnguardedRight

LEMMA NextPipeline == PipelineInv /\ [Next]_vars => PipelineInv'
<1> SUFFICES ASSUME PipelineInv, [Next]_vars PROVE PipelineInv'
  OBVIOUS
<1>1. IInv /\ GraphMore /\ GraphTyped
  BY DEF PipelineInv, IInv
<1>2. CASE BuildGraph
  <2>1. stage = "graph" /\ GraphNext /\ UNCHANGED searchVars
    BY <1>2 DEF BuildGraph
  <2>2. IInv' /\ GraphMore'
    BY <1>1, <2>1, GraphNextInv, GraphMoreNext
  <2> QED
    BY <2>1, <2>2 DEF PipelineInv, searchVars
<1>3. CASE GraphReady
  <2>1. stage = "graph" /\ pass = "built" /\ stage' = "taint" /\ UNCHANGED graphVars /\ UNCHANGED cycles
    BY <1>3 DEF GraphReady
  <2>2. stack = <<>> /\ heap = <<>> /\ flows = {} /\ cycles = {}
    BY <2>1 DEF PipelineInv
  <2>3. TaintInv'
    BY <1>1, <1>3, <2>2, GraphReadyInv
  <2> QED
    BY <1>1, <2>1, <2>2, <2>3, GraphKept DEF PipelineInv
<1>4. CASE TaintEntry \/ TaintEdge \/ TaintReturn
  <2>1. stage = "taint" /\ stage' = "taint" /\ UNCHANGED graphVars /\ UNCHANGED cycles
    BY <1>4 DEF TaintEntry, TaintEdge, TaintReturn
  <2>2. TaintInv /\ cycles = {} /\ pass = "built"
    BY <2>1 DEF PipelineInv
  <2>3. TaintInv'
    BY <1>1, <1>4, <2>2, TaintEntryInv, TaintEdgeInv, TaintReturnInv
  <2> QED
    BY <1>1, <2>1, <2>2, <2>3, GraphKept DEF PipelineInv
<1>5. CASE TaintDone
  <2>1. /\ stage = "taint" /\ stage' = "cycles" /\ stack = <<>> /\ pending = <<>>
        /\ UNCHANGED graphVars /\ UNCHANGED <<heap, flows>>
    BY <1>5 DEF TaintDone
  <2>2. TaintInv /\ cycles = {} /\ pass = "built"
    BY <2>1 DEF PipelineInv
  <2>3. FlowsDone'
    BY <2>1, <2>2, TaintIsDone, FlowsStay
  <2>4. CyclesInv'
    BY <1>1, <1>5, <2>2, CyclesStartInv
  <2> QED
    BY <1>1, <2>1, <2>2, <2>3, <2>4, GraphKept DEF PipelineInv
<1>6. CASE CycleEntry \/ CycleEdge \/ CycleReturn
  <2>1. /\ stage = "cycles" /\ stage' = "cycles" /\ UNCHANGED graphVars /\ UNCHANGED <<heap, flows>>
    BY <1>6 DEF CycleEntry, CycleEdge, CycleReturn
  <2>2. FlowsDone /\ CyclesInv /\ pass = "built"
    BY <2>1 DEF PipelineInv
  <2>3. CyclesInv'
    BY <1>1, <1>6, <2>2, CycleEntryInv, CycleEdgeInv, CycleReturnInv
  <2> QED
    BY <1>1, <2>1, <2>2, <2>3, GraphKept, FlowsStay DEF PipelineInv
<1>7. CASE DetectUnprotected
  <2>1. /\ stage = "cycles" /\ stage' = "done" /\ stack = <<>> /\ pending = <<>>
        /\ UNCHANGED graphVars /\ UNCHANGED <<heap, flows, cycles>>
    BY <1>7 DEF DetectUnprotected
  <2>2. FlowsDone /\ CyclesInv /\ pass = "built"
    BY <2>1 DEF PipelineInv
  <2>3. CyclesDone'
    BY <2>1, <2>2, CyclesAreDone, CyclesStay
  <2>4. UnguardedRight'
    BY <1>1, <1>7, <2>2, UnguardedFound
  <2> QED
    BY <1>1, <2>1, <2>2, <2>3, <2>4, GraphKept, FlowsStay DEF PipelineInv
<1>8. CASE UNCHANGED vars
  <2>1. UNCHANGED graphVars /\ UNCHANGED <<stage, pending, stack, heap, flows, cycles, unguarded>>
    BY <1>8 DEF vars, searchVars
  <2>2. IInv' /\ GraphMore' /\ pass' = pass
    BY <1>1, <2>1, GraphKept
  <2>3. TaintInv => TaintInv'
    <3> SUFFICES ASSUME TaintInv PROVE TaintInv'
      OBVIOUS
    <3>1. /\ \A x, d : Searched(x, d) => Searched(x, d)'
          /\ \A f : FlowRight(f) => FlowRight(f)'
          /\ \A k : At(k)' = At(k) /\ Via(k)' = Via(k)
          /\ \A n : Waiting(n)' <=> Waiting(n)
      BY <2>1, GraphFixed, KeptSearched, KeptFlow, KeptWaiting DEF At, Via
    <3>2. StackInv' /\ PendingInv' /\ SlicesInv'
      BY <2>1, <3>1, GraphFixed DEF TaintInv, StackInv, PendingInv, SlicesInv
    <3>3. PathInv'
      BY <2>1, <3>1, GraphFixed DEF TaintInv, PathInv
    <3>4. DeepInv'
      BY <2>1, <3>1, GraphFixed DEF TaintInv, DeepInv, Behind
    <3>5. StartsInv'
      BY <2>1, <3>1, GraphFixed DEF TaintInv, StartsInv
    <3>6. FlowsInv'
      BY <2>1, <3>1 DEF TaintInv, FlowsInv
    <3> QED
      BY <3>2, <3>3, <3>4, <3>5, <3>6 DEF TaintInv
  <2>4. CyclesInv => CyclesInv'
    <3> SUFFICES ASSUME CyclesInv PROVE CyclesInv'
      OBVIOUS
    <3>1. /\ \A n : AllReported(n) => AllReported(n)'
          /\ \A k : Via(k)' = Via(k)
          /\ \A n : Waiting(n)' <=> Waiting(n)
      BY <2>1, GraphFixed, KeptReported, KeptWaiting DEF Via
    <3>2. StackInv' /\ PendingInv'
      BY <2>1, <3>1, GraphFixed DEF CyclesInv, StackInv, PendingInv
    <3>3. OutInv' /\ FoundRight'
      BY <2>1, <3>1, CallsFixed DEF CyclesInv, OutInv, FoundRight
    <3>4. BehindInv'
      BY <2>1, GraphFixed, CallsFixed DEF CyclesInv, BehindInv, Follows
    <3>5. CycleStarts'
      BY <2>1, <3>1, CallsFixed DEF CyclesInv, CycleStarts
    <3> QED
      BY <3>2, <3>3, <3>4, <3>5 DEF CyclesInv
  <2>5. /\ FlowsDone => FlowsDone'
        /\ CyclesDone => CyclesDone'
        /\ UnguardedRight => UnguardedRight'
    BY <2>1, FlowsStay, CyclesStay, UnguardedStay
  <2> QED
    BY <2>1, <2>2, <2>3, <2>4, <2>5 DEF PipelineInv
<1> QED
  BY <1>2, <1>3, <1>4, <1>5, <1>6, <1>7, <1>8 DEF Next

LEMMA ReportsFromInv == PipelineInv => ReportsExact
<1> SUFFICES ASSUME PipelineInv, stage = "done" PROVE ReportsExact
  BY DEF ReportsExact, FlowsExact, FindingsExact
<1>1. IInv /\ GraphMore /\ GraphTyped /\ pass = "built"
  BY DEF PipelineInv, IInv
<1>2. FlowsDone /\ CyclesDone /\ UnguardedRight
  BY DEF PipelineInv
<1>3. FlowsExact
  BY <1>1, <1>2, FlowsFromDone
<1>4. Starts = {m \in LiveEntries : Below(ClosedSets, m) \cap external # {}}
  BY <1>1, BuiltFlags, StartsTyped DEF Starts
<1>5. \A n \in Starts : n \in Ids
  BY <1>1, StartsTyped DEF Starts
<1>6. \A n \in Starts : \A w : w \in ReturningPaths(n) <=> Returning(n, w)
  BY <1>1, <1>5, ReturningAre
<1>7. cycles = UNION {ReturningPaths(n) : n \in Starts}
  <2>1. ASSUME NEW w \in cycles
        PROVE  w \in UNION {ReturningPaths(n) : n \in Starts}
    BY <1>2, <1>6 DEF CyclesDone, FoundRight
  <2>2. ASSUME NEW n \in Starts, NEW w \in ReturningPaths(n)
        PROVE  w \in cycles
    BY <1>2, <1>6 DEF CyclesDone, AllReported
  <2> QED
    BY <2>1, <2>2
<1>8. FindingsExact
  BY <1>2, <1>4, <1>7 DEF FindingsExact, UnguardedRight, Unprotected
<1> QED
  BY <1>3, <1>8 DEF ReportsExact

\* What InterContractPipeline.Analyze reports at its end is what the paths of the graph
\* say, for all projects, orders of the maps, and both depths: every flow carries its own
\* path's crossings though the paths share backing arrays, no flow and no cycle is missed
\* or made up, and the unprotected calls are those that lead to a state write.
THEOREM ReportsAreExact == Spec => []ReportsExact
<1>1. Init => PipelineInv
  BY InitPipeline
<1>2. PipelineInv /\ [Next]_vars => PipelineInv'
  BY NextPipeline
<1>3. PipelineInv => ReportsExact
  BY ReportsFromInv
<1> QED BY <1>1, <1>2, <1>3, PTL DEF Spec
=============================================================================
