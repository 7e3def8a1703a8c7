--------------------------- MODULE TaintSummaries ---------------------------
(***************************************************************************)
(* internal/taint/summary.go: SummaryBuilder.BuildAll computes, for every  *)
(* function and every parameter, the kinds of sinks the parameter reaches  *)
(* and whether it reaches a return, from the function's own call sites and *)
(* the summaries of its resolved callees.                                  *)
(*                                                                         *)
(* The recursion buildSummary is a depth-first search over the call graph, *)
(* started at the nodes in the order of Go's map, any order.  A callee     *)
(* that is still open gets a conservative summary; buildSummary returns it *)
(* to a caller that drops it, and the caller's summary is then computed    *)
(* without it.                                                             *)
(*                                                                         *)
(* An expression is what the two readers of expressions see of it: `names' *)
(* are the identifiers containsIdentifier finds, `reads' the leaves        *)
(* exprTaintLabel tries, in its order.  The fields of a summary that       *)
(* nothing reads (AlwaysSinks, StateWriteByParam, ReachesStateWrite,       *)
(* ReturnTaintedBy, PropagatesTo) are left out.                            *)
(***************************************************************************)
EXTENDS Naturals, Sequences, FiniteSets

CONSTANTS Funs,     \* the functions of a source unit
          Names,    \* identifiers, and the leaves of expressions
          NoFun,    \* the callee of a call that is not resolved
          Programs  \* the source units looked at: a record for each function

CallKinds == {"internal", "library", "virtual", "external", "delegatecall", "staticcall"}
SinkKinds == {"external-call", "eth-transfer", "delegatecall", "storage-write"}

Exprs     == [reads : Seq(Names), names : SUBSET Names]
CallSites == [kind : CallKinds, callee : Funs \cup {NoFun}, args : Seq(Exprs)]

ASSUME ProgramsAssumption ==
  /\ NoFun \notin Funs
  /\ \A p \in Programs, f \in Funs :
       p[f].params \in Seq(Names) /\ p[f].sites \in Seq(CallSites)

VARIABLES
  program,  \* the source unit, with the call sites of the call graph
  unbuilt,  \* the nodes BuildAll has still to visit
  calls,    \* the open calls of buildSummary, innermost last: inProgress
  built,    \* the functions with a computed summary
  summary   \* ParameterFlows of each function

summaryVars == <<program, unbuilt, calls, built, summary>>

Params(f) == program[f].params
Sites(f)  == program[f].sites
Slots     == UNION {{f} \X (1..Len(Params(f))) : f \in Funs}

Frames     == [fun : Funs, next : Nat \ {0}]
ParamFlows == [sinks : SUBSET SinkKinds, returns : BOOLEAN]

SummaryTypeOK ==
  /\ \A f \in Funs : Params(f) \in Seq(Names) /\ Sites(f) \in Seq(CallSites)
  /\ unbuilt \subseteq Funs
  /\ calls \in Seq(Frames) /\ Len(calls) <= Cardinality(Funs)
  /\ built \subseteq Funs
  /\ summary \in [Funs -> Seq(ParamFlows)]

SummaryInit ==
  /\ program \in Programs
  /\ unbuilt = Funs
  /\ calls = <<>>
  /\ built = {}
  /\ summary = [f \in Funs |-> <<>>]

-----------------------------------------------------------------------------
(* What a function says of its own parameters *)

Mentioned(n, site) == {i \in 1..Len(site.args) : n \in site.args[i].names}

\* findParamPositionInCall: the first argument that mentions the parameter.
Passed(n, site, i) ==
  /\ i \in Mentioned(n, site)
  /\ \A j \in Mentioned(n, site) : i <= j

\* The call sites of f hand parameter i of f to parameter j of g.
Feeds(f, i, g, j) ==
  \E k \in 1..Len(Sites(f)) :
    /\ Sites(f)[k].callee = g
    /\ Passed(Params(f)[i], Sites(f)[k], j)

\* paramReachesSinks: only calls of these two kinds are sinks.
OwnSinks(f, i) ==
  {kind \in {"external-call", "delegatecall"} :
     \E k \in 1..Len(Sites(f)) :
       /\ Sites(f)[k].kind = IF kind = "external-call" THEN "external" ELSE "delegatecall"
       /\ Mentioned(Params(f)[i], Sites(f)[k]) # {}}

\* paramReachesReturn: a return statement at the top level of the body.
OwnReturn(f, i) ==
  \E k \in 1..Len(program[f].body) :
    /\ program[f].body[k].kind = "return"
    /\ Params(f)[i] \in program[f].body[k].expr.names

\* The parameters with a summary that parameter i of f is handed to.
Fed(f, i) == {s \in Slots : s[1] \in built /\ Feeds(f, i, s[1], s[2])}

\* A slip: the callees' sinks taken whatever is handed to them.
FlowOfCallees(f, i) ==
  LET below == {s \in Slots : s[1] \in built
                  /\ \E k \in 1..Len(Sites(f)) : Sites(f)[k].callee = s[1]}
  IN [sinks   |-> OwnSinks(f, i) \cup UNION {summary[s[1]][s[2]].sinks : s \in below},
      returns |-> OwnReturn(f, i) \/ \E s \in below : summary[s[1]][s[2]].returns]

\* computeFunctionSummary, for one parameter
Flow(f, i) ==
  [sinks   |-> OwnSinks(f, i) \cup UNION {summary[s[1]][s[2]].sinks : s \in Fed(f, i)},
   returns |-> OwnReturn(f, i) \/ \E s \in Fed(f, i) : summary[s[1]][s[2]].returns]

-----------------------------------------------------------------------------
(* The search *)

CallFrame(f) == [fun |-> f, next |-> 1]
Innermost == calls[Len(calls)]
Returned  == SubSeq(calls, 1, Len(calls) - 1)
Advanced  == [calls EXCEPT ![Len(calls)].next = @ + 1]
Open(f)   == \E i \in 1..Len(calls) : calls[i].fun = f

Building   == calls # <<>>
MoreSites  == Building /\ Innermost.next <= Len(Sites(Innermost.fun))
Site       == Sites(Innermost.fun)[Innermost.next]

\* BuildAll takes its next node.
Visit(f) ==
  /\ ~Building
  /\ f \in unbuilt
  /\ unbuilt' = unbuilt \ {f}
  /\ calls' = IF f \in built THEN <<>> ELSE <<CallFrame(f)>>
  /\ UNCHANGED <<program, built, summary>>

\* The loop over Callees: computed and open callees return at once.
Descend ==
  /\ MoreSites
  /\ calls' = IF Site.callee = NoFun \/ Site.callee \in built \/ Open(Site.callee)
              THEN Advanced
              ELSE Append(Advanced, CallFrame(Site.callee))
  /\ UNCHANGED <<program, unbuilt, built, summary>>

\* The end of buildSummary.
Summarise ==
  /\ Building
  /\ ~MoreSites
  /\ LET f == Innermost.fun IN
       /\ summary' = [summary EXCEPT ![f] = [i \in 1..Len(Params(f)) |-> Flow(f, i)]]
       /\ built' = built \cup {f}
  /\ calls' = Returned
  /\ UNCHANGED <<program, unbuilt>>

SummaryNext ==
  \/ \E f \in Funs : Visit(f)
  \/ Descend
  \/ Summarise

BuildAllDone == ~Building /\ unbuilt = {}

SummarySpec == SummaryInit /\ [][SummaryNext]_summaryVars

-----------------------------------------------------------------------------
(* Properties *)

\* The parameters a parameter ends up in: what every set closed under Feeds has.
ClosedUnderFeeds ==
  LET fed == {e \in Slots \X Slots : Feeds(e[1][1], e[1][2], e[2][1], e[2][2])}
  IN {S \in SUBSET Slots : \A e \in fed : e[1] \in S => e[2] \in S}
EndsIn(closed, s) == {t \in Slots : \A S \in closed : s \in S => t \in S}

\* The functions resolved calls lead to from f, f among them.
CallsResolved(f, g) == \E k \in 1..Len(Sites(f)) : Sites(f)[k].callee = g
LeadsTo(f) ==
  {g \in Funs : \A S \in SUBSET Funs :
     f \in S /\ (\A m \in S, n \in Funs : CallsResolved(m, n) => n \in S) => g \in S}

\* No false alarm: a sink in a parameter's summary is a sink of a parameter it is
\* handed on to, along any chain of calls, and so is a return.
NothingInvented ==
  LET closed == ClosedUnderFeeds IN
  \A f \in built : \A i \in 1..Len(Params(f)) :
    LET ends == EndsIn(closed, <<f, i>>) IN
      /\ \A kind \in summary[f][i].sinks : \E t \in ends : kind \in OwnSinks(t[1], t[2])
      /\ summary[f][i].returns => \E t \in ends : OwnReturn(t[1], t[2])

\* BuildAll loses a sink or a return only along a call between two functions that call
\* each other, whatever order the map gives: outside recursion the summaries are exact.
SinksLostInRecursionOnly ==
  BuildAllDone =>
    \A f \in Funs : \A i \in 1..Len(Params(f)) :
      /\ OwnSinks(f, i) \subseteq summary[f][i].sinks
      /\ OwnReturn(f, i) => summary[f][i].returns
      /\ \A t \in Slots :
           Feeds(f, i, t[1], t[2]) =>
             \/ f \in LeadsTo(t[1])
             \/ /\ summary[t[1]][t[2]].sinks \subseteq summary[f][i].sinks
                /\ summary[t[1]][t[2]].returns => summary[f][i].returns

\* A summary has the sinks its parameter's values get to, but for what recursion loses.
SummariesRight == NothingInvented /\ SinksLostInRecursionOnly
=============================================================================
