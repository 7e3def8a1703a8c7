------------------------ MODULE InterproceduralTaint ------------------------
(***************************************************************************)
(* internal/taint/interprocedural.go, as advanced_pipeline.go runs it:     *)
(* InterproceduralEngine.Analyze builds the summaries, then walks the      *)
(* statements of every entry point with a map from names to taint labels,  *)
(* enters the callees of calls with tainted arguments, and collects flows. *)
(*                                                                         *)
(* A call of analyzeFunction or of analyzeStatement on a branch or a loop  *)
(* body is a frame: its statements still to come and its taint state.  A   *)
(* statement is one of                                                     *)
(*   [kind |-> "declare", vars, expr, called]   called: the initial value  *)
(*                                              is a function call         *)
(*   [kind |-> "assign", to, expr]                                         *)
(*   [kind |-> "call", site]       the site-th of the function's Callees   *)
(*   [kind |-> "unlisted", member, args]   a call that is not among them   *)
(*   [kind |-> "return", expr]                                             *)
(*   [kind |-> "if", yes, no]  and  [kind |-> "for", body]                 *)
(* The label of a leaf msg.sender, tx.origin, ... is the leaf itself; the  *)
(* leaf "__return__" stands for a function call in an expression.  Nothing *)
(* reads TaintedParams; it is left out.                                    *)
(***************************************************************************)
EXTENDS TaintSummaries

CONSTANTS StateVars, \* the names of state variables
          MaxCalls   \* calls on Go's stack when it overflows

ASSUME WalkAssumption ==
  /\ "__return__" \in Names
  /\ StateVars \subseteq Names
  /\ MaxCalls \in Nat
  /\ \A p \in Programs, f \in Funs : p[f].public \in BOOLEAN

VARIABLES
  phase,    \* "summaries", "walk", "done", or "overflow": the process is dead
  entries,  \* the entry points still to analyse
  frames,   \* the walk's open calls, branches and loops, innermost last
  flows     \* the TaintFlows found, as a set

walkVars == <<phase, entries, frames, flows>>
vars == <<summaryVars, walkVars>>

SourceLeaves == {"msg.sender", "msg.value", "msg.data", "tx.origin",
                 "block.timestamp", "block.number"}
NoTaint      == "none"
Labels       == SourceLeaves \cup {"calldata"}
Locals       == [Names \ SourceLeaves -> Labels \cup {NoTaint}]
FlowRecords  == [label : Labels, sink : SinkKinds, fun : Funs]

EntryPoints(p) == {f \in Funs : p[f].public}

-----------------------------------------------------------------------------
(* Taint states *)

Untainted == [n \in Names \ SourceLeaves |-> NoTaint]

Tainting(locals, names, label) ==
  [n \in DOMAIN locals |-> IF n \in names THEN label ELSE locals[n]]

LeafLabel(n, locals) == IF n \in SourceLeaves THEN n ELSE locals[n]

\* exprTaintLabel: the first tainted leaf gives the label.
Label(expr, locals) ==
  LET tainted == {i \in 1..Len(expr.reads) : LeafLabel(expr.reads[i], locals) # NoTaint}
  IN IF tainted = {} THEN NoTaint
     ELSE LeafLabel(expr.reads[CHOOSE i \in tainted : \A j \in tainted : i <= j], locals)

ArgLabels(args, locals) == [i \in 1..Len(args) |-> Label(args[i], locals)]

Tainted(labels) == {i \in 1..Len(labels) : labels[i] # NoTaint}

\* A slip: the label of an argument given to the next parameter.
BoundNext(g, labels) ==
  [n \in Names \ SourceLeaves |->
     IF \E i \in Tainted(labels) : i < Len(Params(g)) /\ Params(g)[i + 1] = n
     THEN labels[CHOOSE i \in Tainted(labels) : i < Len(Params(g)) /\ Params(g)[i + 1] = n]
     ELSE NoTaint]

\* The callee's state: its parameters have the labels of the arguments.
Bound(g, labels) ==
  [n \in Names \ SourceLeaves |->
     IF \E i \in Tainted(labels) : i <= Len(Params(g)) /\ Params(g)[i] = n
     THEN labels[CHOOSE i \in Tainted(labels) : i <= Len(Params(g)) /\ Params(g)[i] = n]
     ELSE NoTaint]

\* analyzeFunction: the parameters of a public function are calldata, whoever calls it.
Seeded(g, locals) ==
  IF program[g].public
  THEN Tainting(locals, {Params(g)[i] : i \in 1..Len(Params(g))}, "calldata")
  ELSE locals

\* mergeStates(dst, a, b): of a, nothing but TaintedParams is read.
Merged(dst, b) ==
  [dst EXCEPT
     !.locals = [n \in DOMAIN dst.locals |->
                   IF b.locals[n] # NoTaint THEN b.locals[n] ELSE dst.locals[n]],
     !.ret    = IF b.ret # NoTaint THEN b.ret ELSE dst.ret]

-----------------------------------------------------------------------------
(* The walk's stack *)

WalkFrame(kind, f, code, locals, ret) ==
  [kind |-> kind, fun |-> f, code |-> code, locals |-> locals, ret |-> ret,
   no |-> <<>>, other |-> Untainted]

Walking == phase = "walk" /\ frames # <<>>
Current == frames[Len(frames)]
Head1   == Head(Current.code)
At(kind) == Walking /\ Current.code # <<>> /\ Head1.kind = kind
AtEnd(kinds) == Walking /\ Current.code = <<>> /\ Current.kind \in kinds

Outer    == SubSeq(frames, 1, Len(frames) - 1)
Passing  == [Current EXCEPT !.code = Tail(@)]
Caller   == frames[Len(frames) - 1]
WithTop(fr) == Append(Outer, fr)
WithCaller(fr) == Append(SubSeq(frames, 1, Len(frames) - 2), fr)
OpenCalls == Cardinality({i \in 1..Len(frames) : frames[i].kind = "call"})

Found(labels, sink) ==
  {[label |-> labels[i], sink |-> sink, fun |-> Current.fun] : i \in Tainted(labels)}

-----------------------------------------------------------------------------
(* Analyze *)

Init ==
  /\ SummaryInit
  /\ phase = "summaries"
  /\ entries = EntryPoints(program)
  /\ frames = <<>>
  /\ flows = {}

BuildSummaries ==
  /\ phase = "summaries"
  /\ SummaryNext
  /\ UNCHANGED walkVars

SummariesReady ==
  /\ phase = "summaries"
  /\ BuildAllDone
  /\ phase' = "walk"
  /\ UNCHANGED <<summaryVars, entries, frames, flows>>

Enter(f) ==
  /\ phase = "walk"
  /\ frames = <<>>
  /\ f \in entries
  /\ entries' = entries \ {f}
  /\ frames' = <<WalkFrame("entry", f, program[f].body, Seeded(f, Untainted), NoTaint)>>
  /\ UNCHANGED <<summaryVars, phase, flows>>

Declare ==
  /\ At("declare")
  /\ LET label  == Label(Head1.expr, Current.locals)
         vars1  == {Head1.vars[i] : i \in 1..Len(Head1.vars)}
         later  == {Head1.vars[i] : i \in 2..Len(Head1.vars)}
         first  == IF label = NoTaint THEN Current.locals
                   ELSE Tainting(Current.locals, vars1, label)
         return == first["__return__"]
         after  == IF Head1.called /\ return # NoTaint
                   THEN Tainting(first, later, return)   \* handleCalleeResult
                   ELSE first
     IN frames' = WithTop([Passing EXCEPT !.locals = after])
  /\ UNCHANGED <<summaryVars, phase, entries, flows>>

\* Taint is added, never taken away: an untainted value leaves the name as it is.
Assign ==
  /\ At("assign")
  /\ LET label == Label(Head1.expr, Current.locals) IN
       IF label = NoTaint
       THEN frames' = WithTop(Passing) /\ UNCHANGED flows
       ELSE /\ frames' = WithTop([Passing EXCEPT !.locals = Tainting(@, {Head1.to}, label)])
            /\ flows' = flows \cup (IF Head1.to \in StateVars
                                    THEN Found(<<label>>, "storage-write") ELSE {})
  /\ UNCHANGED <<summaryVars, phase, entries>>

Return ==
  /\ At("return")
  /\ LET label == Label(Head1.expr, Current.locals) IN
       frames' = WithTop(IF label = NoTaint THEN Passing ELSE [Passing EXCEPT !.ret = label])
  /\ UNCHANGED <<summaryVars, phase, entries, flows>>

CallSite == Sites(Current.fun)[Head1.site]
SiteLabels == ArgLabels(CallSite.args, Current.locals)

\* A low-level call that is a sink: the callee is not entered.
CallOut ==
  /\ At("call")
  /\ CallSite.kind \in {"external", "delegatecall"}
  /\ flows' = flows \cup Found(SiteLabels, IF CallSite.kind = "external" THEN "external-call"
                                           ELSE "delegatecall")
  /\ frames' = WithTop(Passing)
  /\ UNCHANGED <<summaryVars, phase, entries>>

\* A call that is not resolved, or has no tainted argument, changes nothing.
CallSkipped ==
  /\ At("call")
  /\ CallSite.kind \notin {"external", "delegatecall"}
  /\ CallSite.callee = NoFun \/ Tainted(SiteLabels) = {}
  /\ frames' = WithTop(Passing)
  /\ UNCHANGED <<summaryVars, phase, entries, flows>>

\* The flows the callee's summary promises for the tainted arguments.
SummaryFlows(g, labels) ==
  UNION {{[label |-> labels[i], sink |-> sink, fun |-> Current.fun] :
            sink \in summary[g][i].sinks} :
         i \in Tainted(labels) \cap (1..Len(summary[g]))}

EntersCallee ==
  /\ At("call")
  /\ CallSite.kind \notin {"external", "delegatecall"}
  /\ CallSite.callee # NoFun
  /\ Tainted(SiteLabels) # {}

\* A resolved call with tainted arguments is analysed again, in its own taint state.
CallIn ==
  /\ EntersCallee
  /\ OpenCalls < MaxCalls
  /\ LET g == CallSite.callee IN
       /\ flows' = flows \cup SummaryFlows(g, SiteLabels)
       /\ frames' = Append(WithTop(Passing),
                      WalkFrame("call", g, program[g].body,
                                Seeded(g, Bound(g, SiteLabels)), NoTaint))
  /\ UNCHANGED <<summaryVars, phase, entries>>

\* Nothing bounds the recursion: the runtime ends the process.
Overflow ==
  /\ EntersCallee
  /\ OpenCalls = MaxCalls
  /\ phase' = "overflow"
  /\ UNCHANGED <<summaryVars, entries, frames, flows>>

LowLevel == {"call", "transfer", "send", "delegatecall"}

MemberSink(member) ==
  CASE member = "call" -> "external-call"
    [] member \in {"transfer", "send"} -> "eth-transfer"
    [] member = "delegatecall" -> "delegatecall"

\* checkDirectSink: findCallSite found nothing.
Unlisted ==
  /\ At("unlisted")
  /\ flows' = flows \cup
       (IF Head1.member \in LowLevel
        THEN Found(ArgLabels(Head1.args, Current.locals), MemberSink(Head1.member)) ELSE {})
  /\ frames' = WithTop(Passing)
  /\ UNCHANGED <<summaryVars, phase, entries>>

\* The true branch first, on a copy of the state.
Branch ==
  /\ At("if")
  /\ frames' = Append(WithTop(Passing),
       [WalkFrame("then", Current.fun, Head1.yes, Current.locals, Current.ret)
          EXCEPT !.no = Head1.no])
  /\ UNCHANGED <<summaryVars, phase, entries, flows>>

\* The false branch, on another copy; the true branch's state is kept for the join.
Else ==
  /\ AtEnd({"then"})
  /\ frames' = WithTop(
       [WalkFrame("else", Current.fun, Current.no, Caller.locals, Caller.ret)
          EXCEPT !.other = Current.locals])
  /\ UNCHANGED <<summaryVars, phase, entries, flows>>

\* A slip: after one iteration, the body is analysed on and on.
LoopForever ==
  /\ At("for")
  /\ frames' = Append(WithTop(Current),
       WalkFrame("loop", Current.fun, Head1.body, Current.locals, Current.ret))
  /\ UNCHANGED <<summaryVars, phase, entries, flows>>

\* The body twice, on one copy.
Loop ==
  /\ At("for")
  /\ frames' = Append(WithTop(Passing),
       WalkFrame("loop", Current.fun, Head1.body \o Head1.body, Current.locals, Current.ret))
  /\ UNCHANGED <<summaryVars, phase, entries, flows>>

Join ==
  /\ AtEnd({"else", "loop"})
  /\ frames' = WithCaller(Merged(Caller, Current))
  /\ UNCHANGED <<summaryVars, phase, entries, flows>>

\* The callee's result stays in the caller's state until a later call returns taint.
ReturnToCaller ==
  /\ AtEnd({"call"})
  /\ frames' = IF Current.ret = NoTaint THEN Outer
               ELSE WithCaller([Caller EXCEPT !.locals["__return__"] = Current.ret])
  /\ UNCHANGED <<summaryVars, phase, entries, flows>>

Leave ==
  /\ AtEnd({"entry"})
  /\ frames' = <<>>
  /\ UNCHANGED <<summaryVars, phase, entries, flows>>

Finish ==
  /\ phase = "walk"
  /\ frames = <<>>
  /\ entries = {}
  /\ phase' = "done"
  /\ UNCHANGED <<summaryVars, entries, frames, flows>>

Next ==
  \/ BuildSummaries
  \/ SummariesReady
  \/ \E f \in Funs : Enter(f)
  \/ Declare
  \/ Assign
  \/ Return
  \/ CallOut
  \/ CallSkipped
  \/ CallIn
  \/ Overflow
  \/ Unlisted
  \/ Branch
  \/ Else
  \/ Loop
  \/ Join
  \/ ReturnToCaller
  \/ Leave
  \/ Finish

\* One goroutine runs Analyze to its end.
Spec == Init /\ [][Next]_vars /\ WF_vars(Next)

-----------------------------------------------------------------------------
(* Reference: what the statements of a function can do, in any order *)

RECURSIVE Statements(_)
Statements(code) ==
  UNION {{code[i]} \cup
           (CASE code[i].kind = "if"  -> Statements(code[i].yes) \cup Statements(code[i].no)
              [] code[i].kind = "for" -> Statements(code[i].body)
              [] OTHER -> {}) : i \in 1..Len(code)}

Code(f)     == Statements(program[f].body)
Reads(expr) == {expr.reads[i] : i \in 1..Len(expr.reads)}
Of(kind, f) == {s \in Code(f) : s.kind = kind}

\* The resolved calls of f's statements that the walk enters.
Entered(f) ==
  {site \in {Sites(f)[s.site] : s \in Of("call", f)} :
     site.callee # NoFun /\ site.kind \notin {"external", "delegatecall"}}

\* The least set that has S and what the edges lead to from its members.
RECURSIVE Spread(_, _)
Spread(S, edges) ==
  LET next == {e[2] : e \in {d \in edges : d[1] \in S}}
  IN IF next \subseteq S THEN S ELSE Spread(S \cup next, edges)

\* A name of one function may taint a name of the same or of another one.
Carries ==
  UNION {UNION {
    UNION {({f} \X Reads(s.expr)) \X ({f} \X {s.vars[i] : i \in 1..Len(s.vars)}) :
             s \in Of("declare", f)},
    UNION {({f} \X Reads(s.expr)) \X {<<f, s.to>>} : s \in Of("assign", f)},
    UNION {UNION {({f} \X Reads(r.args[j])) \X {<<r.callee, Params(r.callee)[j]>>} :
                    j \in 1..Len(r.args) \cap 1..Len(Params(r.callee))} : r \in Entered(f)},
    UNION {UNION {({r.callee} \X Reads(s.expr)) \X {<<f, "__return__">>} :
                    s \in Of("return", r.callee)} : r \in Entered(f)}} : f \in Funs}

\* The names, of any function, that may have the label.
MayHave(label) ==
  Spread(IF label = "calldata"
         THEN UNION {{f} \X {Params(f)[i] : i \in 1..Len(Params(f))} : f \in EntryPoints(program)}
         ELSE Funs \X {label}, Carries)

LeavesOf(args) == UNION {Reads(args[j]) : j \in 1..Len(args)}

\* <<n, sink>>: a statement of f puts the leaf n into the sink, or hands it to a
\* parameter that ends in the sink.
SinkUses(f) ==
  LET listed == {Sites(f)[s.site] : s \in Of("call", f)} IN
  UNION {
    UNION {LeavesOf(r.args) \X {"external-call"} : r \in {x \in listed : x.kind = "external"}},
    UNION {LeavesOf(r.args) \X {"delegatecall"} : r \in {x \in listed : x.kind = "delegatecall"}},
    UNION {Reads(s.expr) \X {"storage-write"} : s \in {x \in Of("assign", f) : x.to \in StateVars}},
    UNION {LeavesOf(s.args) \X {MemberSink(s.member)} :
             s \in {x \in Of("unlisted", f) : x.member \in LowLevel}},
    UNION {UNION {Reads(r.args[j])
                    \X (UNION {OwnSinks(t[1], t[2]) : t \in EndsIn(ClosedUnderFeeds, <<r.callee, j>>)}) :
                  j \in 1..Len(r.args) \cap 1..Len(Params(r.callee))} : r \in Entered(f)}}

\* The parameters that are tainted whatever the branches do: those of public functions,
\* and those a call statement hands one on to.
MustTaint ==
  Spread({s \in Slots : program[s[1]].public},
         {e \in Slots \X Slots :
            \E r \in Entered(e[1][1]) :
              /\ r.callee = e[2][1]
              /\ e[2][2] <= Len(r.args)
              /\ Params(e[1][1])[e[1][2]] \in Reads(r.args[e[2][2]])})

\* A chain of entered calls leads from f back to f.
Recursive(f) ==
  f \in Spread({r.callee : r \in Entered(f)},
               {e \in Funs \X Funs : \E r \in Entered(e[1]) : r.callee = e[2]})

-----------------------------------------------------------------------------
(* Properties *)

\* The types of the state; BuildAll's recursion is never deeper than there are functions.
TypeOK ==
  /\ SummaryTypeOK
  /\ phase \in {"summaries", "walk", "done", "overflow"}
  /\ entries \subseteq Funs
  /\ \A i \in 1..Len(frames) :
       /\ frames[i].kind \in {"entry", "call", "then", "else", "loop"}
       /\ (frames[i].kind = "entry") <=> (i = 1)
       /\ frames[i].fun \in Funs
       /\ frames[i].locals \in Locals
       /\ frames[i].ret \in Labels \cup {NoTaint}
  /\ flows \subseteq FlowRecords

\* Every flow Analyze returns has its source: the label can get to an argument of the
\* sink, or to an argument that is handed on to one through the calls of the summaries.
FlowsJustified ==
  phase = "done" =>
    \A flow \in flows :
      LET may  == MayHave(flow.label)
          uses == SinkUses(flow.fun)
      IN \E n \in Names : <<flow.fun, n>> \in may /\ <<n, flow.sink>> \in uses

\* No chain is lost: a parameter of an entry point that call statements hand on, however
\* deep in branches and loops, to the argument of a low-level call or to a state variable
\* has a flow reported in the function of that sink.
DirectChainsReported ==
  phase = "done" =>
    \A s \in MustTaint :
      LET f == s[1]
          p == Params(f)[s[2]]
          Reported(sink) == \E flow \in flows : flow.fun = f /\ flow.sink = sink
      IN /\ \A c \in Of("call", f) :
              LET site == Sites(f)[c.site] IN
              (\E j \in 1..Len(site.args) : p \in Reads(site.args[j])) =>
                /\ site.kind = "external" => Reported("external-call")
                /\ site.kind = "delegatecall" => Reported("delegatecall")
         /\ \A a \in Of("assign", f) :
              a.to \in StateVars /\ p \in Reads(a.expr) => Reported("storage-write")

\* No flow is without a chain of calls behind it, and the direct chains are reported.
FlowsRight == FlowsJustified /\ DirectChainsReported

\* Analyze ends, with the summaries and the flows of every entry point, unless a
\* function can be entered from itself; only then may the process overflow its stack.
AnalyzeEnds ==
  <>(\/ phase = "done"
     \/ phase = "overflow" /\ \E f \in Funs : Recursive(f))

=============================================================================
