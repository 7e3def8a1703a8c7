--------------------------- MODULE MCSourceAnalysis ---------------------------
(* A contract A with a modifier or none and two functions, the second of     *)
(* which may share a name or a parameter with a variable; and a contract B   *)
(* of its own, on A, or with a function named as A's.                        *)
EXTENDS TaintEngine

S(kind, path, target, reads) ==
  [kind |-> kind, path |-> path, target |-> target, reads |-> reads, calls |-> FALSE,
   options |-> FALSE, source |-> "none", sink |-> "none", args |-> {}, receiver |-> NoName]
Asg(path, x)        == S("assign", path, x, {})
Let(path, x, reads) == S("declare", path, x, reads)
Test(path, reads)   == S("test", path, NoName, reads)
Ret(path, reads)    == S("return", path, NoName, reads)
From(s, label)      == [s EXCEPT !.source = label]
Sink(s, kind, args) == [s EXCEPT !.sink = kind, !.args = args, !.reads = @ \cup args]
To(s, receiver)     == [s EXCEPT !.receiver = receiver, !.reads = @ \cup {receiver}]
Ext(s)              == [s EXCEPT !.calls = TRUE]
Opt(s)              == [s EXCEPT !.calls = TRUE, !.options = TRUE]
Do(path)            == S("call", path, NoName, {})

FBodies == {
  <<Ext(To(Sink(Do(<<0>>), "external-call", {"t"}), "x")), Asg(<<1>>, "s")>>,
  <<Let(<<0>>, "t", {"x"}), Ext(Asg(<<1>>, "s")), Sink(Do(<<2>>), "selfdestruct", {"t"}), Asg(<<3>>, "t")>>,
  <<Test(<<0>>, {"x"}), Ext(Sink(Do(<<0, 0, 0>>), "eth-transfer", {"x"})),
    Asg(<<0, 1, 0>>, "t"), Ret(<<1>>, {"t", "s"}), Asg(<<2>>, "s")>>,
  <<Opt(Let(<<0>>, "y", {"x"})), Asg(<<1>>, "s"), From(Sink(Do(<<2>>), "access-control", {"s"}), "tx.origin")>> }

GBodies == {
  <<Ext(Let(<<0>>, "y", {"x"})), Asg(<<1>>, "s"), Asg(<<2>>, "t")>>,
  <<From(Let(<<0>>, "y", {}), "msg.value"), Sink(Do(<<1>>), "delegatecall", {"y", "s"}),
    From(Asg(<<2>>, "x"), "msg.sender"), Ret(<<3>>, {"x"})>>,
  <<Test(<<0>>, {"s"}), Let(<<0, 0, 0>>, "s", {"t"}), Ext(Do(<<0, 0, 1>>)), Asg(<<0, 0, 2>>, "s"), Asg(<<1>>, "t")>> }

F(function, name, public, guarded, params, body) ==
  [function |-> function, name |-> name, public |-> public, reachable |-> FALSE,
   guarded |-> guarded, params |-> params, body |-> body]

Modifiers == {<<>>, <<F(FALSE, "only", FALSE, FALSE, {}, <<Ret(<<0>>, {"s"}), Asg(<<1>>, "t")>>)>>}

Others == {
  [vars |-> {}, base |-> 1, guard |-> FALSE, members |->
    <<F(TRUE, "h", TRUE, FALSE, {}, <<Ext(Do(<<0>>)), Asg(<<1>>, "s"), Ret(<<2>>, {"s", "x"}), Asg(<<3>>, "x")>>)>>],
  [vars |-> {"s"}, base |-> 0, guard |-> TRUE, members |->
    <<F(FALSE, "only", FALSE, FALSE, {}, <<Ret(<<0>>, {"s"}), Asg(<<1>>, "s")>>),
      F(TRUE, "f", TRUE, FALSE, {"x"}, <<Sink(Do(<<0>>), "none", {"x"}), Ext(Do(<<1>>)), Asg(<<2>>, "s")>>)>>] }

\* f's visibility, whether it is guarded, its parameters; those of g.
Heads == {<<TRUE, FALSE, {"x"}, {"x"}>>, <<FALSE, TRUE, {"x", "s"}, {}>>,
           <<FALSE, FALSE, {"x"}, {"x"}>>}

Unit(m, h, f, g, other) ==
  << [vars |-> {"s", "t", "x"}, base |-> 0, guard |-> FALSE, members |->
       m \o <<F(TRUE, "f", h[1], h[2], h[3], f), F(TRUE, "g", TRUE, FALSE, h[4], g)>>], other >>

MCUnits ==
  {Unit(x[1], x[2], x[3], x[4], x[5]) :
     x \in {y \in Modifiers \X Heads \X FBodies \X GBodies \X Others : y[1] = <<>> \/ y[5].base = 0}}
=============================================================================
