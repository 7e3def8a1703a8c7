----------------------- MODULE MCInterproceduralTaint -----------------------
(* A public function f with a branch, a loop or a declared call result, that *)
(* calls g and then a sink; an internal g that calls a sink, h, itself or f; *)
(* and an h that is internal, public, a fallback function, or calls g back.  *)
EXTENDS InterproceduralTaint

E(reads)      == [reads |-> reads, names |-> {reads[i] : i \in 1..Len(reads)} \ SourceLeaves]
P             == E(<<"p">>)
X             == E(<<"x">>)
Indexed       == [reads |-> <<"s">>, names |-> {"s", "p"}]  \* s[p]
Result        == [reads |-> <<"__return__">>, names |-> {}]
To(name, e)   == [kind |-> "assign", to |-> name, expr |-> e]
Call(i)       == [kind |-> "call", site |-> i]
Ret(e)        == [kind |-> "return", expr |-> e]
If(yes, no)   == [kind |-> "if", yes |-> yes, no |-> no]
For(body)     == [kind |-> "for", body |-> body]
Let(names, e, called) == [kind |-> "declare", vars |-> names, expr |-> e, called |-> called]
Unl(member, e) == [kind |-> "unlisted", member |-> member, args |-> <<e>>]
Site1(kind, callee, args) == [kind |-> kind, callee |-> callee, args |-> args]

FBodies == {
  <<If(<<To("x", P)>>, <<>>), Call(1), Call(2)>>,
  <<If(<<>>, <<To("x", P)>>), Call(1), Call(2)>>,
  <<If(<<To("x", E(<<"msg.sender">>)), Call(1)>>, <<Call(2), Ret(P)>>), Ret(X)>>,
  <<For(<<To("s", E(<<"y">>)), To("y", X), To("x", P)>>), Call(1), Call(2)>>,
  <<Call(1), Let(<<"x", "y">>, Result, TRUE), To("s", E(<<"y">>)), Call(2)>>,
  <<Let(<<"x">>, E(<<"y", "p">>), FALSE), If(<<>>, <<Call(1)>>), For(<<Call(2)>>)>> }

FCalls == {
  Site1("internal", "g", <<P, X>>),
  Site1("library", "g", <<E(<<"x", "msg.sender">>), E(<<"y">>)>>),
  Site1("virtual", "none", <<P>>) }

FSinks == {
  Site1("external", "none", <<X>>),
  Site1("delegatecall", "none", <<E(<<"y">>), Indexed>>),
  Site1("internal", "h", <<X>>),
  Site1("internal", "g", <<E(<<"y">>), P>>) }

GBodies == {
  <<If(<<Ret(E(<<"a">>))>>, <<Call(1)>>), Ret(E(<<"b">>))>>,
  <<To("s", E(<<"b">>)), Call(1), Ret(Result)>> }

GCalls == {
  Site1("external", "none", <<E(<<"a">>)>>),
  Site1("internal", "h", <<E(<<"b", "a">>)>>),
  Site1("internal", "g", <<E(<<"b">>), E(<<"a">>)>>),
  Site1("internal", "f", <<E(<<"a">>)>>) }

HCode == {
  [public |-> FALSE, params |-> <<"c">>, sites |-> <<Site1("external", "none", <<E(<<"c">>)>>)>>,
   body |-> <<Call(1), Ret(E(<<"c">>))>>],
  [public |-> TRUE, params |-> <<"c">>, sites |-> <<>>,
   body |-> <<To("s", E(<<"c">>)), Ret(E(<<"msg.sender">>))>>],
  [public |-> TRUE, params |-> <<>>, sites |-> <<>>,
   body |-> <<To("x", E(<<"msg.sender">>)), Unl("transfer", X), Unl("encode", X)>>],
  [public |-> FALSE, params |-> <<"c">>,
   sites |-> <<Site1("internal", "g", <<E(<<"c">>), E(<<"c">>)>>)>>, body |-> <<Call(1)>>] }

Program(fb, fc, fs, gb, gc, h) ==
  [f |-> [public |-> TRUE, params |-> <<"p">>, sites |-> <<fc, fs>>, body |-> fb],
   g |-> [public |-> FALSE, params |-> <<"a", "b">>, sites |-> <<gc>>, body |-> gb],
   h |-> h]

\* No call names a fallback function.  Where f enters neither g nor h by its first call,
\* one g is enough; where g calls itself or f, one h and calls of h elsewhere are.
MCPrograms ==
  {Program(x[1], x[2], x[3], x[4], x[5], x[6]) :
     x \in {y \in FBodies \X FCalls \X FSinks \X GBodies \X GCalls \X HCode :
              /\ y[6].params # <<>> \/ (y[3].callee # "h" /\ y[5].callee # "h")
              /\ y[2].callee # NoFun \/ y[5].callee = NoFun
              /\ y[5].callee \in {"f", "g"} => y[3].callee \in {NoFun, "h"} /\ Len(y[6].body) = 2}}
=============================================================================
