-------------------------- MODULE MCCrossContract --------------------------
(* A contract A with two functions in one file, B and another function in    *)
(* the other: of a third contract, of B, or one that collides with A's.      *)
EXTENDS CrossContractTaint

MCIds == {<<"A", "f">>, <<"A", "h">>, <<"B", "g">>, <<"B", "h">>, <<"C", "g">>, <<"B", "anonymous">>}

D(contract, name, public, writes, guarded, calls) ==
  [id |-> <<contract, name>>, public |-> public, writes |-> writes,
   guarded |-> guarded, calls |-> calls]
C(kind, name) == [kind |-> kind, name |-> name]
Ext(name) == C("external", name)
Int(name) == C("internal", name)
Low       == C("low-level", "call")
Delegate  == C("delegatecall", "delegatecall")
Require   == Int("require")

FCalls == {<<Ext("g")>>, <<Int("h"), Ext("g")>>, <<Ext("h"), Delegate>>}
HCalls == {<<>>, <<Low>>, <<Ext("g"), Require>>}
GCalls == {<<Low>>, <<Ext("f"), Require>>, <<Ext("h"), Int("f")>>}

Others == {
  D("C", "g", TRUE, TRUE, FALSE, <<Low>>),
  D("C", "g", TRUE, FALSE, TRUE, <<Ext("f")>>),
  D("B", "h", FALSE, TRUE, FALSE, <<Ext("g")>>),
  D("A", "f", FALSE, FALSE, FALSE, <<Ext("g")>>),
  D("A", "f", TRUE, FALSE, FALSE, <<>>),
  D("B", "anonymous", TRUE, FALSE, FALSE, <<Ext("g"), Delegate>>) }

MCProjects ==
  {<< <<D("A", "f", TRUE, FALSE, FALSE, x[1]), D("A", "h", x[5], TRUE, FALSE, x[2])>>,
      <<D("B", "g", TRUE, FALSE, ~x[5], x[3]), x[4]>> >> :
     x \in FCalls \X HCalls \X GCalls \X Others \X BOOLEAN}
=============================================================================
