-------------------------- MODULE MCCallGraphBuild --------------------------
(* Two families of source units.  One contract with three functions that     *)
(* each call at most two of the three, in either order, itself included: one *)
(* unit of each class that differs in the names only, since the searches     *)
(* take the nodes in every order; with a function that calls an address, and *)
(* with two entry points.  And units of contracts that inherit, overload,    *)
(* have modifiers, fallbacks and libraries, with every form of call.         *)
EXTENDS CallGraphBuild

N(n)    == [form |-> "name", object |-> "", name |-> n, walked |-> TRUE]
M(o, n) == [N(n) EXCEPT !.form = "member", !.object = o]
Low     == [N("call") EXCEPT !.form = "lowLevel"]
Options == [N("call") EXCEPT !.form = "options"]
Cast    == [N("f") EXCEPT !.form = "cast"]
While(c) == [c EXCEPT !.walked = FALSE]

F(n, v, cs)       == [name |-> n, kind |-> "function", visibility |-> v, calls |-> cs]
Nameless(k, v, cs) == [F("", v, cs) EXCEPT !.kind = k]
Modifier(n, cs)   == [F(n, "internal", cs) EXCEPT !.kind = "modifier"]
C(n, bs, fs)      == [name |-> n, bases |-> bs, functions |-> fs]

Three == {"f", "g", "h"}
Lists == {<<>>} \cup {<<m>> : m \in Three} \cup {l \in Three \X Three : l[1] # l[2]}
Order == [f |-> 1, g |-> 2, h |-> 3]

\* Of the graphs that differ in the names of f, g and h, one: a code of the graph
\* is the least of those of its renamings.
Code(l)   == IF l = <<>> THEN 0 ELSE IF Len(l) = 1 THEN Order[l[1]] ELSE 4 * Order[l[1]] + Order[l[2]]
CodeOf(G) == 256 * Code(G["f"]) + 16 * Code(G["g"]) + Code(G["h"])
Renamings == {p \in [Three -> Three] : \A a, b \in Three : a # b => p[a] # p[b]}
Renamed(G, p) == [n \in Three |->
  LET from == CHOOSE a \in Three : p[a] = n IN [i \in 1..Len(G[from]) |-> p[G[from][i]]]]
Least3 == {G \in [Three -> Lists] : \A p \in Renamings : CodeOf(G) <= CodeOf(Renamed(G, p))}

\* The caller of an address and the internal one of the functions
Single(G, caller, hidden) ==
  LET Body(n) == [i \in 1..Len(G[n]) |-> N(G[n][i])] \o (IF n = caller THEN <<Low>> ELSE <<>>)
      Fun(n)  == F(n, IF hidden = n THEN "internal" ELSE "external", Body(n))
  IN <<C("A", <<>>, <<Fun("f"), Fun("g"), Fun("h")>>)>>
Singles == {Single(G, lh[1], lh[2]) : G \in Least3,
              lh \in {<<"f", "f">>, <<"g", "h">>, <<"h", "g">>}}

Call1 == {<<>>, <<N("f")>>, <<N("g")>>, <<M("A", "f")>>, <<M("t", "f")>>, <<Options>>, <<Cast>>, <<Low>>,
          <<N("require")>>, <<M("abi", "f")>>, <<N("IToken")>>, <<While(N("f"))>>, <<M("super", "f"), N("g")>>}
Call2 == {<<>>, <<N("f")>>, <<M("B", "h")>>, <<Low>>}
Families ==
  \* B inherits from A, or not
  {<<C("A", <<>>, <<F("f", "external", <<>>), F("g", "internal", a)>>),
     C("B", bs, <<F("h", "external", b)>>)>> : a \in Call2, b \in Call1, bs \in {<<>>, <<"A">>}}
  \cup
  \* both have an f; C's f is another's
  {<<C("A", <<>>, <<F("f", "external", <<Low>>)>>), C("B", <<>>, <<F("f", "internal", d)>>),
     C("C", bs, <<F("h", "external", c)>>)>> : c \in Call1, d \in {<<>>, <<N("f")>>}, bs \in {<<"A">>, <<"B", "A">>}}
  \cup
  \* nameless functions, a modifier, an overload, a contract without functions
  {<<C("A", <<>>, <<Nameless(k, "external", c), F("f", "internal", <<Low>>)>>), C("E", <<"A">>, <<>>)>> :
      k \in {"fallback", "receive", "constructor"}, c \in Call1}
  \cup
  {<<C("A", <<>>, <<Modifier("f", c), F("f", "external", c), F("f", "internal", d)>>)>> : c \in Call1, d \in {<<>>, <<Low>>}}

MCUnits == Singles \cup Families
MCNodes == 1..3
MCGraphs == {[n \in Nodes |-> <<>>]}
=============================================================================
