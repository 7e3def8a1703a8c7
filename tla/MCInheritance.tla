---------------------------- MODULE MCInheritance ----------------------------
(* Lines of three contracts A, B, C over the modifiers a function may carry,  *)
(* in one file or in three, the imports there or not, with a second A that    *)
(* is not the one meant; a few hierarchies with several parents, overloads,   *)
(* interfaces, and names that only resolve to the contract itself.            *)
EXTENDS Inheritance

F(ms, o)      == [name |-> "f", params |-> <<"uint256">>, mods |-> ms, override |-> o, view |-> FALSE]
Of(t, ms, o)  == [F(ms, o) EXCEPT !.params = <<t>>]
C(n, ps, fs)  == [name |-> n, parents |-> ps, functions |-> fs, interface |-> FALSE, modifiers |-> [m \in {} |-> <<>>]]
With(c, m, k) == [c EXCEPT !.modifiers = [x \in {m} |-> k]]
File(is, ds)  == [imports |-> is, decls |-> ds]

MCWellKnown  == [onlyOwner |-> "access-control", onlyKeeper |-> "access-control", auth |-> "access-control",
                 lock |-> "reentrancy-guard"]
MCLooksLike  == {"onlyOwner", "onlyKeeper", "auth"}
MCAccessMods == {"onlyOwner", "auth"}

\* Each of the three declares f with these modifiers, or does not.
Choice == {<<>>} \cup {<<{}>>, <<{"onlyOwner"}>>, <<{"auth"}>>, <<{"gate"}>>, <<{"onlyOwner", "gate"}>>, <<{"lock"}>>}
Defs(ch, o) == IF ch = <<>> THEN <<>> ELSE <<F(ch[1], o)>>

\* The modifier gate, whose name says nothing, is declared in A, in B or nowhere;
\* its body may be one the classifier does not know, such as _checkOwner().
Declare(c, where, kind) == IF c.name \in where THEN With(c, "gate", kind) ELSE c
Line(a, b, c, where, kind) ==
  <<Declare(C("A", <<>>, Defs(a, FALSE)), where, kind),
    Declare(C("B", <<"A">>, Defs(b, a # <<>>)), where, kind),
    Declare(C("C", <<"B">>, Defs(c, a # <<>> \/ b # <<>>)), where, kind)>>

OneFile(l) == <<File(<<>>, <<l[3], l[1], l[2]>>)>>
Imported(l) == <<File(<<>>, <<C("A", <<>>, <<F({}, FALSE)>>)>>),
                 File(<<3>>, <<l[3]>>), File(<<4>>, <<l[2]>>), File(<<>>, <<l[1]>>)>>
Unresolved(l) == <<File(<<>>, <<l[3]>>), File(<<>>, <<l[2]>>), File(<<>>, <<l[1]>>)>>

Sender  == <<{"msg.sender=="}>>
Delayed == <<{"timestamp-check"}, {"pause-state", "hasRole(msg.sender)"}, {"reentrancy-lock"}>>
Locked  == <<{"reentrancy-check"}, {"reentrancy-lock"}>>
Kinds == {<<{}, Sender>>, <<{"A"}, Sender>>, <<{"B"}, Delayed>>, <<{"A"}, <<{}>>>>, <<{"A"}, Locked>>}
Lines == {Line(a, b, c, k[1], k[2]) : a \in Choice \ {<<>>, <<{"lock"}>>, <<{"auth"}>>}, b \in Choice, c \in Choice, k \in Kinds}
Some  == {Line(a, b, c, k[1], k[2]) : a \in {<<{"onlyOwner"}>>, <<{"gate"}>>}, b \in {<<>>, <<{}>>, <<{"gate"}>>},
            c \in {<<{}>>, <<{"lock"}>>}, k \in Kinds}

Owner == F({"onlyOwner"}, FALSE)
Open  == F({}, TRUE)
Others ==
  {\* B and C beside each other: the chain of D compares them
   <<File(<<>>, <<C("A", <<>>, <<F({}, FALSE)>>), C("B", <<"A">>, <<Open>>),
                  C("C", <<"A">>, <<Owner>>), C("D", <<"B", "C">>, <<Open>>)>>)>>,
   \* overloads: the last one hides the other
   <<File(<<>>, <<C("A", <<>>, <<Owner, Of("address", {}, FALSE)>>),
                  C("B", <<"A">>, <<Open, Of("address", {}, TRUE)>>)>>)>>,
   \* an interface above
   <<File(<<>>, <<[C("I", <<>>, <<F({}, FALSE)>>) EXCEPT !.interface = TRUE],
                  C("A", <<"I">>, <<F({"auth"}, TRUE)>>), C("B", <<"A">>, <<Open>>)>>)>>,
   \* a view override, and one of a restriction only the prefix gives away
   <<File(<<>>, <<C("A", <<>>, <<F({"onlyKeeper"}, FALSE)>>), C("B", <<"A">>, <<[Open EXCEPT !.view = TRUE]>>)>>)>>,
   \* the name of an uninstalled package's contract is the contract's own
   <<File(<<>>, <<C("A", <<"B">>, <<Owner>>)>>), File(<<>>, <<C("B", <<"A">>, <<Open>>)>>)>>}

MCProjects == {OneFile(l) : l \in Lines} \cup {Imported(l) : l \in Some}
              \cup {Unresolved(l) : l \in Some} \cup Others
=============================================================================
