---------------------------- MODULE MCSuppression ----------------------------
(* Every file of up to MaxLine lines over a small alphabet: directives on a   *)
(* rule, on another one, on all, without a list, and with nothing but a comma.*)
EXTENDS Suppression, TLC

CONSTANTS r1, r2, f1

Line(k, ws) == [kind |-> k, words |-> ws]
MCLines ==
  {Line("code", <<>>), Line("long", <<>>),
   Line("next", <<>>), Line("next", <<r1>>), Line("next", <<r2, Star>>),
   Line("disable", <<r1>>), Line("disable", <<r2, r1>>), Line("disable", <<Blank>>),
   Line("enable", <<r1>>), Line("enable", <<>>)}
MCSources == UNION {[1..n -> MCLines] : n \in {1, MaxLine}}
MCRevisions == {<<Line("code", <<>>)>>,
                <<Line("disable", <<r1>>), Line("enable", <<r1>>)>>}
MCIgnores == {[rule |-> r1, function |-> f1, expiry |-> 0],
              [rule |-> r2, function |-> Unnamed, expiry |-> Never]}
=============================================================================
