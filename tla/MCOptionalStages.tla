-------------------------- MODULE MCOptionalStages --------------------------
(* Two addresses, a verified and an unverified one; two contracts and          *)
(* findings of four severities, so that equals, names that collide and targets *)
(* below the priority occur.                                                   *)
EXTENDS OptionalStages, TLC

CONSTANTS a1, a2, f1, f2, w1

MCPatterns == <<"selfdestruct", "delegatecall", "metadata_hash">>
MCSeverity == "selfdestruct" :> 4 @@ "delegatecall" :> 3 @@ "metadata_hash" :> 0

World(c, v, t, e, d) ==
  [code |-> c, verified |-> v, text |-> t, exploited |-> e, differs |-> d]
MCDetectors == Kinds \cup {"access-control", "reentrancy", "tx-origin", "unchecked-call"}
MCWorlds ==
  {a1 :> World(TRUE, TRUE, {"delegatecall", "metadata_hash"}, TRUE, FALSE) @@
   a2 :> World(TRUE, FALSE, {"selfdestruct"}, FALSE, TRUE)}
MCAddressLists == {<<>>, <<a1, a2>>}

F(f, d, s, n) == [file |-> [of |-> f, copy |-> 0], detector |-> d, severity |-> s,
                  function |-> n]
MCProjects ==
  {<<F(f1, "access-control", 2, w1), F(f1, "reentrancy", 4, w1)>>,
   <<F(f1, "tx-origin", 3, w1), F(f2, "unchecked-call", 0, NoName), F(f1, "delegatecall", 3, w1)>>}
MCOptions ==
  {[tools |-> <<"echidna", "manticore">>, max |-> 1, min |-> 2, dry |-> FALSE],
   [tools |-> <<"echidna">>, max |-> 2, min |-> 1, dry |-> FALSE],
   [tools |-> <<>>, max |-> 0, min |-> 1, dry |-> TRUE]}
=============================================================================
