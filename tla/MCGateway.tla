----------------------------- MODULE MCGateway -----------------------------
(* Small instances of the gateway for TLC: an analyst and an admin. *)
EXTENDS Gateway, TLC

CONSTANTS news, analyst, admin, alice, root, sa, sr, good, better, evil

OneTool == {news}
Roles == {analyst, admin}
MayCallNews == [r \in Roles |-> {news}]
UpToHigh == [r \in Roles |-> IF r = admin THEN HIGH ELSE MEDIUM]
NewsIsSearch == [t \in {news} |-> {"low"}]
NewsIsLow == [t \in {news} |-> LOW]
Users == {alice, root}
Sessions == {sa, sr}
Owners == [s \in Session |-> IF s = sa THEN alice ELSE root]
AliceExpires == [s \in Session |-> IF s = sa THEN 2 ELSE 9]
NoneExpires == [s \in Session |-> 9]
Roster == [u \in User |-> IF u = alice THEN analyst ELSE admin]
GoodOrMissing == {<<good>>, <<>>}
Handlers == Permutations(Task)
SwapOffers == {<<good>>, <<better>>, <<evil>>, <<good, evil>>}
=============================================================================
