----------------------- MODULE MCSubscriptionManager -----------------------
(* Two filters, one of which matches every topic. *)
EXTENDS SubscriptionManager

CONSTANTS f1, f2, t1, t2

MCMatches == {<<t1, f1>>, <<t1, f2>>, <<t2, f2>>}
=============================================================================
