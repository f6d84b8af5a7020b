--------------------------- MODULE MCNativeLibHelper ---------------------------
EXTENDS NativeLibHelper, TLC

CONSTANTS t1, t2, p1, p2, l1, l2, a1, a2

MCOneProcess == (t1 :> p1) @@ (t2 :> p1)
MCTwoProcesses == (t1 :> p1) @@ (t2 :> p2)
MCRank  == (a1 :> 1) @@ (a2 :> 2)
MCRankOne == a1 :> 1
(* With the update l1 gets a better ABI, which it has for itself.          *)
MCPacked  == <<{<<a2, l1>>, <<a2, l2>>}, {<<a1, l1>>, <<a2, l1>>, <<a2, l2>>}>>
MCPackedShared == <<{<<a1, l1>>, <<a1, l2>>}>>
=============================================================================
