------------------------------ MODULE MCAssetsUtil ------------------------------
(* Small instances of AssetsUtil.                                          *)
EXTENDS AssetsUtil, TLC

CONSTANTS t1, t2, x, y, c1, c2, c3, user

MCCopiesAll   == [t \in Threads |-> Assets]
MCCopiesApart == (t1 :> {x}) @@ (t2 :> {y})
MCAllModes    == [t \in Threads |-> CopyModes]
MCModes       == (t1 :> CopyModes) @@ (t2 :> {"OVERRIDE_IF_MODIFIED", "OVERRIDE_IF_CONTENT_CHANGED"})

(* The user's file and both contents of x have one size.                   *)
MCSizeOf  == (c1 :> 1) @@ (c2 :> 1) @@ (c3 :> 2) @@ (user :> 1)
(* x changes with the update, y goes away.                                 *)
MCPackedX    == <<x :> c1, x :> c2>>
MCPackedGone == <<(x :> c1) @@ (y :> c3), (x :> c2) @@ (y :> Nothing)>>
=============================================================================
