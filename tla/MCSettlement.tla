---------------------------- MODULE MCSettlement ----------------------------
(* Instances of Settlement for TLC: one position whose exit pays two       *)
(* tokens, and one orphan job id for the first of them.                    *)
EXTENDS Settlement, TLC

CONSTANTS p1, jx, jy, ox, mx, my

MCOwner  == (jx :> p1) @@ (jy :> p1) @@ (ox :> NoPosition)
MCMintOf == (jx :> mx) @@ (jy :> my) @@ (ox :> mx)
MCBoth   == {TRUE, FALSE}
MCEvent  == {TRUE}
=============================================================================
