---------------------------- MODULE MCTaskManager ----------------------------
(***************************************************************************)
(* A thread in block_on and one in join_all of two coroutines; two tasks   *)
(* in two groups.                                                          *)
(***************************************************************************)
EXTENDS TaskManager, TLC

CONSTANTS t1, t2, c1, c2, c3, x1, x2, g1, g2

MCAwaits == t1 :> {c1} @@ t2 :> {c2, c3}
MCCall == t1 :> "block_on" @@ t2 :> "join_all"
MCGroupOf == x1 :> g1 @@ x2 :> g2

Op(k, g) == [kind |-> k, group |-> g]

\* One thread shuts down or joins, the other cancels or shuts down too, next
\* to a coroutine of its own.
MCMayDo ==
  c1 :> {Op("shutdown", All), Op("join", All)}
    @@ c2 :> {Op("shutdown", All), Op("cancel", g1)}
    @@ c3 :> {Op("user", All)}
=============================================================================
