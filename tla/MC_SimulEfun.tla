----------------------------- MODULE MC_SimulEfun -----------------------------
(* Five shared names, at addresses 1 to 5.  The programs add names before, *)
(* between and after the ones already in simul_names, drop names, hide a   *)
(* name behind NAME_STATIC, and reorder the function table; the last one   *)
(* has no function at all.                                                 *)
EXTENDS SimulEfun, TLC

F(n, v) == [name |-> n, visible |-> v]

MC_Names == 1 .. 5

\* The programs a reload may load.
MC_Programs ==
  (1 :> <<F(2, TRUE), F(3, TRUE)>>) @@
  (2 :> <<F(4, TRUE), F(1, TRUE)>>) @@
  (3 :> <<F(3, FALSE), F(1, TRUE)>>) @@
  (4 :> <<F(4, TRUE), F(3, TRUE), F(2, TRUE), F(1, TRUE)>>) @@
  (5 :> <<F(2, FALSE)>>) @@
  (6 :> <<F(5, TRUE), F(2, TRUE)>>)

\* The same with a program of no function.
MC_ProgramsEmpty == MC_Programs @@ (7 :> <<>>)
=============================================================================
