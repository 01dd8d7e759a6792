---------------------------- MODULE MC_Registry ----------------------------
(* Instantiation of Registry for TLC.                                     *)
EXTENDS Registry, TLC

CONSTANTS m, o1, o2, c1, c2, c3

\* The master and two mudlib objects.
MC_Objects == {m, o1, o2}

\* Three interactives: enough for two at once plus a reconnect.
MC_Conns == {c1, c2, c3}

\* The mudlib objects are interchangeable; the master is not, and the
\* interactives are taken by CHOOSE, so they are not permuted.
MC_Symmetry == Permutations({o1, o2})
=============================================================================
