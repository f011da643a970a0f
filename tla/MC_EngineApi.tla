------------------------------ MODULE MC_EngineApi ------------------------------
(* Instances of EngineApi: slots 1 and 2 of a node started at time 0, whose *)
(* deadlines are 24 and 36, lists of at most two transactions, and a window *)
(* of one slot, so that a walk over both takes two pages.                   *)
EXTENDS EngineQueries, TLC

CONSTANTS r1, r2, t1, t2

MCSlots   == {1, 2}
MCTimes   == {24, 30, 40}
MCLists   == {<<t1>>, <<t1, t2>>}
RootSymmetry == Permutations({r1, r2})
===============================================================================
