--------------------------- MODULE MCStage2Paging ----------------------------
(***************************************************************************)
(* Model checking of Stage2Paging: four descriptors to a table, input      *)
(* sizes that take half a table, a whole one, two and four, and four       *)
(* levels; two VMs, with RAM at places of different alignment.             *)
(***************************************************************************)
EXTENDS Stage2Paging

MCGeometries == {<<5, 1>>, <<4, 1>>, <<3, 1>>, <<2, 1>>, <<4, 0>>}
MCRegions == {<<10, 22>>, <<13, 16>>}
MCPages == 0..71

-----------------------------------------------------------------------------
(* The real sizes: what init_stage2_translation_table makes of PARange *)

PARange ==
    <<<<32, 1>>, <<28, 1>>, <<24, 1>>, <<22, 1>>, <<20, 0>>, <<16, 0>>, <<16, 0>>>>

\* The tables of one level that resolve the input address, by the formula
\* with its constant 43.
Tables(g) ==
    IF g[1] > 43 - (3 - g[2]) * 9 THEN 1 ELSE 2 ^ ((43 - (3 - g[2]) * 9) - g[1])

\* With pages of 4 KiB and 512 descriptors the tables resolve the whole input
\* address, are no more than the 16 the architecture joins, and are aligned
\* to their size; guest RAM, 256 MiB at 1 GiB, is inside.
ASSUME RealGeometry ==
    \A i \in 1..Len(PARange) :
        LET g == PARange[i]
            n == Tables(g)
            \* bits one table of the initial level resolves
            one == 12 + 9 * (4 - g[2])
        IN  /\ n = 2 ^ (IF 64 - g[1] > one THEN (64 - g[1]) - one ELSE 0)
            /\ n <= 16
            /\ 2 ^ (n - 1) >= n
            /\ 64 - g[1] >= 31
=============================================================================
