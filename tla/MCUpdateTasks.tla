--------------------------- MODULE MCUpdateTasks ---------------------------
(* Instance of UpdateTasks for TLC: one release, one minute, two models.   *)
EXTENDS UpdateTasks, TLC

CONSTANTS r1, m1, luna, sol

MCReleases == {r1}
MCMinutes == {m1}
MCModels == {luna, sol}

Symmetry == Permutations(MCModels)
=============================================================================
