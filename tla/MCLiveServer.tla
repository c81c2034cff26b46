---------------------------- MODULE MCLiveServer ----------------------------
(* LiveServer with three requests at a time, four in all, for one workload.  *)
EXTENDS LiveServer, TLC

\* Requests that ask for the default, or for another level.
MCAsks == {Default}
MCLevelAsks == {[Default EXCEPT !.level = "tasks_only"]}

MCSymmetry == Permutations(Slot)
=============================================================================
