--------------------------- MODULE MCRunnerStop ---------------------------
(* RunnerStop with every choice of flags and environment.                   *)
EXTENDS RunnerStop
=============================================================================
