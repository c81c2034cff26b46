---------------------------- MODULE MCGoroutines ----------------------------
(* The parser keeps each of these maps by goroutine, so that one goroutine  *)
(* with many events reaches more than several with few.                     *)
EXTENDS Goroutines
=============================================================================
