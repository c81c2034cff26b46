---------------------------- MODULE EventDelivery ----------------------------
(***************************************************************************)
(* What one live run promises to the page that watches it, without the     *)
(* goroutines and channels that bring it about (runOnce in                 *)
(* cmd/gtv-live/main.go): the numbered events of the run arrive one at a   *)
(* time and in order, starting with the first one or, when more than       *)
(* Window events were out before the page was served, with one of the last *)
(* Window events; and the run is called complete only when nothing is      *)
(* missing from there on.                                                  *)
(***************************************************************************)
EXTENDS Naturals, Sequences

CONSTANT Window      \* how many events a late watcher is sure to find

VARIABLES
    produced,   \* events numbered so far
    from,       \* the first number the page gets, 0 until it is served
    shown,      \* the numbers delivered to the page, in order
    status      \* "running", "complete" or "failed"

deliveryVars == <<produced, from, shown, status>>

DeliveryInit ==
    /\ produced = 0
    /\ from = 0
    /\ shown = <<>>
    /\ status = "running"

\* A run whose page is gone may go on producing.
Produce ==
    /\ status # "complete"
    /\ produced' = produced + 1
    /\ UNCHANGED <<from, shown, status>>

\* The page is served from the first event on, or from as far back as is kept.
Serve ==
    /\ status = "running" /\ from = 0
    /\ \E n \in 1..(produced + 1) :
          /\ n = 1 \/ n + Window = produced + 1
          /\ from' = n
    /\ UNCHANGED <<produced, shown, status>>

Deliver ==
    /\ status = "running" /\ from > 0
    /\ from + Len(shown) <= produced
    /\ shown' = Append(shown, from + Len(shown))
    /\ UNCHANGED <<produced, from, status>>

Complete ==
    /\ status = "running" /\ from > 0
    /\ from + Len(shown) = produced + 1
    /\ status' = "complete"
    /\ UNCHANGED <<produced, from, shown>>

Fail ==
    /\ status = "running"
    /\ status' = "failed"
    /\ UNCHANGED <<produced, from, shown>>

DeliveryNext == Produce \/ Serve \/ Deliver \/ Complete \/ Fail

DeliverySpec == DeliveryInit /\ [][DeliveryNext]_deliveryVars
=============================================================================
