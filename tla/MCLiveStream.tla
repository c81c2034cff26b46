---------------------------- MODULE MCLiveStream ----------------------------
(* LiveStream on small buffers: a run of up to five events and its audit    *)
(* summary, a history of two, channels of one and two.  The history         *)
(* overflows before and during the snapshot, and every channel fills.       *)
EXTENDS LiveStream
=============================================================================
