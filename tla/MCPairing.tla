----------------------------- MODULE MCPairing -----------------------------
(* Programs for Pairing.  Goroutines, channels and labels are strings.      *)
EXTENDS Pairing

MCSite(g, kind, ch, name, ptr, via) ==
    [g |-> g, kind |-> kind, ch |-> ch, name |-> name, ptr |-> ptr, via |-> via]

\* Three goroutines with five channels: g1 sends to g2 on the buffered channel
\* pipe; g1 and g2 send to g3 on fan; the receives of log have lost their
\* pointer; jobs is fed from a select, with a label that is not to be paired;
\* g1 receives ack in a select.
MixSites ==
    {MCSite("g1", "send", "0xpipe", "pipe", "0xpipe", "region"),
     MCSite("g2", "recv", "0xpipe", "pipe", "0xpipe", "region"),
     MCSite("g1", "send", "0xfan", "fan", "0xfan", "region"),
     MCSite("g2", "send", "0xfan", "fan", "0xfan", "region"),
     MCSite("g3", "recv", "0xfan", "fan", "0xfan", "region"),
     MCSite("g1", "send", "0xlog", "log", "0xlog", "region"),
     MCSite("g3", "recv", "0xlog", "log", "none", "region"),
     MCSite("g2", "send", "0xjobs", "jobs", "0xjobs", "select"),
     MCSite("g3", "recv", "0xjobs", "jobs", "0xjobs", "region"),
     MCSite("g3", "send", "0xack", "ack", "0xack", "region"),
     MCSite("g1", "recv", "0xack", "ack", "0xack", "select")}

MixCap == [c \in {"0xpipe", "0xfan", "0xlog", "0xjobs", "0xack"} |->
             IF c = "0xpipe" THEN 1 ELSE 0]

\* Two pairs of goroutines on two channels that share a label.
SharedSites ==
    {MCSite("g1", "send", "0xa", "out", "0xa", "region"),
     MCSite("g2", "recv", "0xa", "out", "0xa", "region"),
     MCSite("g3", "send", "0xb", "out", "0xb", "region"),
     MCSite("g4", "recv", "0xb", "out", "0xb", "region")}

SharedCap == [c \in {"0xa", "0xb"} |-> 0]

\* A worker that receives in a select, and one that receives in a region.
SelectSites ==
    {MCSite("g1", "send", "0xwork", "work", "0xwork", "region"),
     MCSite("g2", "recv", "0xwork", "work", "0xwork", "select")}

RegionSites ==
    {MCSite("g1", "send", "0xwork", "work", "0xwork", "region"),
     MCSite("g2", "recv", "0xwork", "work", "0xwork", "region")}

WorkCap == [c \in {"0xwork"} |-> 2]
=============================================================================
