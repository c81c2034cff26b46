-------------------------- MODULE MCDeadlockCycle --------------------------
(* Programs for DeadlockCycle.                                              *)
EXTENDS DeadlockCycle

MCSite(g, kind, ch, name, ptr, region) ==
    [g |-> g, kind |-> kind, ch |-> ch, name |-> name, ptr |-> ptr, region |-> region]

\* Two goroutines that receive from main and then send to each other, as in
\* internal/e2e/testdata/examples/deadlock_cycle.go; main can also close ch1,
\* and takes part in ch2 outside any region.  a and b use two more channels,
\* of one label and without pointers, the first of them buffered.
MixSites ==
    {MCSite("a", "recv", "0xc2", "ch2", "0xc2", TRUE),
     MCSite("a", "send", "0xc1", "ch1", "0xc1", TRUE),
     MCSite("b", "recv", "0xc1", "ch1", "0xc1", TRUE),
     MCSite("b", "send", "0xc2", "ch2", "0xc2", TRUE),
     MCSite("m", "send", "0xc1", "ch1", "0xc1", TRUE),
     MCSite("m", "close", "0xc1", "ch1", "0xc1", TRUE),
     MCSite("m", "send", "0xc2", "ch2", "0xc2", FALSE),
     MCSite("m", "send", "0xout", "out", "noptr", TRUE),
     MCSite("a", "recv", "0xout", "out", "noptr", TRUE),
     MCSite("b", "send", "0xerr", "out", "noptr", TRUE)}

MixCap == [c \in {"0xc1", "0xc2", "0xout", "0xerr"} |-> IF c = "0xerr" THEN 1 ELSE 0]
=============================================================================
