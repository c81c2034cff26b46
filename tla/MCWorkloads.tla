---- MODULE MCWorkloads ----
EXTENDS Workloads
AllNames == Names
\* The programs with few states of those that end, and the broadcasts: the
\* cost of checking fairness grows with the goroutines and the states.
Smaller == {"abc", "bdcst", "bdcst12", "broadcastsmoke", "fan", "ping", "pingpong", "mutex",
            "buffered", "blocking", "both", "mergesort",
            "workerPool", "bufferedChannelDemo", "unbufferedRendezvous", "selectDemo",
            "mutexContention"}
Broadcasts == {m \o s : m \in Modes, s \in {"", " limited"}}
====
