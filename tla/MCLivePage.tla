---- MODULE MCLivePage ----
EXTENDS LivePage
TwoEvents == [i \in 1..2 |-> [run |-> 0, n |-> i, dt |-> i - 1, note |-> FALSE]]
====
