---- MODULE MCSkipGraph ----
EXTENDS SkipGraph
FirstLeaves == <<1>>
\* To exchange 0 and 1 on a level exchanges the two pairs of borders, so that
\* one node may as well have the bit string 00.
OneIsZero == {s \in [Node -> [Level -> {0, 1}]] : \A l \in Level : s[1][l] = 0}
====
