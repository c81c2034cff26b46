----------------------------- MODULE SkipGraph -----------------------------
(***************************************************************************)
(* The skip graph workload (src/internal/workload/skipgraph.go): nodes     *)
(* that know each other by references to their inboxes, exchange those     *)
(* references until every node is linked to its neighbours on every level, *)
(* forget the nodes that leave, and forward searches.                      *)
(*                                                                         *)
(* A node is its value; rand.Uint32 is taken to draw no value twice.  A    *)
(* linearize package is the node it refers to, for its channel, its value  *)
(* and its bit string never change.  The inboxes of a thousand packages    *)
(* are never full here, and the context that nobody cancels is left out.   *)
(***************************************************************************)
EXTENDS Naturals, FiniteSets, Sequences, SequencesExt, FiniteSetsExt

CONSTANTS N,           \* the number of nodes
          Depth,       \* the length of a bit string, and the number of levels
          Leavers,     \* which of the nodes, by creation, are told to leave
          Strings,     \* bound: the bit strings the nodes may draw, a set of functions
          MaxTimeouts, \* bound: how often the tickers of the nodes fire
          MaxSearches  \* bound: how many searches main starts

ASSUME SkipGraphAssumption ==
  /\ N \in Nat \ {0} /\ Depth \in Nat \ {0}
  /\ Strings \subseteq [1..N -> [0..Depth - 1 -> {0, 1}]]
  /\ Leavers \in Seq(1..N)
  /\ MaxTimeouts \in Nat /\ MaxSearches \in Nat

Node == 1..N
Level == 0..Depth - 1
None == 0        \* the nil border; its value counts as 0 or as MaxUint32
Infinity == N + 1

VARIABLES
  bits,     \* bits[n]: the bit string of n
  order,    \* the nodes in the order in which main creates them
  border,   \* border[n][l]: borderNodes of n's range on level l
  inRange,  \* inRange[n][l]: nodesInRange of n's range on level l
  conn,     \* conn[n]: nodesConnected, [node, count] in order
  deleted,  \* deleted[n]: listOfDeletedNodes
  changed,  \* changed[n]: changedSinceTimeout
  draining, \* draining[n]: n answers what is left in its inbox
  inbox,    \* inbox[n]: communicationChannel
  outbox,   \* outbox[n]: what n's handler has still to send, [to, msg]
  ticks,    \* how often a ticker has fired
  main      \* what main does: [stage, i]

vars == <<bits, order, border, inRange, conn, deleted, changed, draining, inbox, outbox,
          ticks, main>>
state == <<border, inRange, conn, deleted, changed>>

Ref(x) == [kind |-> "ref", node |-> x]
Leave(x) == [kind |-> "leave", node |-> x]
Search(x, byBits) == [kind |-> IF byBits THEN "searchBits" ELSE "searchID", node |-> x]
Quit == [kind |-> "quit", node |-> None]   \* the nil package of main
To(n, msg) == [to |-> n, msg |-> msg]

-----------------------------------------------------------------------------
(* Sequences.  The k-th element is the one with k - 1 others before it. *)

InOrder(S, before) ==
  [k \in 1..Cardinality(S) |->
     CHOOSE x \in S : Cardinality({y \in S : <<y, x>> \in before}) = k - 1]
Sorted(S) == InOrder(S, {p \in S \X S : p[1] < p[2]})

\* What s has at the places of a set, and a sequence of sequences as one.
Pick(s, places) == LET at == Sorted(places) IN [k \in DOMAIN at |-> s[at[k]]]
Flat(ss) ==
  LET places == UNION {{i} \X (1..Len(ss[i])) : i \in DOMAIN ss}
      at == InOrder(places, {p \in places \X places :
              \/ p[1][1] < p[2][1]
              \/ p[1][1] = p[2][1] /\ p[1][2] < p[2][2]})
  IN [k \in DOMAIN at |-> ss[at[k][1]][at[k][2]]]

-----------------------------------------------------------------------------
(* Ranges *)

Floor(b) == b                                      \* preventNilBorder(b, true)
Ceiling(b) == IF b = None THEN Infinity ELSE b     \* preventNilBorder(b, false)
specialMin(a, b) == IF a = 0 THEN b ELSE IF b = 0 THEN a ELSE IF a < b THEN a ELSE b
specialMax(a, b) == IF a = Infinity THEN b ELSE IF b = Infinity THEN a ELSE IF a < b THEN b ELSE a
Lower(b) == specialMin(Floor(b[0]), Floor(b[2]))
Upper(b) == specialMax(Ceiling(b[1]), Ceiling(b[3]))

SamePrefix(n, x, l) == \A i \in 0..l - 1 : bits[n][i] = bits[x][i]
Outside(n, x, l) ==
  LET b == border[n][l]
  IN \/ x < Floor(b[0]) /\ x < Floor(b[2])
     \/ x > Ceiling(b[1]) /\ x > Ceiling(b[3])
     \/ ~SamePrefix(n, x, l)

\* Mutant: a greater node is not compared with the border it replaces.
NewBorderUncompared(n, x, l) ==
  LET b == border[n][l]
      slot == 2 * bits[x][l]
  IN IF Floor(b[slot]) < x /\ x < n THEN [b EXCEPT ![slot] = x]
     ELSE IF n < x THEN [b EXCEPT ![slot + 1] = x]
     ELSE b

\* Slots 0 and 1 hold the nearest smaller and greater node whose next bit is 0,
\* slots 2 and 3 those whose next bit is 1.
NewBorder(n, x, l) ==
  LET b == border[n][l]
      slot == 2 * bits[x][l]
  IN IF Floor(b[slot]) < x /\ x < n THEN [b EXCEPT ![slot] = x]
     ELSE IF n < x /\ x < Ceiling(b[slot + 1]) THEN [b EXCEPT ![slot + 1] = x]
     ELSE b

\* Mutant: what leaves the range because a border has moved is not reported as dropped.
updateRangeSilent(n, x, l) ==
  LET out == Outside(n, x, l)
      new == ~out /\ x # n
      b == IF new THEN NewBorder(n, x, l) ELSE border[n][l]
      all == IF new THEN inRange[n][l] \union {x} ELSE inRange[n][l]
  IN [border |-> b, inRange |-> {y \in all : Lower(b) <= y /\ y <= Upper(b)},
      refused |-> IF out THEN {x} ELSE {}, over |-> {}]

\* What updateRange makes of level l of n when it is given x; it drops what it
\* refuses and what the borders leave out.
updateRange(n, x, l) ==
  LET out == Outside(n, x, l)
      new == ~out /\ x # n
      b == IF new THEN NewBorder(n, x, l) ELSE border[n][l]
      all == IF new THEN inRange[n][l] \union {x} ELSE inRange[n][l]
      over == {y \in all : y < Lower(b) \/ y > Upper(b)}
  IN [border |-> b, inRange |-> all \ over,
      refused |-> IF out THEN {x} ELSE {}, over |-> over]

Names(entries) == {entries[i].node : i \in DOMAIN entries}
Minus(a, b) == IF a > b THEN a - b ELSE 0

getFitLevel(a, b) == Max({l \in 0..Depth : \A i \in 0..l - 1 : bits[a][i] = bits[b][i]})
Distance(a, b) == IF a > b THEN a - b ELSE b - a

\* Mutant: the package that names the node itself is taken whatever is connected.
getBestFitNextSelf(n, entries, x) == x

\* The best of the connected nodes, the first of equals; n itself if there is none.
getBestFitNext(n, entries, x) ==
  LET better(a, b) == \/ getFitLevel(a, x) > getFitLevel(b, x)
                      \/ getFitLevel(a, x) = getFitLevel(b, x) /\ Distance(a, x) < Distance(b, x)
      best == SelectInSeq(entries, LAMBDA e : ~\E y \in Names(entries) : better(y, e.node))
  IN IF entries = <<>> THEN n ELSE entries[best].node

\* What updateRangesOfNode makes of n when it is given x; a node that has left
\* the last of the ranges is sent to whom it fits best.
Update(n, x) ==
  LET inList == x \in Names(conn[n])
      known == IF inList
               THEN [i \in DOMAIN conn[n] |->
                       IF conn[n][i].node = x THEN [node |-> x, count |-> Depth] ELSE conn[n][i]]
               ELSE Append(conn[n], [node |-> x, count |-> Depth])
      range == [l \in Level |-> updateRange(n, x, l)]
      drops(y) == Cardinality({l \in Level : y \in range[l].refused})
                    + Cardinality({l \in Level : y \in range[l].over})
      counted == [i \in DOMAIN known |->
                    [known[i] EXCEPT !.count = Minus(@, drops(known[i].node))]]
      kept == Pick(counted, {i \in DOMAIN counted : counted[i].count > 0})
      dropped == Pick(counted, {i \in DOMAIN counted : counted[i].count = 0})
  IN /\ border' = [border EXCEPT ![n] = [l \in Level |-> range[l].border]]
     /\ inRange' = [inRange EXCEPT ![n] = [l \in Level |-> range[l].inRange]]
     /\ conn' = [conn EXCEPT ![n] = kept]
     /\ changed' = [changed EXCEPT ![n] = @ \/ dropped # <<>> \/ ~inList]
     /\ outbox' = [outbox EXCEPT ![n] =
                     [i \in DOMAIN dropped |->
                        To(getBestFitNext(n, kept, dropped[i].node), Ref(dropped[i].node))]]
     /\ UNCHANGED <<deleted, draining>>

-----------------------------------------------------------------------------
(* Messages of a node *)

\* What linearizeRange sends for level l of n.
linearizeRange(n, l) ==
  LET r == Sorted(inRange[n][l])
      b == border[n][l]
      middle == SelectInSeq(r, LAMBDA x : x > n)
      intro(i) == IF i # middle THEN <<>>
                  ELSE <<To(r[i], Ref(n))>> \o (IF i > 1 THEN <<To(r[i - 1], Ref(n))>> ELSE <<>>)
      pair(i) == IF i = 1 THEN <<>>
                 ELSE IF r[i] < n THEN <<To(r[i - 1], Ref(r[i]))>> ELSE <<To(r[i], Ref(r[i - 1]))>>
      across(i) == IF r[i] < n THEN <<To(r[i], Ref(r[middle]))>>
                   ELSE IF middle > 1 THEN <<To(r[i], Ref(r[middle - 1]))>> ELSE <<>>
      both(x, y) == IF x = None \/ y = None THEN <<>> ELSE <<To(x, Ref(y)), To(y, Ref(x))>>
  IN Flat([i \in DOMAIN r |-> intro(i) \o pair(i)])
     \o (IF r # <<>> /\ middle = 0 THEN <<To(Last(r), Ref(n))>> ELSE <<>>)
     \o (IF middle = 0 THEN <<>> ELSE Flat([i \in DOMAIN r |-> across(i)]))
     \o both(b[0], b[3]) \o both(b[1], b[2])

Timeout(n) ==
  /\ outbox[n] = <<>>
  /\ ~draining[n]
  /\ ticks < MaxTimeouts
  /\ ticks' = ticks + 1
  /\ changed' = [changed EXCEPT ![n] = FALSE]
  /\ outbox' = [outbox EXCEPT ![n] = Flat([i \in 1..Depth |-> linearizeRange(n, i - 1)])]
  /\ UNCHANGED <<bits, order, border, inRange, conn, deleted, draining, inbox, main>>

\* A search goes to a connected node whose bit string fits better than n's, or
\* whose value is nearer, and ends where there is none.
searchOnNodeBitstring(n, x) ==
  LET fits(y) == getFitLevel(y, x)
      best == SelectInSeq(conn[n], LAMBDA e : \A y \in Names(conn[n]) : fits(y) <= fits(e.node))
  IN IF bits[x] = bits[n] \/ best = 0 \/ fits(conn[n][best].node) <= fits(n) THEN <<>>
     ELSE <<To(conn[n][best].node, Search(x, TRUE))>>

searchOnNodeID(n, x) ==
  LET between == {y \in Names(conn[n]) : (n < y /\ y <= x) \/ (x <= y /\ y < n)}
  IN IF between = {} THEN <<>>
     ELSE <<To(IF x > n THEN Max(between) ELSE Min(between), Search(x, FALSE))>>

SortConnected(n, x) ==
  LET places == DOMAIN conn[n]
      value(i) == conn[n][i].node
      at == InOrder(places, {p \in places \X places :
              IF x > n THEN value(p[1]) < value(p[2]) ELSE value(p[1]) > value(p[2])})
  IN [k \in DOMAIN at |-> conn[n][at[k]]]

\* Mutant: the node is removed from the ranges and stays among the connected ones.
removeNodeStaysConnected(n, x) ==
  /\ border' = [border EXCEPT ![n] = [l \in Level |-> [i \in 0..3 |->
       IF border[n][l][i] = x THEN None ELSE border[n][l][i]]]]
  /\ inRange' = [inRange EXCEPT ![n] = [l \in Level |-> inRange[n][l] \ {x}]]
  /\ deleted' = [deleted EXCEPT ![n] = @ \union {x}]
  /\ UNCHANGED <<conn, changed, draining, outbox>>

-----------------------------------------------------------------------------
(* A node's loop.  The border of a node that leaves is removed together    *)
(* with every other border of the same bit string.                         *)

removeNodeFromRanges(n, x) ==
  /\ border' = [border EXCEPT ![n] = [l \in Level |-> [i \in 0..3 |->
       LET b == border[n][l][i]
       IN IF b # None /\ b # x /\ bits[b] # bits[x] THEN b ELSE None]]]
  /\ inRange' = [inRange EXCEPT ![n] = [l \in Level |-> inRange[n][l] \ {x}]]
  /\ conn' = [conn EXCEPT ![n] = Pick(@, {i \in DOMAIN @ : @[i].node # x})]
  /\ deleted' = [deleted EXCEPT ![n] = @ \union {x}]
  /\ UNCHANGED <<changed, draining, outbox>>

Send(n, msgs) == outbox' = [outbox EXCEPT ![n] = msgs]

Handle(n, m) ==
  CASE m.kind = "quit" ->
         /\ Send(n, [i \in DOMAIN conn[n] |-> To(conn[n][i].node, Leave(n))])
         /\ draining' = [draining EXCEPT ![n] = TRUE]
         /\ UNCHANGED state
    [] m.kind = "leave" -> removeNodeFromRanges(n, m.node)
    [] m.kind = "searchBits" ->
         Send(n, searchOnNodeBitstring(n, m.node)) /\ UNCHANGED <<state, draining>>
    [] m.kind = "searchID" ->
         /\ Send(n, searchOnNodeID(n, m.node))
         /\ conn' = IF m.node = n THEN conn ELSE [conn EXCEPT ![n] = SortConnected(n, m.node)]
         /\ UNCHANGED <<border, inRange, deleted, changed, draining>>
    [] OTHER ->
         IF m.node \in deleted[n] THEN UNCHANGED <<state, draining, outbox>>
         ELSE Update(n, m.node)

Receive(n) ==
  /\ outbox[n] = <<>>
  /\ ~draining[n]
  /\ inbox[n] # <<>>
  /\ Handle(n, Head(inbox[n]))
  /\ inbox' = [inbox EXCEPT ![n] = Tail(@)]
  /\ UNCHANGED <<bits, order, ticks, main>>

\* A leaving node tells whom the packages in its inbox refer to that it has
\* left, until the inbox is empty; then it goes on like any other node.
Drain(n) ==
  /\ draining[n]
  /\ outbox[n] = <<>>
  /\ IF inbox[n] = <<>>
     THEN draining' = [draining EXCEPT ![n] = FALSE] /\ UNCHANGED <<inbox, outbox>>
     ELSE /\ inbox' = [inbox EXCEPT ![n] = Tail(@)]
          /\ Send(n, IF Head(inbox[n]).kind \in {"ref", "leave"}
                     THEN <<To(Head(inbox[n]).node, Leave(n))>> ELSE <<>>)
          /\ UNCHANGED draining
  /\ UNCHANGED <<bits, order, state, ticks, main>>

sendTo(n) ==
  /\ outbox[n] # <<>>
  /\ LET o == Head(outbox[n]) IN inbox' = [inbox EXCEPT ![o.to] = Append(@, o.msg)]
  /\ outbox' = [outbox EXCEPT ![n] = Tail(@)]
  /\ UNCHANGED <<bits, order, state, draining, ticks, main>>

-----------------------------------------------------------------------------
(* main: testRun *)

Put(n, msg) ==
  /\ inbox' = [inbox EXCEPT ![n] = Append(@, msg)]
  /\ UNCHANGED <<bits, order, state, draining, outbox, ticks>>

\* The nodes are created one after the other; each is made known to the one
\* before it, then started.
Created == IF main.stage = "create" THEN {order[i] : i \in 1..main.i} ELSE Node
CreateNode ==
  /\ main.stage = "create"
  /\ IF main.i = N
     THEN main' = [stage |-> "stable", i |-> 1] /\ UNCHANGED inbox
     ELSE /\ main' = [main EXCEPT !.i = @ + 1]
          /\ inbox' = [inbox EXCEPT ![order[main.i]] = Append(@, Ref(order[main.i + 1]))]
  /\ UNCHANGED <<bits, order, state, draining, outbox, ticks>>

\* main looks at one node after the other, and begins again at the first when
\* it finds one that has changed.
checkStable ==
  /\ main.stage = "stable"
  /\ main' = IF changed[order[main.i]] THEN [main EXCEPT !.i = 1]
             ELSE IF main.i < N THEN [main EXCEPT !.i = @ + 1]
             ELSE [stage |-> "leave", i |-> 1]
  /\ UNCHANGED <<bits, order, state, draining, inbox, outbox, ticks>>

TriggerLeave ==
  /\ main.stage = "leave"
  /\ IF main.i <= Len(Leavers)
     THEN /\ main' = [main EXCEPT !.i = @ + 1]
          /\ Put(order[Leavers[main.i]], Quit)
     ELSE /\ main' = [stage |-> "search", i |-> 1]
          /\ UNCHANGED <<bits, order, state, draining, inbox, outbox, ticks>>

\* Two searches for every node, by bit string and then by value, at a random one.
TriggerSearch(dst) ==
  /\ main.stage = "search"
  /\ main.i <= Min({2 * N, MaxSearches})
  /\ main' = [main EXCEPT !.i = @ + 1]
  /\ Put(dst, Search(order[((main.i - 1) % N) + 1], main.i <= N))

Init ==
  /\ bits \in Strings
  /\ order \in {s \in [Node -> Node] : IsInjective(s)}
  /\ border = [n \in Node |-> [l \in Level |-> [i \in 0..3 |-> None]]]
  /\ inRange = [n \in Node |-> [l \in Level |-> {}]]
  /\ conn = [n \in Node |-> <<>>]
  /\ deleted = [n \in Node |-> {}]
  /\ changed = [n \in Node |-> FALSE]
  /\ draining = [n \in Node |-> FALSE]
  /\ inbox = [n \in Node |-> <<>>]
  /\ outbox = [n \in Node |-> <<>>]
  /\ ticks = 0
  /\ main = [stage |-> "create", i |-> 1]

Next ==
  \/ \E n \in Created : Receive(n) \/ Drain(n) \/ sendTo(n) \/ Timeout(n)
  \/ CreateNode \/ checkStable \/ TriggerLeave
  \/ \E n \in Node : TriggerSearch(n)

Spec == Init /\ [][Next]_vars

-----------------------------------------------------------------------------
(* Properties *)

Refs(msgs) == {x \in Node : Ref(x) \in Range(msgs)}
Stored(n) ==
  Names(conn[n]) \union
    {y \in Node : \E l \in Level : y \in inRange[n][l] \union Range(border[n][l])}
\* n has a reference to m, or is to be sent one.
Knows(n, m) ==
  \/ m \in Stored(n) \union Refs(inbox[n])
  \/ \E k \in Node : Contains(outbox[k], To(n, Ref(m)))

\* While no node has been told to leave, no step of forgetting, forwarding and
\* introducing cuts the graph of references in two: each node can be reached.
Linked ==
  main.stage \in {"create", "stable"} =>
    \A S \in SUBSET Created : S # {} /\ S # Created =>
      \E n \in S, m \in Created \ S : Knows(n, m) \/ Knows(m, n)

\* The count of a connected node is the number of the ranges that hold it.
CountsRanges ==
  \A n \in Node : \A i \in DOMAIN conn[n] :
    conn[n][i].count = Cardinality({l \in Level : conn[n][i].node \in inRange[n][l]})

\* A node that is told that another has left has no reference to it any more
\* and takes none again, although the other goes on announcing itself.
Forgotten == \A n \in Node : deleted[n] \intersect Stored(n) = {}

\* A border is the nearest node of the range on its side with its bit.
BordersNearest ==
  \A n \in Node, l \in Level, y \in Node :
    y \in inRange[n][l] /\ deleted[n] = {} =>
      LET b == border[n][l]
          slot == 2 * bits[y][l]
      IN IF y < n THEN b[slot] # None /\ y <= b[slot] ELSE b[slot + 1] # None /\ b[slot + 1] <= y
=============================================================================
