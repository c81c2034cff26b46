---- MODULE MCInstrumenter ----
EXTENDS Instrumenter

\* The channels that the rest of the file makes or declares.
Declared == {"x", "y", "z"}
Program(results, body) == [results |-> results, chans |-> Declared, body |-> body]

Leaf == {Do("a"), Break, Continue, Op("send", "x", ""), Op("recv", "y[i]", "")}
Returns(results) == {Return(IF results = "none" THEN "" ELSE "v")}
Leaves1(results) == Leaf \union Returns(results)
Guarded(S) == {If(1, <<s>>, <<>>) : s \in S} \union {If(2, <<Do("b")>>, <<If(1, <<s>>, <<>>)>>) : s \in S}
Nests(S) == {Switch(<<s, Do("c")>>) : s \in S} \union {TypeSwitch(<<s, Do("c")>>) : s \in S}
            \union {Select("recv", "z", "", FALSE, <<s, Do("c")>>) : s \in S}
            \union {For("", <<s>>) : s \in S}
LoopBodies(results) ==
  LET L == Leaves1(results)
      G == L \union Guarded(L)
  IN {<<s, Do("d")>> : s \in G \union Nests(G) \union {If(1, <<t>>, <<>>) : t \in Nests(L)}}
Ending(results) == IF results = "none" THEN <<>> ELSE <<Return("w")>>
Hints == {"", "hot"}
Results == {"none", "named", "unnamed"}
Loops == UNION {{Program(r, <<For(h, b), Do("end")>> \o Ending(r))
                   : h \in Hints, b \in LoopBodies(r)} : r \in Results}
\* "p" is a parameter, "x" may be the name of a list here.
Ranges ==
  UNION {{Program(r, <<RangeOver(over, c, h, <<s, Do("d")>>), Do("end")>> \o Ending(r))
            : over \in {"chan", "list"}, c \in {"x", "p", "next()"}, h \in Hints,
              s \in Leaves1(r) \union Guarded(Leaves1(r)) \union Nests(Leaves1(r))} : r \in Results}

Other == {Defer(<<Op("send", "x", "")>>), Go(<<Op("send", "x", "e()"), Defer(<<Do("g")>>)>>),
          Go(<<Forever>>), GoCall("f", ""), GoCall("f", "e()"), Go(<<Op("recv", "x", "")>>),
          RangeOver("chan", "x", "", <<Op("send", "y[i]", ""), If(1, <<Continue>>, <<>>), Do("r")>>),
          RangeOver("chan", "x", "hot", <<Assign("x"), Op("send", "x", "")>>),
          RangeOver("chan", "q", "", <<If(2, <<Break>>, <<>>), Do("r")>>),
          RangeOver("list", "l", "", <<Op("send", "x", "")>>),
          Select("send", "x", "", TRUE, <<Op("send", "z", "e()")>>),
          Select("recv", "y[i]", "v", FALSE, <<Defer(<<Do("g")>>), Do("h")>>),
          Select("recv", "y[i]", "v", TRUE, <<Op("send", "x", ""), Go(<<Do("g")>>)>>),
          Select("recv", "x", "_", FALSE, <<Do("h")>>),
          Select("timer", "t", "v", FALSE, <<Op("send", "z", "")>>),
          IO("json", "="), IO("os", "="), Op("sync", "m", ""), Assign("x"), Within("x"), Make("q", ""),
          Op("close", "x", ""), Op("send", "x", "e()"), Op("send", "y[i]", "")}
Calling == {Op("send", "next()", "e()"), Op("recv", "next()", ""), Op("close", "next()", ""),
            Within("next()"), Make("q", "e()"), RangeOver("chan", "next()", "", <<Do("r")>>),
            Select("send", "next()", "", FALSE, <<Do("h")>>),
            Select("recv", "next()", "v", FALSE, <<If(1, <<Break>>, <<>>), Do("h")>>),
            Select("recv", "next()", "v", TRUE, <<Op("send", "x", "")>>)}
\* One of them in each place a statement can stand in.
Around(s) ==
  {Block(<<s>>), If(0, <<s>>, <<>>), If(1, <<Do("b")>>, <<Block(<<s>>)>>), Switch(<<s>>), TypeSwitch(<<s>>),
   Go(<<s>>), Defer(<<s>>), RangeOver("chan", "x", "hot", <<s>>), RangeOver("chan", "p", "hot", <<s, Continue>>),
   For("hot", <<s, Break>>), Select("timer", "t", "", TRUE, <<s>>)}
  \union {Select("recv", c, "v", c = "y[i]", <<s>>) : c \in {"x", "y[i]", "next()"}}
Placed == {Program(r, <<a>> \o Ending(r)) : r \in Results, a \in UNION {Around(s) : s \in Other \union Calling}}
Few == {Op("send", "x", "e()"), Op("recv", "next()", ""), Op("close", "x", ""), Within("x"), Assign("x"),
        Go(<<Forever>>), GoCall("f", "e()"), IO("os", "=")}
Deep == {Program("none", <<a>>) : a \in UNION {Around(b) : b \in UNION {Around(s) : s \in Few}}}
Straight == {Program("none", b) :
               b \in {<<s, t>> : s \in Other \union Calling, t \in Other}
                      \union {<<For(h, <<s>>), t>> : h \in Hints, s \in Other \union Calling, t \in Other}
                      \union {<<IO(l, ":="), Use>> : l \in {"json", "os"}}}
Programs == {p \in Loops \union Ranges \union Straight \union Placed \union Deep : Compiles(p.body, Function(p.results))}

AllOptions ==
  {[level |-> "tasks_only", goroutines |-> g, loop |-> FALSE, io |-> FALSE, block |-> FALSE, values |-> FALSE, guard |-> FALSE]
     : g \in BOOLEAN}
  \union {[level |-> l, goroutines |-> g, loop |-> p, io |-> g # p, block |-> TRUE, values |-> l = "regions_logs", guard |-> g]
            : l \in {"regions", "regions_logs"}, p, g \in BOOLEAN}
====
