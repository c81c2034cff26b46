---------------------------- MODULE Instrumenter ----------------------------
(***************************************************************************)
(* The instrumenter (src/internal/instrumenter/instrumenter.go): how it    *)
(* rewrites the statements of a function, and what the function then does. *)
(*                                                                         *)
(* A program is a tree of statements.  The module rewrites it as the code  *)
(* does, says which trees the Go compiler takes, and runs a tree: the      *)
(* steps it takes, with the logs and regions of the trace among them.  A   *)
(* condition is true in one iteration of the loop around it, and a loop    *)
(* has Turns iterations, so that a loop is left and continued at each.     *)
(* A channel is the expression that stands for it: a variable, an element  *)
(* of an array or a call, which does something whenever it is evaluated.   *)
(***************************************************************************)
EXTENDS Naturals, Sequences, FiniteSets, SequencesExt

CONSTANTS Sources,  \* bound: the programs, [results, chans, body]
          Options,  \* bound: the options, [level, goroutines, block, loop, io, values, guard]
          Turns,    \* bound: the iterations of a loop, the values of a channel
          NoSource  \* a program that was not written yet

VARIABLES source, opts, output

vars == <<source, opts, output>>

-----------------------------------------------------------------------------
(* Expressions *)

Dynamic(c) == c = "y[i]"                \* its label is built at run time
Calls(x) == x \in {"next()", "e()"}     \* to evaluate it does something
Name(c) == IF Calls(c) THEN "chan" ELSE c
Label(what, c) == what \o ": " \o Name(c)

(* Statements of a source *)

Do(e) == [k |-> "do", e |-> e]
Op(dir, c, e) == [k |-> "op", dir |-> dir, ch |-> c, e |-> e]  \* e: the value sent
Within(c) == [k |-> "within", ch |-> c]                        \* f(<-c), return <-c
Make(c, e) == [k |-> "make", ch |-> c, e |-> e]                \* c := make(chan T, e)
Assign(c) == [k |-> "assign", ch |-> c]                        \* c = another channel
IO(lib, tok) == [k |-> "io", lib |-> lib, tok |-> tok]         \* x = os.ReadFile(), x := json.Marshal()
Use == [k |-> "use"]                                           \* of the variable of an IO
Break == [k |-> "break"]
Continue == [k |-> "continue"]
Return(v) == [k |-> "return", v |-> v]
Forever == [k |-> "forever"]
Block(body) == [k |-> "block", body |-> body]
If(at, body, else) == [k |-> "if", at |-> at, body |-> body, else |-> else]
For(hint, body) == [k |-> "for", hint |-> hint, turns |-> Turns, body |-> body]
RangeOver(over, c, hint, body) ==                              \* over: "chan", "list"
  [k |-> "range", over |-> over, ch |-> c, hint |-> hint, turns |-> Turns, body |-> body]
Switch(body) == [k |-> "switch", body |-> body]
TypeSwitch(body) == [k |-> "typeswitch", body |-> body]
Select(dir, c, var, default, body) ==                          \* var: "v", "_" of "_, ok", ""
  [k |-> "select", dir |-> dir, ch |-> c, var |-> var, default |-> default, body |-> body,
   logged |-> FALSE]
Defer(body) == [k |-> "defer", body |-> body]
Go(body) == [k |-> "go", waited |-> FALSE, body |-> body]
GoCall(f, e) == [k |-> "gocall", f |-> f, e |-> e]             \* go f(e)

(* and those that the instrumenter adds *)
Log(what, c, e) == [k |-> "log", what |-> what, ch |-> c, e |-> e]
WithRegion(label, body) == [k |-> "region", label |-> label, body |-> body]
recvValue(c, over) == [k |-> "recvValue", ch |-> c, over |-> over]  \* over: "" for a single value
SetFlag(f) == [k |-> "set", flag |-> f]
IfFlag(f, body) == [k |-> "ifFlag", flag |-> f, body |-> body]

HasBody(s) == "body" \in DOMAIN s
Else(s) == IF "else" \in DOMAIN s THEN s.else ELSE <<>>

\* The statements of a list and of those nested in it, but not in one of these kinds.
RECURSIVE Nested(_, _)
Nested(list, except) ==
  UNION {{s} \union (IF HasBody(s) /\ s.k \notin except THEN Nested(s.body \o Else(s), except) ELSE {})
           : s \in Range(list)}
All(list) == Nested(list, {})
Has(list, kinds) == \E s \in All(list) : s.k \in kinds

-----------------------------------------------------------------------------
(* Which bodies may be put into a closure *)

loopBodySafe(body) == ~Has(body, {"break", "continue", "return"})
clauseBodySafeAll(body) == TRUE  \* mutant
clauseBodySafe(body) == loopBodySafe(body)

loopBodyForceable(body, allowReturn) ==
  allowReturn \/ ~\E s \in Nested(body, {"for", "range"}) : s.k = "return"

\* break, continue and return become a flag and a return; loops inside, the
\* bodies of type switches and what follows "else if" are left as they are.
Leave(flag) == Block(<<SetFlag(flag), Return("")>>)
RECURSIVE rewriteBreakContinueBody(_, _)
rewriteBreakContinueBody(body, allowReturn) ==
  LET rewrite(list) == rewriteBreakContinueBody(list, allowReturn)
      stmt(s) ==
        CASE s.k \in {"break", "continue"} -> Leave(s.k)
          [] s.k = "return" /\ allowReturn -> Leave("return")
          [] s.k \in {"block", "switch", "select"} -> [s EXCEPT !.body = rewrite(@)]
          [] s.k = "if" -> [s EXCEPT !.body = rewrite(@),
                                     !.else = [i \in DOMAIN @ |->
                                       IF @[i].k = "block" THEN Block(rewrite(@[i].body)) ELSE @[i]]]
          [] OTHER -> s
  IN [i \in DOMAIN body |-> stmt(body[i])]

ForcedRegion(body, allowReturn) ==
  <<WithRegion(Label("loop", ""), rewriteBreakContinueBody(body, allowReturn)),
    IfFlag("break", <<Break>>), IfFlag("continue", <<Continue>>)>>
  \o (IF allowReturn THEN <<IfFlag("return", <<Return("")>>)>> ELSE <<>>)

-----------------------------------------------------------------------------
(* Rewriting *)

\* A label that is built at run time is only built while tracing is enabled:
\* a gated region stands for "if enabled, the body in a region, else the body".
WrapWithRegionBare(label, body, gated) ==  \* mutant
  IF gated THEN body ELSE <<WithRegion(label, body)>>
WrapWithRegion(label, body, gated) ==
  <<[WithRegion(label, body) EXCEPT !.k = IF gated THEN "gated" ELSE @]>>

\* An expression that is logged is evaluated by the log.
ValueLog(e, o) ==
  IF o.values /\ o.level = "regions_logs" THEN <<Log("value", "", e)>> ELSE <<>>
SendStmt(s, o) ==
  ValueLog(s.e, o) \o WrapWithRegion(Label("send", s.ch), <<s>>, o.guard /\ Dynamic(s.ch))
CloseStmt(s) == <<WithRegion(Label("close", s.ch), <<Log("chan_close", s.ch, ""), s>>)>>
MakeStmt(s) == <<s, Log("chan_make", s.ch, s.e)>>

\* A call of encoding/json that is assigned is replaced by the region around
\* it; one of os or net/http is put there as well as its region.
IOStmt(s, o) ==
  LET label == Label("io", s.lib)
      region == IF s.tok = ":="
                THEN Block(<<Log("begin", label, ""), s, Log("end", label, "")>>)
                ELSE WithRegion(label, <<s>>)
  IN IF ~o.io THEN <<s>> ELSE IF s.lib = "json" THEN <<region>> ELSE <<region, s>>

\* main waits for a goroutine; a call that is started is put into a literal.
GoStmt(body) == <<[Go(body) EXCEPT !.waited = TRUE]>>

\* A select without default is announced, and so is the clause it takes.
Clause(s, o, body) ==
  LET safe == clauseBodySafe(body)
      value == IF safe /\ s.dir = "recv" /\ s.var # "" THEN ValueLog(s.var, o) ELSE <<>>
      region == IF safe THEN WrapWithRegion(Label(s.dir, s.ch), body \o value, o.guard /\ Dynamic(s.ch))
                ELSE body
      chosen == IF s.default THEN <<>>
                ELSE <<Log("select_chosen", "", ""), Log("select_case", s.ch, "")>>
  IN IF s.dir = "timer" THEN body ELSE chosen \o <<Log("select_" \o s.dir, s.ch, "")>> \o region

SelectStmt(s, o, body) ==
  LET new == [s EXCEPT !.logged = s.dir # "timer", !.body = Clause(s, o, body)]
  IN IF s.default THEN <<new>>
     ELSE <<Block(<<Log("select_begin", "", ""), new, Log("select_end", "", "")>>)>>

\* What is ranged over is taken for a channel by its name, if one of this name
\* is made or declared anywhere in the file.
chanNames(program) == program.chans \union {s.ch : s \in {t \in All(program.body) : t.k = "make"}}
isChanRange(s, names) == s.ch \in names
\* The channel is an argument of the receive of every iteration.
RangeStmt(s, body) ==
  <<[For("", <<recvValue(s.ch, s.over), IfFlag("closed", <<Break>>)>> \o body)
       EXCEPT !.turns = Turns + 1]>>
LoopStmt(s, o, body) ==
  <<[s EXCEPT !.body =
       IF loopBodySafe(@) /\ (o.loop \/ s.hint # "") THEN <<WithRegion(Label("loop", ""), @)>>
       ELSE IF s.hint # "" /\ loopBodyForceable(@, o.allowBareReturn)
       THEN ForcedRegion(@, o.allowBareReturn)
       ELSE body]>>

RECURSIVE instrumentStmts(_, _)
instrumentStmts(list, o) ==
  LET body(s) == instrumentStmts(s.body, o)
      stmt(s) ==
        CASE s.k = "op" /\ s.dir = "send" -> SendStmt(s, o)
          [] s.k = "op" /\ s.dir = "recv" -> <<recvValue(s.ch, "")>>
          [] s.k = "op" /\ s.dir = "close" -> CloseStmt(s)
          [] s.k = "op" /\ s.dir = "sync" ->
               IF o.block THEN <<WithRegion(Label("sync", s.ch), <<s>>)>> ELSE <<s>>
          [] s.k = "make" -> MakeStmt(s)
          [] s.k = "io" -> IOStmt(s, o)
          [] s.k \in {"block", "switch", "defer"} -> <<[s EXCEPT !.body = body(s)]>>
          [] s.k = "go" -> GoStmt(body(s))
          [] s.k = "gocall" -> GoStmt(<<Op("call", s.f, s.e)>>)
          [] s.k = "if" ->
               <<[s EXCEPT !.body = body(s),
                           !.else = [i \in DOMAIN @ |->
                             IF @[i].k = "block" THEN Block(body(@[i])) ELSE @[i]]]>>
          [] s.k = "range" /\ isChanRange(s, o.chanNames) -> RangeStmt(s, body(s))
          [] s.k = "for" \/ (s.k = "range" /\ ~isChanRange(s, o.chanNames)) -> LoopStmt(s, o, body(s))
          [] s.k = "select" -> SelectStmt(s, o, body(s))
          [] OTHER -> <<s>>
  IN FlattenSeq([i \in DOMAIN list |-> stmt(list[i])])

\* Wherever a goroutine is started, also in what was not rewritten, its literal
\* is put into a region, and so is a call ("gocall") that is still started as
\* such.  A gated body is one node in two places, and visited in both.
RECURSIVE GoroutineRegions(_, _)
GoroutineRegions(list, k) ==
  LET enter(body) == GoroutineRegions(body, k)
      started(name, body) == <<WithRegion(Label("goroutine", name), body)>>
      stmt(s) ==
        CASE s.k = "go" /\ k = "go" -> [s EXCEPT !.body = started("anon", enter(@))]
          [] s.k = "gocall" /\ k = "gocall" -> Go(started(s.f, <<Op("call", s.f, s.e)>>))
          [] s.k = "gated" -> [s EXCEPT !.body = enter(enter(@))]
          [] s.k = "if" -> [s EXCEPT !.body = enter(@), !.else = enter(@)]
          [] s.k \notin {"gated", "if"} /\ ~(s.k = "go" /\ k = "go") /\ HasBody(s) ->
               [s EXCEPT !.body = enter(@)]
          [] OTHER -> s
  IN [i \in DOMAIN list |-> stmt(list[i])]

\* The pointer of its channel is logged before a region that begins with a
\* channel operation; function literals are not entered, but a gated body is,
\* where it stands outside of its region.
RECURSIVE FirstOf(_)
FirstOf(body) == IF body = <<>> THEN Use
                 ELSE IF Head(body).k = "block" THEN FirstOf(Head(body).body) ELSE Head(body)
IsPointerLogAny(s) == s.k = "log"  \* mutant
IsPointerLog(s) == s.k = "log" /\ s.what = "ch_ptr"
NeedsPointer(s) ==
  /\ s.k \in {"region", "gated"}
  /\ LET op == FirstOf(s.body) IN op.k = "op" /\ op.dir \in {"send", "recv"}

RECURSIVE ensureChPtrLogs(_)
ensureChPtrLogs(list) ==
  LET enter(s) == IF s.k \in {"defer", "go", "region"} \/ ~HasBody(s) THEN s
                  ELSE IF Else(s) = <<>> THEN [s EXCEPT !.body = ensureChPtrLogs(@)]
                  ELSE [s EXCEPT !.body = ensureChPtrLogs(@), !.else = ensureChPtrLogs(@)]
      logged(i) == IF NeedsPointer(list[i]) /\ ~(i > 1 /\ IsPointerLog(list[i - 1]))
                   THEN <<Log("ch_ptr", FirstOf(list[i].body).ch, ""), enter(list[i])>>
                   ELSE <<enter(list[i])>>
  IN FlattenSeq([i \in DOMAIN list |-> logged(i)])

\* Bare returns are legal in a function without results and one that names them.
AllowBareReturn(program) == program.results # "unnamed"
InstrumentProgram(program, o) ==
  LET known == [allowBareReturn |-> AllowBareReturn(program), chanNames |-> chanNames(program)]
      visited == IF o.level = "tasks_only" THEN program.body
                 ELSE instrumentStmts(program.body, known @@ o)
  IN ensureChPtrLogs(IF o.goroutines THEN GoroutineRegions(GoroutineRegions(visited, "go"), "gocall")
                     ELSE visited)

Write ==
  /\ output = NoSource
  /\ output' = InstrumentProgram(source, opts)
  /\ UNCHANGED <<source, opts>>

Init == source \in Sources /\ opts \in Options /\ output = NoSource
Next == Write
Spec == Init /\ [][Next]_vars

-----------------------------------------------------------------------------
(* The Go compiler *)

Function(results) == [break |-> FALSE, continue |-> FALSE, results |-> results]
Literal == Function("none")
RECURSIVE Compiles(_, _)
Compiles(list, scope) ==
  \A i \in DOMAIN list :
    LET s == list[i]
        inner == CASE s.k \in {"region", "gated", "go", "defer"} -> Literal
                   [] s.k \in {"for", "range"} -> [scope EXCEPT !.break = TRUE, !.continue = TRUE]
                   [] s.k \in {"switch", "typeswitch", "select"} -> [scope EXCEPT !.break = TRUE]
                   [] OTHER -> scope
    IN /\ s.k = "break" => scope.break
       /\ s.k = "continue" => scope.continue
       /\ s.k = "return" => \/ s.v = "" /\ scope.results # "unnamed"
                            \/ s.v # "" /\ scope.results # "none"
       /\ s.k = "io" /\ s.tok = ":=" => \E j \in DOMAIN list : j > i /\ list[j].k = "use"
       /\ s.k = "use" => \E j \in 1..i : list[j].k = "io" /\ list[j].tok = ":="
       /\ s.k = "recvValue" => s.over # "list"
       /\ s.k = "log" => s.e # "_"
       /\ HasBody(s) => Compiles(s.body, inner) /\ Compiles(Else(s), inner)

-----------------------------------------------------------------------------
(* The run of a program, tracing enabled *)

\* moved: whether another channel was assigned to the variable before.
Effect(what, c, flags) == [k |-> "effect", what |-> what, ch |-> c, moved |-> c \in flags]
Evaluated(x) == IF Calls(x) THEN <<Effect("eval", x, {})>> ELSE <<>>
Begin(label) == Log("begin", label, "")
End(label) == Log("end", label, "")

Done(out) == [out |-> out, how |-> "next", v |-> "", defers |-> <<>>, flags |-> {}]
Leaves(how, v) == [Done(<<>>) EXCEPT !.how = how, !.v = v]
Sets(flags) == [Done(<<>>) EXCEPT !.flags = flags]
After(a, b) == [b EXCEPT !.out = a.out \o @, !.defers = a.defers \o @, !.flags = a.flags \union @]
Caught(r, kinds) == IF r.how \in kinds THEN [r EXCEPT !.how = "next"] ELSE r
\* The flags are variables of the body of a loop.
OutOfLoop(flags) == flags \ {"break", "continue", "return", "closed"}

RECURSIVE Exec(_, _, _), Loop(_, _, _, _), Call(_, _, _), Deferred(_, _)
Started(body, waited, flags) ==
  [k |-> "go", waited |-> waited, run |-> Call(body, 0, OutOfLoop(flags))]

\* Statements in iteration i of the loop around them, with these flags set.
Exec(list, i, flags) ==
  IF list = <<>> THEN Sets(flags)
  ELSE
    LET s == Head(list)
        op(what) == <<Effect(what, s.ch, flags)>>
        pointer == <<Log("ch_ptr", s.ch, "")>>
        stmt ==
          CASE s.k = "do" -> Done(<<Effect("do", s.e, {})>>)
            [] s.k = "op" -> Done(Evaluated(s.ch) \o Evaluated(s.e) \o op(s.dir))
            [] s.k = "within" -> Done(Evaluated(s.ch) \o op("recv"))
            [] s.k = "make" -> Done(Evaluated(s.e) \o <<Effect("make", s.ch, {})>>)
            [] s.k = "assign" -> Sets({s.ch})
            [] s.k = "io" -> Done(<<Effect("io", s.lib, {})>>)
            [] s.k = "log" -> Done(Evaluated(s.ch) \o Evaluated(s.e) \o <<s>>)
            [] s.k \in {"break", "continue", "forever"} -> Leaves(s.k, "")
            [] s.k = "return" -> Leaves("return", s.v)
            [] s.k = "block" -> Exec(s.body, i, flags)
            [] s.k = "if" -> Exec(IF s.at = i THEN s.body ELSE s.else, i, flags)
            [] s.k = "ifFlag" -> IF s.flag \in flags THEN Exec(s.body, i, flags) ELSE Done(<<>>)
            [] s.k = "set" -> Sets({s.flag})
            [] s.k = "for" -> Loop(s, 1, flags, <<>>)
            [] s.k = "range" -> After(Done(Evaluated(s.ch)),
                                      Loop(s, 1, flags, IF s.over = "chan" THEN op("recv") ELSE <<>>))
            [] s.k \in {"switch", "typeswitch"} -> Caught(Exec(s.body, i, flags), {"break"})
            [] s.k = "select" ->
                 After(Done(Evaluated(s.ch) \o (IF s.logged THEN pointer ELSE <<>>) \o op(s.dir)),
                       Caught(Exec(s.body, i, flags), {"break"}))
            [] s.k = "defer" -> [Done(<<>>) EXCEPT !.defers = <<s.body>>]
            [] s.k = "go" -> Done(<<Started(s.body, s.waited, flags)>>)
            [] s.k = "gocall" ->
                 Done(Evaluated(s.e) \o <<Started(<<Op("call", s.f, "")>>, FALSE, flags)>>)
            [] s.k \in {"region", "gated"} ->
                 LET r == Call(s.body, i, flags)
                 IN [r EXCEPT !.out = <<Begin(s.label)>> \o @
                                      \o (IF r.how = "next" THEN <<End(s.label)>> ELSE <<>>)]
            [] s.k = "recvValue" ->
                 LET label == Label("recv", s.ch)
                     ended == s.over # "" /\ i > Turns
                 IN After(Done(Evaluated(s.ch) \o pointer \o <<Begin(label)>>
                               \o op(IF ended THEN "closed" ELSE "recv") \o <<End(label)>>),
                          Sets(IF ended THEN {"closed"} ELSE {}))
            [] OTHER -> Done(<<>>)
        a == [stmt EXCEPT !.flags = @ \union flags]
    IN IF a.how = "next" THEN After(a, Exec(Tail(list), i, a.flags)) ELSE a

\* A range over a channel receives from the one it found when it began.
Loop(s, i, flags, received) ==
  IF i > s.turns
  THEN Done([x \in DOMAIN received |-> [received[x] EXCEPT !.what = "closed"]])
  ELSE LET run == After(Done(received), Exec(s.body, i, OutOfLoop(flags)))
           r == Caught([run EXCEPT !.flags = OutOfLoop(@)], {"continue"})
       IN IF r.how = "next" THEN After(r, Loop(s, i + 1, r.flags, received))
          ELSE Caught(r, {"break"})

Deferred(defers, flags) ==
  IF defers = <<>> THEN <<>>
  ELSE LET r == Call(Last(defers), 0, flags) IN r.out \o Deferred(Front(defers), r.flags)

\* A function literal: its return ends nothing but itself.
Call(body, i, flags) ==
  LET r == Caught(Exec(body, i, flags), {"return"})
  IN IF r.how = "forever" THEN r
     ELSE [r EXCEPT !.out = @ \o Deferred(r.defers, r.flags), !.defers = <<>>]

\* main waits for the goroutines it was made to wait for.
RECURSIVE GoroutinesEnd(_)
GoroutinesEnd(out) ==
  \A x \in Range(out) :
    x.k = "go" => (x.waited => x.run.how # "forever") /\ GoroutinesEnd(x.run.out)

\* A function with results that returns bare returns what it has named them;
\* main is the one without results.
RunOf(body, results) ==
  LET r == Exec(body, 0, {})
  IN [out |-> IF r.how = "forever" THEN r.out ELSE r.out \o Deferred(r.defers, r.flags),
      ends |-> r.how # "forever" /\ (results = "none" => GoroutinesEnd(r.out)),
      v |-> IF r.v = "" /\ results = "named" THEN "named" ELSE r.v]

\* What a run does, but for effects of these kinds.
RECURSIVE Effects(_, _)
Effects(out, but) ==
  LET kept == SelectSeq(out, LAMBDA x : x.k = "go" \/ (x.k = "effect" /\ x.what \notin but))
  IN [i \in DOMAIN kept |-> IF kept[i].k = "go"
                           THEN [k |-> "go", run |-> Effects(kept[i].run.out, but)] ELSE kept[i]]

-----------------------------------------------------------------------------
(* Properties *)

Written == output # NoSource
Source == source.body
OutputCompiles == Compiles(output, Function(source.results))
New == RunOf(output, source.results)
Old == RunOf(Source, source.results)

(* Why the rewritten program may be another one *)

Visited == opts.level # "tasks_only"
Received(s) == s.k = "range" /\ Visited /\ isChanRange(s, chanNames(source))  \* as a channel
IsLoop(s) == s.k \in {"for", "range"} /\ Visited /\ ~Received(s)
\* The bodies that become closures, and are not rewritten any further.
Wrapped(s) == IsLoop(s) /\ loopBodySafe(s.body) /\ (opts.loop \/ s.hint # "")
Forced(s) == IsLoop(s) /\ s.hint # "" /\ ~loopBodySafe(s.body)
               /\ loopBodyForceable(s.body, AllowBareReturn(source))
InRegion(s) == s.k = "select" /\ Visited /\ s.dir # "timer" /\ clauseBodySafe(s.body)
ValuesLogged == opts.values /\ opts.level = "regions_logs"
\* What a return or a break in a forced body stands in, and is not seen there.
Hidden(s) == \/ s.k \in {"for", "range", "typeswitch"}
             \/ (s.k = "if" /\ \E e \in Range(s.else) : e.k = "if")
\* What a body defers is done when its closure returns, not when the function does.
DeferEndsEarly ==
  \E s \in All(Source) : (Wrapped(s) \/ Forced(s) \/ InRegion(s)) /\ Has(s.body, {"defer"})
\* A break out of a switch or a select sets the flag of the loop.
BreakLeavesLoop ==
  \E s \in All(Source), t \in All(Source) :
    Forced(s) /\ t \in All(s.body) /\ t.k \in {"switch", "select"} /\ Has(t.body, {"break"})
\* A return that is not rewritten returns from the closure alone.
ReturnLost ==
  \E s \in All(Source) : Forced(s) /\ \E t \in All(s.body) : Hidden(t) /\ Has(<<t>>, {"return"})
\* A return of a value becomes a bare one.
ResultLost ==
  source.results = "named" /\ \E s \in All(Source) : Forced(s) /\ Has(s.body, {"return"})
\* A variable that its own loop assigns is ranged over.
RangeFollows ==
  \E s \in All(Source) : Received(s) /\ \E t \in All(s.body) : t.k = "assign" /\ t.ch = s.ch
\* main waits for the goroutines it had left behind.
WaitsForever == Visited /\ \E s \in All(Source) : s.k = "go" /\ Has(s.body, {"forever"})
\* The assignment follows the region that holds it.
DoneTwice == Visited /\ opts.io /\ \E s \in All(Source) : s.k = "io" /\ s.lib # "json"
\* A log evaluates the channel, the value or the capacity that the statement evaluates.
EvaluatedByLog ==
  /\ Visited
  /\ \/ \E s \in All(Source) :
          \/ s.k = "op" /\ s.dir \in {"send", "close"} /\ Calls(s.ch)
          \/ s.k = "op" /\ s.dir = "send" /\ Calls(s.e) /\ ValuesLogged
          \/ s.k = "select" /\ s.dir # "timer" /\ Calls(s.ch)
          \/ s.k = "make" /\ Calls(s.e)
     \/ \E s \in All(Source) :
          (Wrapped(s) \/ Forced(s)) /\ LET op == FirstOf(s.body) IN op.k = "op" /\ Calls(op.ch)
\* The arguments of a call that is started are evaluated by the goroutine.
EvaluatedLate ==
  (Visited \/ opts.goroutines) /\ \E s \in All(Source) : s.k = "gocall" /\ Calls(s.e)

\* The last three reasons change nothing but evaluations, and IO calls.
Excused == (IF EvaluatedByLog \/ EvaluatedLate THEN {"eval"} ELSE {})
           \union (IF DoneTwice THEN {"io"} ELSE {})
SameBut(kinds) == Effects(New.out, kinds) = Effects(Old.out, kinds) /\ New.v = Old.v
\* A rewritten program that compiles does what its source does, in the same
\* order, evaluates and calls as often, ends if that ends and returns the same,
\* unless one of the nine reasons above is found in it; and the last four
\* change no more than they say: whether it ends, the IO calls, the evaluations
\* (InstrumentProgram; the two checks of a body before it is put into a closure
\* promise as much, instrumenter.go:2753, 2777).
SameBehaviourUnless ==
  Written /\ OutputCompiles =>
    \/ SameBut(Excused) /\ (New.ends = Old.ends \/ (Old.ends /\ WaitsForever))
    \/ DeferEndsEarly \/ BreakLeavesLoop \/ ReturnLost \/ ResultLost \/ RangeFollows
\* The same without the reasons, which does not hold (MCInstrumenterSame.cfg).
SameBehaviour == Written /\ OutputCompiles => SameBut({}) /\ New.ends = Old.ends

\* A list that has the name of a channel is ranged over.
RangeMistaken == \E s \in All(Source) : Received(s) /\ s.over = "list"
\* The value log names the blank variable of "_, ok := <-ch".
BlankLogged == ValuesLogged /\ \E s \in All(Source) : InRegion(s) /\ s.dir = "recv" /\ s.var = "_"

\* How an operation is found in the trace: in a region of its own, or between
\* the logs of a select.
IsOp(x) == x.k = "effect" /\ x.what \in {"send", "recv", "closed"}
IsEval(x) == x.k = "effect" /\ x.what = "eval"
IsSelectLog(x) == x.k = "log" /\ x.what \in {"select_chosen", "select_case"}
Traced(out, p) ==
  LET dir == IF out[p].what = "send" THEN "send" ELSE "recv"
  IN \/ \E q \in 1..p - 1 : /\ out[q] = Begin(Label(dir, out[p].ch))
                          /\ \A r \in q + 1..p - 1 : IsEval(out[r])
     \/ \E q \in p + 1..Len(out) : /\ out[q] = Log("select_" \o dir, out[p].ch, "")
                                 /\ \A r \in p + 1..q - 1 : IsEval(out[r]) \/ IsSelectLog(out[r])
\* The pointer that was logged is that of the operation: what a call returns
\* once more may be another one.
PointerLogged(out, p) ==
  \E q \in 1..p - 1 :
    /\ out[q] = Log("ch_ptr", out[p].ch, "")
    /\ \A r \in q + 1..p - 1 : ~IsOp(out[r]) /\ ~(IsEval(out[r]) /\ out[r].ch = out[p].ch)
RECURSIVE EveryOp(_, _)
EveryOp(out, pointers) ==
  \A p \in DOMAIN out :
    /\ IsOp(out[p]) => IF pointers THEN Traced(out, p) => PointerLogged(out, p) ELSE Traced(out, p)
    /\ out[p].k = "go" => EveryOp(out[p].run.out, pointers)

NotRewritten(s) == \/ Wrapped(s) \/ Forced(s) \/ s.k \in {"within", "typeswitch"}
                   \/ (s.k = "range" /\ ~Received(s) /\ s.over = "chan")
                   \/ (s.k = "if" /\ \E e \in Range(s.else) : e.k = "if")
DoesOp(s) == \E t \in All(<<s>>) : t.k \in {"op", "within", "select"} \/ (t.k = "range" /\ t.over = "chan")
\* Every send and receive a rewritten program does, in whatever goroutine or
\* closure, is found in the trace, unless it stands in a statement that is not
\* rewritten (the body of a region, a type switch, an "else if", an expression
\* around it), or is that of a range over a channel that has no name or none
\* that the file makes or declares (instrumentStmts, isChanRange); a timer is no
\* such channel.  The trace processor sees what an operation is in no other way.
OpsTracedUnless ==
  Written /\ OutputCompiles /\ Visited =>
    \/ EveryOp(New.out, FALSE)
    \/ \E s \in All(Source) : NotRewritten(s) /\ DoesOp(s)

\* Before every send and receive that is found in the trace the pointer of its
\* channel is logged, and no operation comes between ("to keep a single
\* canonical pointer log before each region", instrumenter.go:1826), unless a
\* send stands in a function literal of the source or of a select clause that
\* is not gated: ensureChPtrLogs enters none, and the trace processor has the
\* label alone; or the channel of a send is a call, which is called for the log
\* and once more for the send; or an operation that is not rewritten stands in a
\* select clause, whose region makes it look like the one of the clause.
PointersLoggedUnless ==
  Written /\ OutputCompiles /\ Visited =>
    \/ EveryOp(New.out, TRUE)
    \/ \E s \in All(Source) :
         /\ s.k \in {"go", "defer"} \/ (InRegion(s) /\ ~(opts.guard /\ Dynamic(s.ch)))
         /\ \E t \in All(s.body) : t.k = "op" /\ t.dir = "send"
    \/ \E s \in All(Source) : s.k = "op" /\ s.dir = "send" /\ Calls(s.ch)
    \/ \E s \in All(Source) : InRegion(s) /\ \E t \in All(s.body) : NotRewritten(t) /\ DoesOp(t)
=============================================================================
