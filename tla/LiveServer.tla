----------------------------- MODULE LiveServer -----------------------------
(***************************************************************************)
(* Requests to the live server that share workload files and the cache of  *)
(* built runners (cmd/gtv-live/main.go: instrumentHandler, runOnceHTTP,    *)
(* ensureRunnerBinary, clearBuildCacheHTTP; demoGoTraceHTTP runs a         *)
(* workload like runOnceHTTP).                                             *)
(*                                                                         *)
(* net/http serves each request on a goroutine of its own, and nothing is  *)
(* locked.  POST /instrument sets the package-level options of the         *)
(* instrumenter, instruments, and rewrites <name>_gen.go in place.  /run   *)
(* hashes that file, looks the hash up in the cache, compares modification *)
(* times, builds when it has to, and starts the binary.  A build reads the *)
(* file at one instant and puts the binary in place at a later one.        *)
(*                                                                         *)
(* The server runs without -mvp, and each build tag has one file, which    *)
(* cleanupOldWorkloadFiles sees to.                                        *)
(***************************************************************************)
EXTENDS Naturals, FiniteSets

CONSTANTS
    Slot,       \* requests served at a time
    Name,       \* names of workloads
    Text,       \* programs that are sent to be instrumented
    Asks,       \* options that requests ask for; one that asks for nothing is to get Default
    MaxRequests \* bound: requests that come

\* Options, in the two parts a reader may see one of before the other.
Option  == [level : {"regions", "tasks_only"}, rest : {"on", "off"}]
Default == [level |-> "regions", rest |-> "on"]

\* What a workload file may hold, and no file at all: a built-in workload.
Special(what) == [text |-> what, opt |-> Default]
Absent  == Special("absent")
Empty   == Special("empty")
Mixed   == Special("mixed")     \* parts of two programs
Program == [text : Text, opt : Option]
Content == Program \union {Absent, Empty, Mixed}

NoKey == Special("nokey")       \* of a build that is not cached

ASSUME LiveServerAssumption ==
    /\ Asks \subseteq Option
    /\ Text \intersect {"absent", "empty", "mixed", "nokey"} = {}
    /\ MaxRequests \in Nat

VARIABLES
    options,    \* instrOpts
    source,     \* the workload files
    bin,        \* the cached binaries, by name and hash: the program in each
    newer,      \* binaries that are newer than their workload file
    req,        \* what is served on each slot
    came,       \* requests that came
    fresh,      \* slots whose binary was newer than the file, as far as they know
    seen,       \* what the file of a slot's request has held since it came
    restored    \* names and hashes: the file came to that content again while
                \* a build for the hash was under way

requests == <<req, came, seen>>
vars == <<options, source, bin, newer, requests, fresh, restored>>

Idle == [pc |-> "idle", name |-> "none", want |-> Default, code |-> Absent, key |-> NoKey]

Init ==
    /\ options = Default
    /\ source \in [Name -> {Absent} \union [text : Text, opt : {Default}]] /\ came = 0
    /\ bin = <<>> /\ newer = {}
    /\ req = [s \in Slot |-> Idle]
    /\ fresh = {} /\ seen = [s \in Slot |-> {}] /\ restored = {}

At(s, pc)      == req[s].pc = pc
Goto(s, pc)    == req' = [req EXCEPT ![s].pc = pc]
Answer(s)      == req' = [req EXCEPT ![s] = Idle] /\ seen' = [seen EXCEPT ![s] = {}]
Key(s)         == <<req[s].name, req[s].key>>

-----------------------------------------------------------------------------
(* POST /instrument.                                                       *)

Comes(s) == At(s, "idle") /\ came < MaxRequests /\ came' = came + 1

InstrumentRequest(s) ==
    /\ Comes(s)
    /\ \E n \in Name, t \in Text :
          \/ \E o \in Asks :
                req' = [req EXCEPT ![s] = [Idle EXCEPT !.pc = "set", !.name = n, !.want = o,
                                                       !.code.text = t]]
          \/ req' = [req EXCEPT ![s] = [Idle EXCEPT !.pc = "instrument", !.name = n,
                                                    !.code.text = t]]
    /\ UNCHANGED <<options, source, bin, newer, fresh, seen, restored>>

\* SetOptions assigns a struct that others read meanwhile: its parts get there
\* in any order.
SetPart(s, part) == options' = [options EXCEPT ![part] = req[s].want[part]]

SetOptions(s) ==
    /\ \/ At(s, "set") /\ SetPart(s, "level") /\ Goto(s, "set_rest")
       \/ At(s, "set") /\ SetPart(s, "rest") /\ Goto(s, "set_level")
       \/ At(s, "set_level") /\ SetPart(s, "level") /\ Goto(s, "instrument")
       \/ At(s, "set_rest") /\ SetPart(s, "rest") /\ Goto(s, "instrument")
    /\ UNCHANGED <<source, bin, newer, came, fresh, seen, restored>>

\* InstrumentProgram copies the options first.  It may fail.
InstrumentProgram(s) ==
    /\ At(s, "instrument")
    /\ \/ req' = [req EXCEPT ![s].pc = "save", ![s].code.opt = options] /\ UNCHANGED seen
       \/ Answer(s)
    /\ UNCHANGED <<options, source, bin, newer, came, fresh, restored>>

\* Requests that have hashed content c of name n and are not done building.
Building(n, c) ==
    {s \in Slot : req[s].pc \in {"stat", "gen", "build", "link"} /\ Key(s) = <<n, c>>}

\* Mutant: the clock of the file system is too coarse to tell.
SourceBecomesCoarse(n, c) ==
    /\ source' = [source EXCEPT ![n] = c]
    /\ restored' = restored \union (IF Building(n, c) # {} THEN {<<n, c>>} ELSE {})
    /\ UNCHANGED <<newer, fresh>>

\* The file gets other content and a new time.
SourceBecomes(n, c) ==
    /\ source' = [source EXCEPT ![n] = c]
    /\ newer' = {k \in newer : k[1] # n}
    /\ fresh' = {s \in fresh : req[s].name # n}
    /\ restored' = restored \union (IF Building(n, c) # {} THEN {<<n, c>>} ELSE {})

Sees(s, n, c) == IF req[s].name = n THEN seen[s] \union {c} ELSE seen[s]

\* os.WriteFile empties the file ...
Truncate(s) ==
    /\ At(s, "save")
    /\ SourceBecomes(req[s].name, Empty)
    /\ Goto(s, "write")
    /\ seen' = [t \in Slot |-> Sees(t, req[s].name, Empty)]
    /\ UNCHANGED <<options, bin, came>>

\* ... and writes.  The end of a longer program somebody else has written since
\* stays behind.
Write(s) ==
    /\ At(s, "write")
    /\ \E c \in {req[s].code, Mixed} :
          /\ c = Mixed => source[req[s].name] \notin {Empty, req[s].code}
          /\ SourceBecomes(req[s].name, c)
          /\ seen' = [t \in Slot |-> IF t = s THEN {} ELSE Sees(t, req[s].name, c)]
    /\ req' = [req EXCEPT ![s] = Idle]
    /\ UNCHANGED <<options, bin, came>>

-----------------------------------------------------------------------------
(* /run, with the cache or without.                                        *)

RunRequest(s) ==
    /\ Comes(s)
    /\ \E n \in Name, pc \in {"hash", "build"} :
          /\ req' = [req EXCEPT ![s] = [Idle EXCEPT !.pc = pc, !.name = n]]
          /\ seen' = [seen EXCEPT ![s] = {source[n]}]
    /\ UNCHANGED <<options, source, bin, newer, fresh, restored>>

\* workloadHash.
Hash(s) ==
    /\ At(s, "hash")
    /\ req' = [req EXCEPT ![s].pc = "stat", ![s].key = source[req[s].name]]
    /\ UNCHANGED <<options, source, bin, newer, came, fresh, seen, restored>>

\* os.Stat of the binary.
Stat(s) ==
    /\ At(s, "stat")
    /\ IF Key(s) \in DOMAIN bin
       THEN /\ Goto(s, "gen")
            /\ fresh' = IF Key(s) \in newer THEN fresh \union {s} ELSE fresh
       ELSE Goto(s, "build") /\ UNCHANGED fresh
    /\ UNCHANGED <<options, source, bin, newer, came, seen, restored>>

\* Mutant: a binary that is there is used.
CompareTimesNot(s) ==
    /\ At(s, "gen")
    /\ Goto(s, "start")
    /\ fresh' = fresh \ {s}
    /\ UNCHANGED <<options, source, bin, newer, came, seen, restored>>

\* os.Stat of the workload file, and ModTime().After.
CompareTimes(s) ==
    /\ At(s, "gen")
    /\ Goto(s, IF s \in fresh \/ source[req[s].name] = Absent THEN "start" ELSE "build")
    /\ fresh' = fresh \ {s}
    /\ UNCHANGED <<options, source, bin, newer, came, seen, restored>>

\* go build reads the workload.  A file without a package clause breaks the
\* build of every workload, a mixed one that of its own.
BuildRead(s) ==
    /\ At(s, "build")
    /\ source[req[s].name] # Mixed /\ \A n \in Name : source[n] # Empty
    /\ req' = [req EXCEPT ![s].pc = "link", ![s].code = source[req[s].name]]
    /\ UNCHANGED <<options, source, bin, newer, came, fresh, seen, restored>>

\* A compile error, the 30 seconds of a build, or a client that has gone.
BuildFails(s) ==
    /\ At(s, "build") \/ At(s, "link")
    /\ Answer(s)
    /\ UNCHANGED <<options, source, bin, newer, came, fresh, restored>>

\* The binary is moved into place, in the cache or in a temporary file.
BuildWrite(s) ==
    /\ At(s, "link")
    /\ IF req[s].key = NoKey
       THEN UNCHANGED <<bin, newer>>
       ELSE /\ bin' = [k \in DOMAIN bin \union {Key(s)} |->
                         IF k = Key(s) THEN req[s].code ELSE bin[k]]
            /\ newer' = newer \union {Key(s)}
    /\ Goto(s, "start")
    /\ UNCHANGED <<options, source, came, fresh, seen, restored>>

\* The binary is started, unless the cache has been cleared.
Start(s) ==
    /\ At(s, "start")
    /\ \/ req[s].key = NoKey /\ Goto(s, "run") /\ UNCHANGED seen
       \/ /\ Key(s) \in DOMAIN bin
          /\ req' = [req EXCEPT ![s].pc = "run", ![s].code = bin[Key(s)]]
          /\ UNCHANGED seen
       \/ req[s].key # NoKey /\ Key(s) \notin DOMAIN bin /\ Answer(s)
    /\ UNCHANGED <<options, source, bin, newer, came, fresh, restored>>

Finish(s) ==
    /\ At(s, "run")
    /\ Answer(s)
    /\ UNCHANGED <<options, source, bin, newer, came, fresh, restored>>

\* POST /clear-build-cache.
ClearCache ==
    /\ bin' = <<>> /\ newer' = {}
    /\ UNCHANGED <<options, source, requests, fresh, restored>>

Next ==
    \/ \E s \in Slot :
          \/ InstrumentRequest(s) \/ SetOptions(s) \/ InstrumentProgram(s)
          \/ Truncate(s) \/ Write(s)
          \/ RunRequest(s) \/ Hash(s) \/ Stat(s) \/ CompareTimes(s)
          \/ BuildRead(s) \/ BuildFails(s) \/ BuildWrite(s) \/ Start(s) \/ Finish(s)
    \/ ClearCache

Spec == Init /\ [][Next]_vars

-----------------------------------------------------------------------------
(* Properties.                                                             *)

Request ==
    [pc : {"idle", "set", "set_level", "set_rest", "instrument", "save", "write", "hash", "stat",
           "gen", "build", "link", "start", "run"},
     name : Name \union {"none"}, want : Option,
     code : Content \union [text : Text, opt : {Default}], key : Content \union {NoKey}]

\* Types; a binary is only ever built from a whole file.
TypeOK ==
    /\ came \in Nat /\ options \in Option /\ source \in [Name -> Content]
    /\ DOMAIN bin \subseteq Name \X Content
    /\ \A k \in DOMAIN bin : bin[k] \in Program \union {Absent}
    /\ newer \subseteq DOMAIN bin /\ restored \subseteq Name \X Content
    /\ req \in [Slot -> Request] /\ fresh \subseteq Slot /\ seen \in [Slot -> SUBSET Content]

\* A run executes what its workload file held at some instant of the request,
\* although hash, look-up, comparison of times, build and start are apart and
\* other requests rewrite the file, build for the same hash or clear the cache
\* in between.  The one exception is a file that is changed and changed back
\* during a build.
RunsCurrent ==
    \A s \in Slot : At(s, "run") => req[s].code \in seen[s] \/ Key(s) \in restored

\* Two checks, the hash in the name and the time, decide that a cached binary
\* is used: then it is the program in the workload file, with the same
\* exception.
CacheTrue ==
    \A k \in newer : source[k[1]] = k[2] => bin[k] = k[2] \/ k \in restored

\* "Per-request instrumenter options (fallback to defaults when nil)": the
\* workload is instrumented with the options its own request asks for.
OwnOptions ==
    \A s \in Slot : At(s, "save") \/ At(s, "write") => req[s].code.opt = req[s].want
=============================================================================
