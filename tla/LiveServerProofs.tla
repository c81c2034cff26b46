-------------------------- MODULE LiveServerProofs --------------------------
(***************************************************************************)
(* What a run executes is what its workload file held during the request,  *)
(* for any number of requests, workloads and programs, unless the file was *)
(* changed and changed back during a build.                                *)
(*                                                                         *)
(* The argument follows a program from the file into the cache.  The       *)
(* program a build has read, or a binary newer than its file holds, is     *)
(* sound for its hash: it is the program with that hash, or the file holds *)
(* another program since, and every request with the hash has seen it do   *)
(* so.  A request that is about to start a binary has either checked that  *)
(* it is newer, or built it, or there is no file.                          *)
(***************************************************************************)
EXTENDS LiveServer, TLAPS

Instrumenting == {"set", "set_level", "set_rest", "instrument", "save", "write"}
HasHash == {"stat", "gen", "build", "link", "start", "run"}
Running == HasHash \union {"hash"}

\* A request names a workload, and has the hash of what it has seen in its file.
RequestInv ==
    \A s \in Slot :
        /\ ~At(s, "idle") => req[s].name \in Name
        /\ req[s].pc \in Instrumenting => req[s].code \in Program
        /\ req[s].key # NoKey => req[s].pc \in HasHash /\ req[s].key \in seen[s]
        /\ req[s].pc \in {"stat", "gen"} => req[s].key # NoKey
        /\ s \in fresh => At(s, "gen")
        /\ req[s].pc \in Running => source[req[s].name] \in seen[s]

\* What a build has read.
ReadInv ==
    \A s \in Slot :
        /\ At(s, "link") => req[s].code \in (Program \union {Absent}) \intersect seen[s]
        /\ At(s, "start") /\ req[s].key = NoKey => req[s].code \in seen[s]

\* A workload without a file has never had one.
AbsentInv ==
    /\ \A k \in DOMAIN bin : source[k[1]] = Absent => bin[k] = Absent
    /\ \A s \in Slot : At(s, "link") /\ source[req[s].name] = Absent => req[s].code = Absent

\* Program c may be run for the name and hash k.
Sound(k, c) ==
    \/ c = k[2]
    \/ k \in restored
    \/ source[k[1]] # k[2] /\ \A s \in Slot : Key(s) = k => c \in seen[s]

BuildInv == \A s \in Slot : At(s, "link") /\ req[s].key # NoKey => Sound(Key(s), req[s].code)
CacheInv == \A k \in newer : Sound(k, bin[k])

\* A request that has decided to use the cached binary.
Decided(s) == s \in fresh \/ (At(s, "start") /\ req[s].key # NoKey)
StartInv ==
    \A s \in Slot : Decided(s) /\ Key(s) \in DOMAIN bin =>
        bin[Key(s)] \in seen[s] \/ Key(s) \in restored

IInv ==
    /\ TypeOK /\ RequestInv /\ ReadInv /\ AbsentInv
    /\ BuildInv /\ CacheInv /\ StartInv /\ RunsCurrent

-----------------------------------------------------------------------------
(* Facts about the constants *)

\* What stands for no program is none; no content is the key of an uncached build.
LEMMA Specials ==
    /\ NoKey \notin Content /\ Absent \notin Program
    /\ Absent # Empty /\ Absent # Mixed /\ Empty \notin Program /\ Mixed \notin Program
    /\ Default \in Option /\ Absent \in Content /\ Program \subseteq Content
    /\ [text : Text, opt : {Default}] \subseteq Program
  BY LiveServerAssumption DEF NoKey, Content, Program, Absent, Empty, Mixed, Special, Default,
                              Option

\* An idle slot is a request.
LEMMA IdleType == Idle \in Request
  BY Specials DEF Idle, Request

\* The cleared cache holds nothing.
LEMMA EmptyDomain == DOMAIN <<>> = {}
  OBVIOUS

\* The invariant holds before the first request.
LEMMA Initially == Init => IInv
<1> SUFFICES ASSUME Init PROVE IInv
  OBVIOUS
<1>1. TypeOK
  BY Specials, IdleType, EmptyDomain DEF Init, TypeOK, Content
<1>2. \A s \in Slot : req[s] = Idle
  BY DEF Init
<1>3. RequestInv /\ ReadInv /\ BuildInv /\ RunsCurrent
  BY <1>2 DEF Init, RequestInv, ReadInv, BuildInv, RunsCurrent, At, Idle,
                 Instrumenting, HasHash, Running
<1>4. AbsentInv /\ CacheInv /\ StartInv
  BY <1>2, EmptyDomain DEF Init, AbsentInv, CacheInv, StartInv, At, Idle, Decided
<1> QED
  BY <1>1, <1>3, <1>4 DEF IInv

-----------------------------------------------------------------------------
(* Types *)

\* A request to instrument has no hash and holds a program.
LEMMA InstrumentRequestForm ==
  ASSUME TypeOK, NEW s \in Slot, InstrumentRequest(s)
  PROVE  /\ At(s, "idle") /\ came' = came + 1
         /\ UNCHANGED <<options, source, bin, newer, fresh, seen, restored>>
         /\ \E r \in Request :
               /\ req' = [req EXCEPT ![s] = r]
               /\ r.pc \in {"set", "instrument"} /\ r.name \in Name
               /\ r.code \in Program /\ r.key = NoKey
<1>1. PICK n \in Name, t \in Text :
        \/ \E o \in Asks : req' = [req EXCEPT ![s] = [Idle EXCEPT !.pc = "set", !.name = n, !.want = o,
                                                                !.code.text = t]]
        \/ req' = [req EXCEPT ![s] = [Idle EXCEPT !.pc = "instrument", !.name = n, !.code.text = t]]
  BY DEF InstrumentRequest
<1>2. [Absent EXCEPT !.text = t] \in [text : Text, opt : {Default}]
  BY DEF Absent, Special
<1> DEFINE Good(r) == /\ r \in Request /\ r.pc \in {"set", "instrument"} /\ r.name \in Name
                      /\ r.code \in Program /\ r.key = NoKey
<1>3. ASSUME NEW o \in Asks
      PROVE  Good([Idle EXCEPT !.pc = "set", !.name = n, !.want = o, !.code.text = t])
  BY <1>2, Specials, LiveServerAssumption DEF Idle, Request
<1>4. Good([Idle EXCEPT !.pc = "instrument", !.name = n, !.code.text = t])
  BY <1>2, Specials DEF Idle, Request
<1>5. \E r : Good(r) /\ req' = [req EXCEPT ![s] = r]
  <2> HIDE DEF Good
  <2> QED
    BY <1>1, <1>3, <1>4
<1>6. /\ At(s, "idle") /\ came' = came + 1
      /\ UNCHANGED <<options, source, bin, newer, fresh, seen, restored>>
  BY Zenon DEF InstrumentRequest, Comes
<1> QED
  BY <1>5, <1>6

\* Every step keeps the types; BuildWrite needs ReadInv, to know that a program was read.
LEMMA TypeStep == IInv /\ [Next]_vars => TypeOK'
<1> SUFFICES ASSUME IInv, [Next]_vars PROVE TypeOK'
  OBVIOUS
<1> USE Specials, IdleType DEF IInv, TypeOK, requests, At, Goto, Key
<1>1. ASSUME NEW s \in Slot, InstrumentRequest(s) PROVE TypeOK'
  <2>1. req' \in [Slot -> Request]
    BY <1>1, InstrumentRequestForm
  <2> QED
    BY <1>1, <2>1, InstrumentRequestForm
<1>2. ASSUME NEW s \in Slot, SetOptions(s) PROVE TypeOK'
  <2>1. options' \in Option
    <3>1. req[s].want \in Option
      <4>1. req[s] \in Request
        OBVIOUS
      <4> QED
        BY <4>1 DEF Request
    <3>2. [options EXCEPT !["level"] = req[s].want["level"]] \in Option
      BY <3>1 DEF Option
    <3>3. [options EXCEPT !["rest"] = req[s].want["rest"]] \in Option
      BY <3>1 DEF Option
    <3>4. SetPart(s, "level") \/ SetPart(s, "rest")
      BY <1>2 DEF SetOptions
    <3> QED
      BY <3>2, <3>3, <3>4 DEF SetPart
  <2>2. req' \in [Slot -> Request]
    <3>1. \A pc \in {"set_rest", "set_level", "instrument"} : [req[s] EXCEPT !.pc = pc] \in Request
      BY DEF Request
    <3> QED
      BY <1>2, <3>1 DEF SetOptions
  <2> QED
    BY <1>2, <2>1, <2>2 DEF SetOptions
<1>3. ASSUME NEW s \in Slot, InstrumentProgram(s) PROVE TypeOK'
  <2>1. At(s, "instrument") => req[s].code \in Program
    BY DEF RequestInv, Instrumenting
  <2> QED
    BY <1>3, <2>1 DEF InstrumentProgram, Answer, Request, Program
<1>4. ASSUME NEW s \in Slot, Truncate(s) PROVE TypeOK'
  <2>1. req[s].name \in Name
    BY <1>4 DEF Truncate, RequestInv
  <2>2. Empty \in Content
    BY DEF Content
  <2> QED
    BY <1>4, <2>1, <2>2 DEF Truncate, SourceBecomes, Sees, Request
<1>5. ASSUME NEW s \in Slot, Write(s) PROVE TypeOK'
  <2>1. req[s].name \in Name /\ req[s].code \in Content
    BY <1>5 DEF Write, RequestInv, Instrumenting
  <2>2. Mixed \in Content
    BY DEF Content
  <2> QED
    BY <1>5, <2>1, <2>2 DEF Write, SourceBecomes, Sees
<1>6. ASSUME NEW s \in Slot, RunRequest(s) PROVE TypeOK'
  <2>1. PICK n \in Name, pc \in {"hash", "build"} :
          /\ req' = [req EXCEPT ![s] = [Idle EXCEPT !.pc = pc, !.name = n]]
          /\ seen' = [seen EXCEPT ![s] = {source[n]}]
    BY <1>6 DEF RunRequest
  <2>2. [Idle EXCEPT !.pc = pc, !.name = n] \in Request
    BY DEF Idle, Request
  <2>3. req' \in [Slot -> Request] /\ seen' \in [Slot -> SUBSET Content]
    BY <2>1, <2>2
  <2> QED
    BY <1>6, <2>3 DEF RunRequest, Comes
<1>7. ASSUME NEW s \in Slot, Hash(s) PROVE TypeOK'
  <2>1. source[req[s].name] \in Content
    BY <1>7 DEF Hash, RequestInv
  <2>2. [req[s] EXCEPT !.pc = "stat", !.key = source[req[s].name]] \in Request
    BY <2>1 DEF Request
  <2> QED
    BY <1>7, <2>2 DEF Hash
<1>8. ASSUME NEW s \in Slot, Stat(s) PROVE TypeOK'
  <2>1. \A pc \in {"gen", "build"} : [req[s] EXCEPT !.pc = pc] \in Request
    BY DEF Request
  <2> QED
    BY <1>8, <2>1 DEF Stat
<1>9. ASSUME NEW s \in Slot, CompareTimes(s) PROVE TypeOK'
  <2>1. \A pc \in {"start", "build"} : [req[s] EXCEPT !.pc = pc] \in Request
    BY DEF Request
  <2> QED
    BY <1>9, <2>1 DEF CompareTimes
<1>10. ASSUME NEW s \in Slot, BuildRead(s) PROVE TypeOK'
  <2>1. source[req[s].name] \in Content
    BY <1>10 DEF BuildRead, RequestInv
  <2>2. [req[s] EXCEPT !.pc = "link", !.code = source[req[s].name]] \in Request
    BY <2>1 DEF Request
  <2> QED
    BY <1>10, <2>2 DEF BuildRead
<1>11. ASSUME NEW s \in Slot, BuildFails(s) PROVE TypeOK'
  BY <1>11 DEF BuildFails, Answer
<1>12. ASSUME NEW s \in Slot, BuildWrite(s) PROVE TypeOK'
  <2>1. req[s].name \in Name /\ req[s].code \in Program \union {Absent}
    BY <1>12 DEF BuildWrite, RequestInv, ReadInv
  <2>2. req[s].key # NoKey => Key(s) \in Name \X Content
    BY <2>1 DEF Request
  <2>3. [req[s] EXCEPT !.pc = "start"] \in Request
    BY DEF Request
  <2>4. CASE req[s].key = NoKey
    BY <1>12, <2>3, <2>4 DEF BuildWrite
  <2>5. CASE req[s].key # NoKey
    <3>1. DOMAIN bin' = DOMAIN bin \union {Key(s)}
      BY <1>12, <2>5 DEF BuildWrite
    <3>2. \A k \in DOMAIN bin' : bin'[k] \in Program \union {Absent}
      BY <1>12, <2>1, <2>5 DEF BuildWrite
    <3>3. newer' \subseteq DOMAIN bin'
      BY <1>12, <2>5, <3>1 DEF BuildWrite
    <3>4. DOMAIN bin' \subseteq Name \X Content
      BY <2>2, <2>5, <3>1
    <3> QED
      BY <1>12, <2>3, <3>2, <3>3, <3>4 DEF BuildWrite
  <2> QED
    BY <2>4, <2>5
<1>13. ASSUME NEW s \in Slot, Start(s) PROVE TypeOK'
  BY <1>13 DEF Start, Answer, Request
<1>14. ASSUME NEW s \in Slot, Finish(s) PROVE TypeOK'
  BY <1>14 DEF Finish, Answer
<1>15. CASE ClearCache
  BY <1>15, EmptyDomain DEF ClearCache
<1>16. CASE UNCHANGED vars
  BY <1>16 DEF vars
<1> QED
  BY <1>1, <1>2, <1>3, <1>4, <1>5, <1>6, <1>7, <1>8, <1>9, <1>10, <1>11, <1>12, <1>13, <1>14,
     <1>15, <1>16 DEF Next

-----------------------------------------------------------------------------
(* The parts of the invariant that a step keeps one by one *)

\* Names, hashes and what a request has seen of its file.
LEMMA RequestStep == IInv /\ [Next]_vars => RequestInv'
<1> SUFFICES ASSUME IInv, [Next]_vars PROVE RequestInv'
  OBVIOUS
<1> USE Specials DEF IInv, TypeOK, requests, At, Goto, RequestInv, Instrumenting, HasHash,
                  Running
<1>1. ASSUME NEW s \in Slot, InstrumentRequest(s) PROVE RequestInv'
  BY <1>1, InstrumentRequestForm
<1>2. ASSUME NEW s \in Slot, SetOptions(s) PROVE RequestInv'
  BY <1>2, IdleType DEF SetOptions, SetPart, Request, Idle
<1>3. ASSUME NEW s \in Slot, InstrumentProgram(s) PROVE RequestInv'
  BY <1>3, IdleType DEF InstrumentProgram, Answer, Request, Idle
<1>4. ASSUME NEW s \in Slot, Truncate(s) PROVE RequestInv'
  BY <1>4, IdleType DEF Truncate, SourceBecomes, Sees, Request, Idle
<1>5. ASSUME NEW s \in Slot, Write(s) PROVE RequestInv'
  BY <1>5, IdleType DEF Write, SourceBecomes, Sees, Request, Idle
<1>6. ASSUME NEW s \in Slot, RunRequest(s) PROVE RequestInv'
  BY <1>6, IdleType DEF RunRequest, Comes, Request, Idle
<1>7. ASSUME NEW s \in Slot, Hash(s) PROVE RequestInv'
  BY <1>7, IdleType DEF Hash, Request, Idle
<1>8. ASSUME NEW s \in Slot, Stat(s) PROVE RequestInv'
  <2>1. At(s, "stat") /\ UNCHANGED <<source, seen>>
    BY <1>8 DEF Stat
  <2>2. CASE Key(s) \in DOMAIN bin
    <3>1. req' = [req EXCEPT ![s].pc = "gen"] /\ fresh' \subseteq fresh \union {s}
      BY <1>8, <2>2 DEF Stat
    <3> QED
      BY <2>1, <3>1
  <2>3. CASE Key(s) \notin DOMAIN bin
    <3>1. req' = [req EXCEPT ![s].pc = "build"] /\ fresh' = fresh
      BY <1>8, <2>3 DEF Stat
    <3> QED
      BY <2>1, <3>1
  <2> QED
    BY <2>2, <2>3
<1>9. ASSUME NEW s \in Slot, CompareTimes(s) PROVE RequestInv'
  BY <1>9, IdleType DEF CompareTimes, Request, Idle
<1>10. ASSUME NEW s \in Slot, BuildRead(s) PROVE RequestInv'
  BY <1>10, IdleType DEF BuildRead, Request, Idle
<1>11. ASSUME NEW s \in Slot, BuildFails(s) PROVE RequestInv'
  BY <1>11, IdleType DEF BuildFails, Answer, Request, Idle
<1>12. ASSUME NEW s \in Slot, BuildWrite(s) PROVE RequestInv'
  BY <1>12, IdleType DEF BuildWrite, Request, Idle
<1>13. ASSUME NEW s \in Slot, Start(s) PROVE RequestInv'
  BY <1>13, IdleType DEF Start, Answer, Request, Idle
<1>14. ASSUME NEW s \in Slot, Finish(s) PROVE RequestInv'
  BY <1>14, IdleType DEF Finish, Answer, Request, Idle
<1>15. CASE ClearCache
  BY <1>15 DEF ClearCache
<1>16. CASE UNCHANGED vars
  BY <1>16 DEF vars
<1> QED
  BY <1>1, <1>2, <1>3, <1>4, <1>5, <1>6, <1>7, <1>8, <1>9, <1>10, <1>11, <1>12, <1>13, <1>14,
     <1>15, <1>16 DEF Next

\* BuildRead rules out a truncated and a mixed file.
LEMMA ReadStep == IInv /\ [Next]_vars => ReadInv'
<1> SUFFICES ASSUME IInv, [Next]_vars PROVE ReadInv'
  OBVIOUS
<1> USE Specials DEF IInv, TypeOK, requests, At, Goto, RequestInv, Instrumenting, HasHash,
                  Running, ReadInv
<1>1. ASSUME NEW s \in Slot, InstrumentRequest(s) PROVE ReadInv'
  BY <1>1, InstrumentRequestForm
<1>2. ASSUME NEW s \in Slot, SetOptions(s) PROVE ReadInv'
  BY <1>2, IdleType DEF SetOptions, SetPart, Request, Idle
<1>3. ASSUME NEW s \in Slot, InstrumentProgram(s) PROVE ReadInv'
  BY <1>3, IdleType DEF InstrumentProgram, Answer, Request, Idle
<1>4. ASSUME NEW s \in Slot, Truncate(s) PROVE ReadInv'
  BY <1>4, IdleType DEF Truncate, SourceBecomes, Sees, Request, Idle
<1>5. ASSUME NEW s \in Slot, Write(s) PROVE ReadInv'
  BY <1>5, IdleType DEF Write, SourceBecomes, Sees, Request, Idle
<1>6. ASSUME NEW s \in Slot, RunRequest(s) PROVE ReadInv'
  BY <1>6, IdleType DEF RunRequest, Comes, Request, Idle
<1>7. ASSUME NEW s \in Slot, Hash(s) PROVE ReadInv'
  BY <1>7, IdleType DEF Hash, Request, Idle
<1>8. ASSUME NEW s \in Slot, Stat(s) PROVE ReadInv'
  BY <1>8, IdleType DEF Stat, Request, Idle
<1>9. ASSUME NEW s \in Slot, CompareTimes(s) PROVE ReadInv'
  BY <1>9, IdleType DEF CompareTimes, Request, Idle
<1>10. ASSUME NEW s \in Slot, BuildRead(s) PROVE ReadInv'
  <2>1. req[s].name \in Name /\ source[req[s].name] \in seen[s]
    BY <1>10 DEF BuildRead
  <2>2. source[req[s].name] \in Program \union {Absent}
    BY <1>10, <2>1 DEF BuildRead, Content
  <2>3. req' = [req EXCEPT ![s].pc = "link", ![s].code = source[req[s].name]] /\ seen' = seen
    BY <1>10 DEF BuildRead
  <2> QED
    BY <2>1, <2>2, <2>3
<1>11. ASSUME NEW s \in Slot, BuildFails(s) PROVE ReadInv'
  BY <1>11, IdleType DEF BuildFails, Answer, Request, Idle
<1>12. ASSUME NEW s \in Slot, BuildWrite(s) PROVE ReadInv'
  BY <1>12, IdleType DEF BuildWrite, Request, Idle
<1>13. ASSUME NEW s \in Slot, Start(s) PROVE ReadInv'
  BY <1>13, IdleType DEF Start, Answer, Request, Idle
<1>14. ASSUME NEW s \in Slot, Finish(s) PROVE ReadInv'
  BY <1>14, IdleType DEF Finish, Answer, Request, Idle
<1>15. CASE ClearCache
  BY <1>15, EmptyDomain DEF ClearCache
<1>16. CASE UNCHANGED vars
  BY <1>16 DEF vars
<1> QED
  BY <1>1, <1>2, <1>3, <1>4, <1>5, <1>6, <1>7, <1>8, <1>9, <1>10, <1>11, <1>12, <1>13, <1>14,
     <1>15, <1>16 DEF Next

\* No step takes a file away.
LEMMA AbsentStep == IInv /\ [Next]_vars => AbsentInv'
<1> SUFFICES ASSUME IInv, [Next]_vars PROVE AbsentInv'
  OBVIOUS
<1> USE Specials DEF IInv, TypeOK, requests, At, Goto, Key, RequestInv, Instrumenting,
                  ReadInv, AbsentInv
<1>1. ASSUME NEW s \in Slot, InstrumentRequest(s) PROVE AbsentInv'
  BY <1>1, InstrumentRequestForm
<1>2. ASSUME NEW s \in Slot, SetOptions(s) PROVE AbsentInv'
  BY <1>2, IdleType DEF SetOptions, SetPart, Request, Idle
<1>3. ASSUME NEW s \in Slot, InstrumentProgram(s) PROVE AbsentInv'
  BY <1>3, IdleType DEF InstrumentProgram, Answer, Request, Idle
<1>4. ASSUME NEW s \in Slot, Truncate(s) PROVE AbsentInv'
  BY <1>4, IdleType DEF Truncate, SourceBecomes, Sees, Request, Idle
<1>5. ASSUME NEW s \in Slot, Write(s) PROVE AbsentInv'
  BY <1>5, IdleType DEF Write, SourceBecomes, Sees, Request, Idle
<1>6. ASSUME NEW s \in Slot, RunRequest(s) PROVE AbsentInv'
  BY <1>6, IdleType DEF RunRequest, Comes, Request, Idle
<1>7. ASSUME NEW s \in Slot, Hash(s) PROVE AbsentInv'
  BY <1>7, IdleType DEF Hash, Request, Idle
<1>8. ASSUME NEW s \in Slot, Stat(s) PROVE AbsentInv'
  BY <1>8, IdleType DEF Stat, Request, Idle
<1>9. ASSUME NEW s \in Slot, CompareTimes(s) PROVE AbsentInv'
  BY <1>9, IdleType DEF CompareTimes, Request, Idle
<1>10. ASSUME NEW s \in Slot, BuildRead(s) PROVE AbsentInv'
  BY <1>10, IdleType DEF BuildRead, Request, Idle
<1>11. ASSUME NEW s \in Slot, BuildFails(s) PROVE AbsentInv'
  BY <1>11, IdleType DEF BuildFails, Answer, Request, Idle
<1>12. ASSUME NEW s \in Slot, BuildWrite(s) PROVE AbsentInv'
  BY <1>12, IdleType DEF BuildWrite, Request, Idle
<1>13. ASSUME NEW s \in Slot, Start(s) PROVE AbsentInv'
  BY <1>13, IdleType DEF Start, Answer, Request, Idle
<1>14. ASSUME NEW s \in Slot, Finish(s) PROVE AbsentInv'
  BY <1>14, IdleType DEF Finish, Answer, Request, Idle
<1>15. CASE ClearCache
  BY <1>15, EmptyDomain DEF ClearCache
<1>16. CASE UNCHANGED vars
  BY <1>16 DEF vars
<1> QED
  BY <1>1, <1>2, <1>3, <1>4, <1>5, <1>6, <1>7, <1>8, <1>9, <1>10, <1>11, <1>12, <1>13, <1>14,
     <1>15, <1>16 DEF Next

\* A request keeps its hash, and what it has seen, unless it hashes the file now.
SlotKeeps(t) ==
    req'[t].key # NoKey =>
        /\ req'[t].name = req[t].name /\ seen[t] \subseteq seen'[t]
        /\ \/ req'[t].key = req[t].key
           \/ req'[t].key = source[req[t].name] /\ source' = source

-----------------------------------------------------------------------------
(* What no step does *)

\* No step changes the hash of a request once it has one.
LEMMA KeyStep == IInv /\ [Next]_vars => (\A t \in Slot : SlotKeeps(t))
<1> SUFFICES ASSUME IInv, [Next]_vars PROVE (\A t \in Slot : SlotKeeps(t))
  OBVIOUS
<1> USE Specials DEF IInv, TypeOK, requests, At, Goto, RequestInv, Instrumenting, HasHash,
                  SlotKeeps
<1>1. ASSUME NEW s \in Slot, InstrumentRequest(s) PROVE (\A t \in Slot : SlotKeeps(t))
  BY <1>1, InstrumentRequestForm
<1>2. ASSUME NEW s \in Slot, SetOptions(s) PROVE (\A t \in Slot : SlotKeeps(t))
  BY <1>2, IdleType DEF SetOptions, SetPart, Request, Idle
<1>3. ASSUME NEW s \in Slot, InstrumentProgram(s) PROVE (\A t \in Slot : SlotKeeps(t))
  BY <1>3, IdleType DEF InstrumentProgram, Answer, Request, Idle
<1>4. ASSUME NEW s \in Slot, Truncate(s) PROVE (\A t \in Slot : SlotKeeps(t))
  BY <1>4, IdleType DEF Truncate, SourceBecomes, Sees, Request, Idle
<1>5. ASSUME NEW s \in Slot, Write(s) PROVE (\A t \in Slot : SlotKeeps(t))
  BY <1>5, IdleType DEF Write, SourceBecomes, Sees, Request, Idle
<1>6. ASSUME NEW s \in Slot, RunRequest(s) PROVE (\A t \in Slot : SlotKeeps(t))
  BY <1>6, IdleType DEF RunRequest, Comes, Request, Idle
<1>7. ASSUME NEW s \in Slot, Hash(s) PROVE (\A t \in Slot : SlotKeeps(t))
  BY <1>7, IdleType DEF Hash, Request, Idle
<1>8. ASSUME NEW s \in Slot, Stat(s) PROVE (\A t \in Slot : SlotKeeps(t))
  BY <1>8, IdleType DEF Stat, Request, Idle
<1>9. ASSUME NEW s \in Slot, CompareTimes(s) PROVE (\A t \in Slot : SlotKeeps(t))
  BY <1>9, IdleType DEF CompareTimes, Request, Idle
<1>10. ASSUME NEW s \in Slot, BuildRead(s) PROVE (\A t \in Slot : SlotKeeps(t))
  BY <1>10, IdleType DEF BuildRead, Request, Idle
<1>11. ASSUME NEW s \in Slot, BuildFails(s) PROVE (\A t \in Slot : SlotKeeps(t))
  BY <1>11, IdleType DEF BuildFails, Answer, Request, Idle
<1>12. ASSUME NEW s \in Slot, BuildWrite(s) PROVE (\A t \in Slot : SlotKeeps(t))
  BY <1>12, IdleType DEF BuildWrite, Request, Idle
<1>13. ASSUME NEW s \in Slot, Start(s) PROVE (\A t \in Slot : SlotKeeps(t))
  BY <1>13, IdleType DEF Start, Answer, Request, Idle
<1>14. ASSUME NEW s \in Slot, Finish(s) PROVE (\A t \in Slot : SlotKeeps(t))
  BY <1>14, IdleType DEF Finish, Answer, Request, Idle
<1>15. CASE ClearCache
  BY <1>15, EmptyDomain DEF ClearCache
<1>16. CASE UNCHANGED vars
  BY <1>16 DEF vars
<1> QED
  BY <1>1, <1>2, <1>3, <1>4, <1>5, <1>6, <1>7, <1>8, <1>9, <1>10, <1>11, <1>12, <1>13, <1>14,
     <1>15, <1>16 DEF Next

\* A workload file is as it was, or everything that depends on it knows of the change.
FileKeeps(n) ==
    \/ source'[n] = source[n]
    \/ /\ source'[n] # Absent /\ UNCHANGED bin
       /\ \A k \in newer' : k \in newer /\ k[1] # n
       /\ \A t \in fresh' : t \in fresh /\ req[t].name # n
       /\ Building(n, source'[n]) # {} => <<n, source'[n]>> \in restored'
       /\ \A t \in Slot : req[t].pc \in Running /\ req[t].name = n =>
                req'[t] = req[t] /\ seen'[t] = seen[t] \union {source'[n]}

FilesKeep == restored \subseteq restored' /\ \A n \in Name : FileKeeps(n)

\* No step rewrites a file without a new time, and whoever runs it sees it.
LEMMA FileStep == IInv /\ [Next]_vars => FilesKeep
<1> SUFFICES ASSUME IInv, [Next]_vars PROVE FilesKeep
  OBVIOUS
<1> USE Specials DEF IInv, TypeOK, requests, At, Goto, RequestInv, Instrumenting, HasHash,
                  Running,
                  FileKeeps, FilesKeep
<1>1. ASSUME NEW s \in Slot, InstrumentRequest(s) PROVE FilesKeep
  BY <1>1, InstrumentRequestForm
<1>2. ASSUME NEW s \in Slot, SetOptions(s) PROVE FilesKeep
  BY <1>2, IdleType DEF SetOptions, SetPart, Request, Idle
<1>3. ASSUME NEW s \in Slot, InstrumentProgram(s) PROVE FilesKeep
  BY <1>3, IdleType DEF InstrumentProgram, Answer, Request, Idle
<1>4. ASSUME NEW s \in Slot, Truncate(s) PROVE FilesKeep
  BY <1>4, IdleType DEF Truncate, SourceBecomes, Sees, Request, Idle
<1>5. ASSUME NEW s \in Slot, Write(s) PROVE FilesKeep
  BY <1>5, IdleType DEF Write, SourceBecomes, Sees, Request, Idle
<1>6. ASSUME NEW s \in Slot, RunRequest(s) PROVE FilesKeep
  BY <1>6, IdleType DEF RunRequest, Comes, Request, Idle
<1>7. ASSUME NEW s \in Slot, Hash(s) PROVE FilesKeep
  BY <1>7, IdleType DEF Hash, Request, Idle
<1>8. ASSUME NEW s \in Slot, Stat(s) PROVE FilesKeep
  BY <1>8, IdleType DEF Stat, Request, Idle
<1>9. ASSUME NEW s \in Slot, CompareTimes(s) PROVE FilesKeep
  BY <1>9, IdleType DEF CompareTimes, Request, Idle
<1>10. ASSUME NEW s \in Slot, BuildRead(s) PROVE FilesKeep
  BY <1>10, IdleType DEF BuildRead, Request, Idle
<1>11. ASSUME NEW s \in Slot, BuildFails(s) PROVE FilesKeep
  BY <1>11, IdleType DEF BuildFails, Answer, Request, Idle
<1>12. ASSUME NEW s \in Slot, BuildWrite(s) PROVE FilesKeep
  BY <1>12, IdleType DEF BuildWrite, Request, Idle
<1>13. ASSUME NEW s \in Slot, Start(s) PROVE FilesKeep
  BY <1>13, IdleType DEF Start, Answer, Request, Idle
<1>14. ASSUME NEW s \in Slot, Finish(s) PROVE FilesKeep
  BY <1>14, IdleType DEF Finish, Answer, Request, Idle
<1>15. CASE ClearCache
  BY <1>15, EmptyDomain DEF ClearCache
<1>16. CASE UNCHANGED vars
  BY <1>16 DEF vars
<1> QED
  BY <1>1, <1>2, <1>3, <1>4, <1>5, <1>6, <1>7, <1>8, <1>9, <1>10, <1>11, <1>12, <1>13, <1>14,
     <1>15, <1>16 DEF Next

-----------------------------------------------------------------------------
(* Soundness *)

\* Sound in the next state, for a program that may itself be one of the next state.
SoundNext(k, c) ==
    \/ c = k[2]
    \/ k \in restored'
    \/ source'[k[1]] # k[2] /\ \A s \in Slot : Key(s)' = k => c \in seen'[s]

\* A program stays sound for a hash unless the file comes to that content again.
LEMMA SoundStep ==
  ASSUME IInv, [Next]_vars, NEW k \in Name \X Content, NEW c, Sound(k, c),
         source'[k[1]] = k[2] => source[k[1]] = k[2] \/ k \in restored'
  PROVE  SoundNext(k, c)
<1> USE DEF SoundNext
<1>1. restored \subseteq restored' /\ \A t \in Slot : SlotKeeps(t)
  BY FileStep, KeyStep DEF FilesKeep
<1>2. CASE c = k[2] \/ k \in restored
  BY <1>1, <1>2
<1>3. CASE source[k[1]] # k[2] /\ \A s \in Slot : Key(s) = k => c \in seen[s]
  <2>1. ASSUME NEW s \in Slot, Key(s)' = k PROVE c \in seen'[s]
    <3>1. req'[s].name = k[1] /\ req'[s].key = k[2] /\ k[2] # NoKey
      BY <2>1, Specials DEF Key
    <3>2. req[s].name = k[1] /\ seen[s] \subseteq seen'[s] /\ req[s].key = k[2]
      BY <1>1, <1>3, <3>1 DEF SlotKeeps
    <3>3. Key(s) = k
      BY <3>2 DEF Key
    <3> QED
      BY <1>3, <3>2, <3>3
  <2> QED
    BY <1>3, <2>1
<1> QED
  BY <1>2, <1>3 DEF Sound

\* What a build reads is sound: whoever has its hash has seen the file as it is.
LEMMA CodeSound ==
  ASSUME IInv, NEW s \in Slot, At(s, "build"), req[s].key # NoKey
  PROVE  Sound(Key(s), source[req[s].name])
<1>1. req[s].name \in Name
  BY DEF IInv, RequestInv, At
<1>2. ASSUME NEW t \in Slot, Key(t) = Key(s) PROVE source[req[s].name] \in seen[t]
  <2>1. req[t].name = req[s].name /\ req[t].key # NoKey
    BY <1>2 DEF Key
  <2> QED
    BY <2>1 DEF IInv, RequestInv, HasHash, Running
<1> QED
  BY <1>2 DEF Sound, Key

\* A build that has read has the hash it had before.
Links(s) ==
    At(s, "link")' =>
        /\ req[s].key = req'[s].key /\ req[s].name = req'[s].name /\ req[s].name \in Name
        /\ \/ At(s, "link") /\ req[s].code = req'[s].code
           \/ At(s, "build") /\ req'[s].code = source[req[s].name]

\* Only BuildRead makes a build one that has read.
LEMMA LinkStep == IInv /\ [Next]_vars => (\A t \in Slot : Links(t))
<1> SUFFICES ASSUME IInv, [Next]_vars PROVE (\A t \in Slot : Links(t))
  OBVIOUS
<1> USE Specials DEF IInv, TypeOK, requests, At, Goto, RequestInv, Links
<1>1. ASSUME NEW s \in Slot, InstrumentRequest(s) PROVE (\A t \in Slot : Links(t))
  BY <1>1, InstrumentRequestForm
<1>2. ASSUME NEW s \in Slot, SetOptions(s) PROVE (\A t \in Slot : Links(t))
  BY <1>2, IdleType DEF SetOptions, SetPart, Request, Idle
<1>3. ASSUME NEW s \in Slot, InstrumentProgram(s) PROVE (\A t \in Slot : Links(t))
  BY <1>3, IdleType DEF InstrumentProgram, Answer, Request, Idle
<1>4. ASSUME NEW s \in Slot, Truncate(s) PROVE (\A t \in Slot : Links(t))
  BY <1>4, IdleType DEF Truncate, SourceBecomes, Sees, Request, Idle
<1>5. ASSUME NEW s \in Slot, Write(s) PROVE (\A t \in Slot : Links(t))
  BY <1>5, IdleType DEF Write, SourceBecomes, Sees, Request, Idle
<1>6. ASSUME NEW s \in Slot, RunRequest(s) PROVE (\A t \in Slot : Links(t))
  BY <1>6, IdleType DEF RunRequest, Comes, Request, Idle
<1>7. ASSUME NEW s \in Slot, Hash(s) PROVE (\A t \in Slot : Links(t))
  BY <1>7, IdleType DEF Hash, Request, Idle
<1>8. ASSUME NEW s \in Slot, Stat(s) PROVE (\A t \in Slot : Links(t))
  BY <1>8, IdleType DEF Stat, Request, Idle
<1>9. ASSUME NEW s \in Slot, CompareTimes(s) PROVE (\A t \in Slot : Links(t))
  BY <1>9, IdleType DEF CompareTimes, Request, Idle
<1>10. ASSUME NEW s \in Slot, BuildRead(s) PROVE (\A t \in Slot : Links(t))
  BY <1>10, IdleType DEF BuildRead, Request, Idle
<1>11. ASSUME NEW s \in Slot, BuildFails(s) PROVE (\A t \in Slot : Links(t))
  BY <1>11, IdleType DEF BuildFails, Answer, Request, Idle
<1>12. ASSUME NEW s \in Slot, BuildWrite(s) PROVE (\A t \in Slot : Links(t))
  BY <1>12, IdleType DEF BuildWrite, Request, Idle
<1>13. ASSUME NEW s \in Slot, Start(s) PROVE (\A t \in Slot : Links(t))
  BY <1>13, IdleType DEF Start, Answer, Request, Idle
<1>14. ASSUME NEW s \in Slot, Finish(s) PROVE (\A t \in Slot : Links(t))
  BY <1>14, IdleType DEF Finish, Answer, Request, Idle
<1>15. CASE ClearCache
  BY <1>15, EmptyDomain DEF ClearCache
<1>16. CASE UNCHANGED vars
  BY <1>16 DEF vars
<1> QED
  BY <1>1, <1>2, <1>3, <1>4, <1>5, <1>6, <1>7, <1>8, <1>9, <1>10, <1>11, <1>12, <1>13, <1>14,
     <1>15, <1>16 DEF Next

\* A binary newer than its file was so before, or a build puts it in place now.
Newer(k) ==
    \/ k \in newer /\ bin'[k] = bin[k]
    \/ \E s \in Slot : /\ At(s, "link") /\ req[s].key # NoKey /\ Key(s) = k
                       /\ bin'[k] = req[s].code /\ source' = source

\* Only BuildWrite makes a binary newer than its file.
LEMMA NewerStep == IInv /\ [Next]_vars => (\A k \in newer' : Newer(k))
<1> SUFFICES ASSUME IInv, [Next]_vars PROVE (\A k \in newer' : Newer(k))
  OBVIOUS
<1> USE Specials DEF IInv, TypeOK, requests, At, Goto, Newer
<1>1. ASSUME NEW s \in Slot, InstrumentRequest(s) PROVE (\A k \in newer' : Newer(k))
  BY <1>1, InstrumentRequestForm
<1>2. ASSUME NEW s \in Slot, SetOptions(s) PROVE (\A k \in newer' : Newer(k))
  BY <1>2, IdleType DEF SetOptions, SetPart, Request, Idle
<1>3. ASSUME NEW s \in Slot, InstrumentProgram(s) PROVE (\A k \in newer' : Newer(k))
  BY <1>3, IdleType DEF InstrumentProgram, Answer, Request, Idle
<1>4. ASSUME NEW s \in Slot, Truncate(s) PROVE (\A k \in newer' : Newer(k))
  BY <1>4, IdleType DEF Truncate, SourceBecomes, Sees, Request, Idle
<1>5. ASSUME NEW s \in Slot, Write(s) PROVE (\A k \in newer' : Newer(k))
  BY <1>5, IdleType DEF Write, SourceBecomes, Sees, Request, Idle
<1>6. ASSUME NEW s \in Slot, RunRequest(s) PROVE (\A k \in newer' : Newer(k))
  BY <1>6, IdleType DEF RunRequest, Comes, Request, Idle
<1>7. ASSUME NEW s \in Slot, Hash(s) PROVE (\A k \in newer' : Newer(k))
  BY <1>7, IdleType DEF Hash, Request, Idle
<1>8. ASSUME NEW s \in Slot, Stat(s) PROVE (\A k \in newer' : Newer(k))
  BY <1>8, IdleType DEF Stat, Request, Idle
<1>9. ASSUME NEW s \in Slot, CompareTimes(s) PROVE (\A k \in newer' : Newer(k))
  BY <1>9, IdleType DEF CompareTimes, Request, Idle
<1>10. ASSUME NEW s \in Slot, BuildRead(s) PROVE (\A k \in newer' : Newer(k))
  BY <1>10, IdleType DEF BuildRead, Request, Idle
<1>11. ASSUME NEW s \in Slot, BuildFails(s) PROVE (\A k \in newer' : Newer(k))
  BY <1>11, IdleType DEF BuildFails, Answer, Request, Idle
<1>12. ASSUME NEW s \in Slot, BuildWrite(s) PROVE (\A k \in newer' : Newer(k))
  BY <1>12, IdleType DEF BuildWrite, Request, Idle
<1>13. ASSUME NEW s \in Slot, Start(s) PROVE (\A k \in newer' : Newer(k))
  BY <1>13, IdleType DEF Start, Answer, Request, Idle
<1>14. ASSUME NEW s \in Slot, Finish(s) PROVE (\A k \in newer' : Newer(k))
  BY <1>14, IdleType DEF Finish, Answer, Request, Idle
<1>15. CASE ClearCache
  BY <1>15, EmptyDomain DEF ClearCache
<1>16. CASE UNCHANGED vars
  BY <1>16 DEF vars
<1> QED
  BY <1>1, <1>2, <1>3, <1>4, <1>5, <1>6, <1>7, <1>8, <1>9, <1>10, <1>11, <1>12, <1>13, <1>14,
     <1>15, <1>16 DEF Next

\* Programs that builds have read stay sound: a file that changes back during a
\* build is noted in restored.
LEMMA BuildStep == IInv /\ [Next]_vars => BuildInv'
<1> SUFFICES ASSUME IInv, [Next]_vars, NEW s \in Slot, At(s, "link")', req'[s].key # NoKey
             PROVE  Sound(Key(s), req[s].code)'
  BY DEF BuildInv
<1>1. /\ req[s].key = req'[s].key /\ req[s].name = req'[s].name /\ req[s].name \in Name
      /\ \/ At(s, "link") /\ req[s].code = req'[s].code
         \/ At(s, "build") /\ req'[s].code = source[req[s].name]
  BY LinkStep DEF Links
<1>2. Key(s)' = Key(s) /\ Key(s) \in Name \X Content
  BY <1>1 DEF Key, IInv, TypeOK, Request
<1>3. Sound(Key(s), req'[s].code)
  BY <1>1, CodeSound DEF IInv, BuildInv
<1>4. source'[Key(s)[1]] = Key(s)[2] => source[Key(s)[1]] = Key(s)[2] \/ Key(s) \in restored'
  <2>1. FileKeeps(req[s].name)
    BY <1>1, FileStep DEF FilesKeep
  <2>2. s \in Building(req[s].name, req[s].key)
    BY <1>1 DEF Building, Key, At
  <2> QED
    BY <2>1, <2>2 DEF FileKeeps, Key
<1>5. SoundNext(Key(s), req'[s].code)
  BY <1>2, <1>3, <1>4, SoundStep
<1> QED
  BY <1>2, <1>5 DEF Sound, SoundNext

\* Binaries newer than their file stay sound: a file that changes is newer.
LEMMA CacheStep == IInv /\ [Next]_vars => CacheInv'
<1> SUFFICES ASSUME IInv, [Next]_vars, NEW k \in newer' PROVE Sound(k, bin[k])'
  BY DEF CacheInv
<1>1. k \in Name \X Content
  BY TypeStep DEF TypeOK
<1>2. FileKeeps(k[1])
  BY <1>1, FileStep DEF FilesKeep
<1>3. \/ k \in newer /\ bin'[k] = bin[k]
      \/ \E s \in Slot : /\ At(s, "link") /\ req[s].key # NoKey /\ Key(s) = k
                         /\ bin'[k] = req[s].code /\ source' = source
  BY NewerStep DEF Newer
<1>4. Sound(k, bin'[k])
  BY <1>3 DEF IInv, BuildInv, CacheInv
<1>5. source'[k[1]] = source[k[1]]
  BY <1>2, <1>3 DEF FileKeeps
<1> QED
  BY <1>1, <1>4, <1>5, SoundStep DEF Sound, SoundNext

-----------------------------------------------------------------------------
(* Starting the binary *)

\* Whoever decides on the cached binary has checked it, and who replaces it by
\* another has built it for the same hash.
LEMMA StartStep == IInv /\ [Next]_vars => StartInv'
<1> SUFFICES ASSUME IInv, [Next]_vars PROVE StartInv'
  OBVIOUS
<1> USE Specials DEF IInv, TypeOK, requests, At, Goto, Key, RequestInv, HasHash, Running,
                  StartInv, Decided
<1>1. ASSUME NEW s \in Slot, InstrumentRequest(s) PROVE StartInv'
  BY <1>1, InstrumentRequestForm
<1>2. ASSUME NEW s \in Slot, SetOptions(s) PROVE StartInv'
  BY <1>2, IdleType DEF SetOptions, SetPart, Request, Idle
<1>3. ASSUME NEW s \in Slot, InstrumentProgram(s) PROVE StartInv'
  BY <1>3, IdleType DEF InstrumentProgram, Answer, Request, Idle
<1>4. ASSUME NEW s \in Slot, Truncate(s) PROVE StartInv'
  BY <1>4, IdleType DEF Truncate, SourceBecomes, Sees, Request, Idle
<1>5. ASSUME NEW s \in Slot, Write(s) PROVE StartInv'
  BY <1>5, IdleType DEF Write, SourceBecomes, Sees, Request, Idle
<1>6. ASSUME NEW s \in Slot, RunRequest(s) PROVE StartInv'
  BY <1>6, IdleType DEF RunRequest, Comes, Request, Idle
<1>7. ASSUME NEW s \in Slot, Hash(s) PROVE StartInv'
  BY <1>7, IdleType DEF Hash, Request, Idle
<1>8. ASSUME NEW s \in Slot, Stat(s) PROVE StartInv'
  <2>1. \A t \in Slot \ {s} : req'[t] = req[t] /\ (t \in fresh' => t \in fresh)
    BY <1>8 DEF Stat
  <2>2. req'[s].name = req[s].name /\ req'[s].key = req[s].key /\ ~At(s, "start")'
    <3>1. \E pc \in {"gen", "build"} : req' = [req EXCEPT ![s].pc = pc]
      BY <1>8 DEF Stat
    <3> QED
      BY <3>1
  <2>3. s \in fresh' => Key(s) \in newer
    BY <1>8 DEF Stat
  <2>4. Key(s) \in newer => bin[Key(s)] \in seen[s] \/ Key(s) \in restored
    BY <1>8 DEF Stat, CacheInv, Sound
  <2>5. UNCHANGED <<bin, seen, restored>>
    BY <1>8 DEF Stat
  <2>6. Decided(s)' => s \in fresh'
    BY <2>2
  <2>7. Decided(s)' => bin'[Key(s)'] \in seen'[s] \/ Key(s)' \in restored'
    BY <2>2, <2>3, <2>4, <2>5, <2>6
  <2>8. ASSUME NEW t \in Slot \ {s}, Decided(t)', Key(t)' \in DOMAIN bin'
        PROVE  bin'[Key(t)'] \in seen'[t] \/ Key(t)' \in restored'
    BY <2>1, <2>5, <2>8
  <2> QED
    BY <2>7, <2>8
<1>9. ASSUME NEW s \in Slot, CompareTimes(s) PROVE StartInv'
  <2>1. \A t \in Slot \ {s} : req'[t] = req[t] /\ (t \in fresh' => t \in fresh)
    BY <1>9 DEF CompareTimes
  <2>2. req'[s].name = req[s].name /\ req'[s].key = req[s].key /\ s \notin fresh'
    BY <1>9 DEF CompareTimes
  <2>3. At(s, "start")' => s \in fresh \/ source[req[s].name] = Absent
    BY <1>9 DEF CompareTimes
  <2>4. Key(s) \in DOMAIN bin /\ source[req[s].name] = Absent => bin[Key(s)] \in seen[s]
    BY <1>9 DEF CompareTimes, AbsentInv
  <2>5. UNCHANGED <<bin, seen, restored>>
    BY <1>9 DEF CompareTimes
  <2>6. Decided(s)' /\ Key(s)' \in DOMAIN bin' =>
            bin'[Key(s)'] \in seen'[s] \/ Key(s)' \in restored'
    BY <2>2, <2>3, <2>4, <2>5
  <2> QED
    BY <2>1, <2>5, <2>6
<1>10. ASSUME NEW s \in Slot, BuildRead(s) PROVE StartInv'
  BY <1>10, IdleType DEF BuildRead, Request, Idle
<1>11. ASSUME NEW s \in Slot, BuildFails(s) PROVE StartInv'
  BY <1>11, IdleType DEF BuildFails, Answer, Request, Idle
<1>12. ASSUME NEW s \in Slot, BuildWrite(s) PROVE StartInv'
  <2>1. /\ \A t \in Slot \ {s} : req'[t] = req[t]
        /\ req'[s].name = req[s].name /\ req'[s].key = req[s].key
        /\ UNCHANGED <<fresh, seen, restored>>
    BY <1>12 DEF BuildWrite
  <2>2. CASE req[s].key = NoKey
    BY <1>12, <2>1, <2>2 DEF BuildWrite
  <2>3. CASE req[s].key # NoKey
    <3>1. /\ DOMAIN bin' = DOMAIN bin \union {Key(s)} /\ bin'[Key(s)] = req[s].code
          /\ \A k \in DOMAIN bin \ {Key(s)} : bin'[k] = bin[k]
      BY <1>12, <2>3 DEF BuildWrite
    <3>2. ASSUME NEW t \in Slot, Key(t) = Key(s)
          PROVE  req[s].code \in seen[t] \/ Key(s) \in restored
      <4>1. Sound(Key(s), req[s].code)
        BY <1>12, <2>3 DEF BuildWrite, BuildInv
      <4>2. req[t].key # NoKey /\ req[t].key = Key(s)[2]
        BY <2>3, <3>2
      <4> QED
        BY <3>2, <4>1, <4>2 DEF Sound
    <3>3. ASSUME NEW t \in Slot, Decided(t)', Key(t)' \in DOMAIN bin'
          PROVE  bin'[Key(t)'] \in seen'[t] \/ Key(t)' \in restored'
      <4>1. Key(t)' = Key(t)
        BY <2>1
      <4>2. CASE Key(t) = Key(s)
        BY <2>1, <3>1, <3>2, <4>1, <4>2
      <4>3. CASE Key(t) # Key(s)
        BY <2>1, <3>1, <3>3, <4>1, <4>3
      <4> QED
        BY <4>2, <4>3
    <3> QED
      BY <3>3
  <2> QED
    BY <2>2, <2>3
<1>13. ASSUME NEW s \in Slot, Start(s) PROVE StartInv'
  BY <1>13, IdleType DEF Start, Answer, Request, Idle
<1>14. ASSUME NEW s \in Slot, Finish(s) PROVE StartInv'
  BY <1>14, IdleType DEF Finish, Answer, Request, Idle
<1>15. CASE ClearCache
  BY <1>15, EmptyDomain DEF ClearCache
<1>16. CASE UNCHANGED vars
  BY <1>16 DEF vars
<1> QED
  BY <1>1, <1>2, <1>3, <1>4, <1>5, <1>6, <1>7, <1>8, <1>9, <1>10, <1>11, <1>12, <1>13, <1>14,
     <1>15, <1>16 DEF Next

\* A run starts what it decided on.
LEMMA RunsStep == IInv /\ [Next]_vars => RunsCurrent'
<1> SUFFICES ASSUME IInv, [Next]_vars PROVE RunsCurrent'
  OBVIOUS
<1> USE Specials DEF IInv, TypeOK, requests, At, Goto, Key, RequestInv, HasHash, Running,
                  RunsCurrent, ReadInv, StartInv, Decided
<1>1. ASSUME NEW s \in Slot, InstrumentRequest(s) PROVE RunsCurrent'
  BY <1>1, InstrumentRequestForm
<1>2. ASSUME NEW s \in Slot, SetOptions(s) PROVE RunsCurrent'
  BY <1>2, IdleType DEF SetOptions, SetPart, Request, Idle
<1>3. ASSUME NEW s \in Slot, InstrumentProgram(s) PROVE RunsCurrent'
  BY <1>3, IdleType DEF InstrumentProgram, Answer, Request, Idle
<1>4. ASSUME NEW s \in Slot, Truncate(s) PROVE RunsCurrent'
  BY <1>4, IdleType DEF Truncate, SourceBecomes, Sees, Request, Idle
<1>5. ASSUME NEW s \in Slot, Write(s) PROVE RunsCurrent'
  BY <1>5, IdleType DEF Write, SourceBecomes, Sees, Request, Idle
<1>6. ASSUME NEW s \in Slot, RunRequest(s) PROVE RunsCurrent'
  BY <1>6, IdleType DEF RunRequest, Comes, Request, Idle
<1>7. ASSUME NEW s \in Slot, Hash(s) PROVE RunsCurrent'
  BY <1>7, IdleType DEF Hash, Request, Idle
<1>8. ASSUME NEW s \in Slot, Stat(s) PROVE RunsCurrent'
  BY <1>8, IdleType DEF Stat, Request, Idle
<1>9. ASSUME NEW s \in Slot, CompareTimes(s) PROVE RunsCurrent'
  BY <1>9, IdleType DEF CompareTimes, Request, Idle
<1>10. ASSUME NEW s \in Slot, BuildRead(s) PROVE RunsCurrent'
  BY <1>10, IdleType DEF BuildRead, Request, Idle
<1>11. ASSUME NEW s \in Slot, BuildFails(s) PROVE RunsCurrent'
  BY <1>11, IdleType DEF BuildFails, Answer, Request, Idle
<1>12. ASSUME NEW s \in Slot, BuildWrite(s) PROVE RunsCurrent'
  BY <1>12, IdleType DEF BuildWrite, Request, Idle
<1>13. ASSUME NEW s \in Slot, Start(s) PROVE RunsCurrent'
  BY <1>13, IdleType DEF Start, Answer, Request, Idle
<1>14. ASSUME NEW s \in Slot, Finish(s) PROVE RunsCurrent'
  BY <1>14, IdleType DEF Finish, Answer, Request, Idle
<1>15. CASE ClearCache
  BY <1>15, EmptyDomain DEF ClearCache
<1>16. CASE UNCHANGED vars
  BY <1>16 DEF vars
<1> QED
  BY <1>1, <1>2, <1>3, <1>4, <1>5, <1>6, <1>7, <1>8, <1>9, <1>10, <1>11, <1>12, <1>13, <1>14,
     <1>15, <1>16 DEF Next

-----------------------------------------------------------------------------
-----------------------------------------------------------------------------
(* Theorems *)

\* The invariant above holds in every state of the server.
THEOREM Inductive == Spec => []IInv
<1>1. Init => IInv
  BY Initially
<1>2. IInv /\ [Next]_vars => IInv'
  BY TypeStep, RequestStep, ReadStep, AbsentStep, BuildStep, CacheStep, StartStep, RunsStep DEF IInv
<1> QED
  BY <1>1, <1>2, PTL DEF Spec

\* LiveServer keeps its types, and binaries are built from whole files only.
THEOREM TypeCorrect == Spec => []TypeOK
<1>1. IInv => TypeOK
  BY DEF IInv
<1> QED
  BY <1>1, Inductive, PTL

\* A run executes what its workload file held at some instant of the request
\* (runOnceHTTP, ensureRunnerBinary), unless the file was changed and changed back
\* during a build for the same hash.
THEOREM RunsAreCurrent == Spec => []RunsCurrent
<1>1. IInv => RunsCurrent
  BY DEF IInv
<1> QED
  BY <1>1, Inductive, PTL

\* A cached binary that is newer than its workload file, under the hash of that file,
\* is the program in it, with the same exception.
THEOREM CacheIsTrue == Spec => []CacheTrue
<1>1. IInv => CacheTrue
  BY DEF IInv, CacheInv, Sound, CacheTrue
<1> QED
  BY <1>1, Inductive, PTL
=============================================================================
