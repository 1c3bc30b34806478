------------------------------- MODULE Logger -------------------------------
(***************************************************************************)
(* The static Logger: threads log through the installed sinks under a      *)
(* shared lock on gSinks, while the main thread sets the level, replaces   *)
(* the sinks (init) and takes them away (shutdown) under an exclusive one. *)
(* The sinks are FileSink and ConsoleSink, which writes through to stderr  *)
(* and keeps nothing.  Formatting a line is left out.                      *)
(***************************************************************************)
EXTENDS FileSink

CONSTANTS
    Threads,   \* the threads that log
    Levels,    \* severities, as numbers
    MaxCalls,  \* bound: calls of log()
    MaxInits   \* bound: calls of init() and setLevel() after the first init()

SinkLists == {<<"file", "console">>, <<"console">>}

VARIABLES
    gMinLevel, gSinks,
    main,       \* main thread: "run", "down", or waiting for the exclusive lock
    next,       \* the sinks init() is to install, or shutdown() has released
    pc,         \* per thread: "idle", "dispatch" (before the lock) or "write"
    line, todo, \* per thread: its line, and the sinks it has yet to write
    calls, inits

loggerVars == <<gMinLevel, gSinks, main, next, pc, line, todo, calls, inits>>
vars == <<sinkVars, loggerVars>>

NoLine == CHOOSE l \in Lines : TRUE
Readers == {t \in Threads : pc[t] = "write"}

Init ==
    /\ SinkInit
    /\ gMinLevel = Max(Levels) /\ gSinks = <<"file", "console">>
    /\ main = "run" /\ next = <<>>
    /\ pc = [t \in Threads |-> "idle"]
    /\ line = [t \in Threads |-> NoLine] /\ todo = [t \in Threads |-> <<>>]
    /\ calls = 0 /\ inits = 0

(* log(): a line below the level goes no further.  A line is new each time.  *)
LogCall(t, level, l) ==
    /\ pc[t] = "idle" /\ calls < MaxCalls
    /\ l.id = calls + 1
    /\ calls' = calls + 1
    /\ IF level >= gMinLevel
       THEN pc' = [pc EXCEPT ![t] = "dispatch"] /\ line' = [line EXCEPT ![t] = l]
       ELSE UNCHANGED <<pc, line>>
    /\ UNCHANGED <<sinkVars, gMinLevel, gSinks, main, next, todo, inits>>

(* dispatch(): a shared lock, then each sink, then the unlock. *)
Dispatch(t) ==
    /\ pc[t] = "dispatch"
    /\ pc' = [pc EXCEPT ![t] = "write"]
    /\ todo' = [todo EXCEPT ![t] = gSinks]
    /\ UNCHANGED <<sinkVars, gMinLevel, gSinks, main, next, line, calls, inits>>

(* A thread that rotates the file has "rotate" first until it gives mu_ up.  *)
WriteFile(t) ==
    /\ pc[t] = "write" /\ todo[t] # <<>> /\ Head(todo[t]) = "file"
    /\ WriteLine(line[t])
    /\ todo' = [todo EXCEPT ![t] = IF step' = 0 THEN Tail(@) ELSE <<"rotate">> \o Tail(@)]
    /\ UNCHANGED <<gMinLevel, gSinks, main, next, pc, line, calls, inits>>

RotateFile(t) ==
    /\ pc[t] = "write" /\ todo[t] # <<>> /\ Head(todo[t]) = "rotate"
    /\ Rotate
    /\ todo' = [todo EXCEPT ![t] = IF step' = 0 THEN Tail(@) ELSE @]
    /\ UNCHANGED <<gMinLevel, gSinks, main, next, pc, line, calls, inits>>

WriteConsole(t) ==
    /\ pc[t] = "write" /\ todo[t] # <<>> /\ Head(todo[t]) = "console"
    /\ todo' = [todo EXCEPT ![t] = Tail(@)]
    /\ UNCHANGED <<sinkVars, gMinLevel, gSinks, main, next, pc, line, calls, inits>>

Unlock(t) ==
    /\ pc[t] = "write" /\ todo[t] = <<>>
    /\ pc' = [pc EXCEPT ![t] = "idle"] /\ line' = [line EXCEPT ![t] = NoLine]
    /\ UNCHANGED <<sinkVars, gMinLevel, gSinks, main, next, todo, calls, inits>>

-----------------------------------------------------------------------------
(* The main thread. *)
SetLevel(level) ==
    /\ main \in {"run", "down"} /\ inits < MaxInits
    /\ gMinLevel' = level /\ inits' = inits + 1
    /\ UNCHANGED <<sinkVars, gSinks, main, next, pc, line, todo, calls>>

InitCall(level, sinks) ==
    /\ main \in {"run", "down"} /\ inits < MaxInits
    /\ gMinLevel' = level /\ inits' = inits + 1
    /\ main' = "init" /\ next' = sinks
    /\ UNCHANGED <<sinkVars, gSinks, pc, line, todo, calls>>

InitSinks ==
    /\ main = "init" /\ Readers = {}
    /\ gSinks' = next
    /\ main' = "run"
    /\ UNCHANGED <<sinkVars, gMinLevel, next, pc, line, todo, calls, inits>>

ShutdownCall ==
    /\ main = "run" /\ gSinks # <<>>
    /\ main' = "shutdown"
    /\ UNCHANGED <<sinkVars, gMinLevel, gSinks, next, pc, line, todo, calls, inits>>

(* Mutant of ShutdownSinks: the lock is shared with the threads that log. *)
ShutdownShared ==
    /\ main = "shutdown" /\ step = 0
    /\ IF "file" \in Range(gSinks) THEN Flush ELSE UNCHANGED sinkVars
    /\ gSinks' = <<>> /\ next' = gSinks
    /\ main' = "down"
    /\ UNCHANGED <<gMinLevel, pc, line, todo, calls, inits>>

(* shutdown(): under the exclusive lock, flush each sink and forget them. *)
ShutdownSinks ==
    /\ main = "shutdown" /\ Readers = {}
    /\ IF "file" \in Range(gSinks) THEN Flush ELSE UNCHANGED sinkVars
    /\ gSinks' = <<>> /\ next' = gSinks
    /\ main' = "down"
    /\ UNCHANGED <<gMinLevel, pc, line, todo, calls, inits>>

-----------------------------------------------------------------------------
(* The process ends, with main()'s last statement or at any point, and       *)
(* another one starts on the same files.                                     *)
NewProcess ==
    /\ gMinLevel' = Max(Levels) /\ gSinks' = <<"file", "console">>
    /\ main' = "run" /\ next' = <<>>
    /\ pc' = [t \in Threads |-> "idle"]
    /\ line' = [t \in Threads |-> NoLine] /\ todo' = [t \in Threads |-> <<>>]
    /\ UNCHANGED <<calls, inits>>

Exit == Readers = {} /\ main \in {"run", "down"} /\ Destroy /\ NewProcess

Crashes == Crash /\ NewProcess

(* stdio's own writes. *)
Spills == Spill /\ UNCHANGED loggerVars

(* Every call has returned and the bounds are used up. *)
Done ==
    /\ calls = MaxCalls /\ \A t \in Threads : pc[t] = "idle"
    /\ main = "down"
    /\ UNCHANGED vars

Next ==
    \/ \E t \in Threads :
          \/ \E level \in Levels, l \in Lines : LogCall(t, level, l)
          \/ Dispatch(t)
          \/ WriteFile(t)
          \/ RotateFile(t)
          \/ WriteConsole(t)
          \/ Unlock(t)
    \/ \E level \in Levels : SetLevel(level)
    \/ \E level \in Levels, sinks \in SinkLists : InitCall(level, sinks)
    \/ InitSinks
    \/ ShutdownCall
    \/ ShutdownSinks
    \/ Spills
    \/ Exit
    \/ Crashes
    \/ Done

Spec == Init /\ [][Next]_vars

-----------------------------------------------------------------------------
(* The sinks a thread iterates over stay as they were when it took the lock, *)
(* until it has written to the last; so when shutdown() has returned every   *)
(* line that any thread wrote to the file is on disk, and no thread writes   *)
(* to it again before the next init().                                       *)
ShutdownFlushes ==
    /\ \A t \in Readers :
          IsSuffix([i \in 1..Len(todo[t]) |->
                       IF todo[t][i] = "rotate" THEN "file" ELSE todo[t][i]], gSinks)
    /\ (main = "down" /\ "file" \in Range(next)) => (buffer = <<>> /\ step = 0)

(* A sink that init() replaces has been flushed; the README has the case.    *)
ReplacedIsFlushed ==
    (main = "run" /\ gSinks = <<"console">>) => buffer = <<>>
=============================================================================
