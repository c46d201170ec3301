------------------------------ MODULE FileStore ------------------------------
(***************************************************************************)
(* store/filestore.py: a directory with one file per run, shared by        *)
(* processes that each have a FileStore object of their own, with a cache  *)
(* of logs and, for each, how much of it is on disk.  A call is cut into   *)
(* the steps between which another process, or a crash, can come.          *)
(*                                                                         *)
(* What a line says is abstracted to the run that recorded it and its      *)
(* sequence number.  The processes are those of the command line and of    *)
(* careful library code: any of them runs workflows, under ids it picks as *)
(* cli/commands.py does, nobody deletes a run in progress, only complete   *)
(* logs with a file are rewritten, by one process at a time, and an error  *)
(* in flush is the end of the process.                                     *)
(*                                                                         *)
(* There is no lock: create tests for the file and then truncates it, so   *)
(* that two processes which look for a free id at the same moment may both *)
(* take it, and their lines are mixed in one file.  The model does what    *)
(* the code does then, and the history variable clashes remembers the ids  *)
(* this has happened to: what is said below is said of all the others.     *)
(***************************************************************************)
EXTENDS Integers, SequencesExt

CONSTANTS
  Processes,   \* each has one FileStore on the same directory
  MaxIds,      \* bound on the ids a process tries
  MaxRuns,     \* bound on the runs started
  MaxEvents,   \* bound on the events of a run, RUN_FINISHED included
  MaxCrashes   \* bound on the processes that die

ASSUME BoundsAssumption ==
  /\ MaxIds \in Nat \ {0} /\ MaxRuns \in Nat \ {0}
  /\ MaxEvents \in Nat \ {0} /\ MaxCrashes \in Nat

VARIABLES
  disk,      \* the files: lines by id
  temporary, \* the files <id>.jsonl.tmp
  cache,     \* _cache of each process: logs by id
  flushed,   \* _flushed of each process: how many lines are on disk, by id
  counter,   \* of each process's IdFactory
  call,      \* what each process is doing
  runs,      \* every run there has been: its id, its events and how it ended
  crashes,   \* how many processes have died
  clashes    \* history: the ids that two processes have used at the same time

vars == <<disk, temporary, cache, flushed, counter, call, runs, crashes, clashes>>
memory == <<cache, flushed, counter>>

Ids == 1 .. MaxIds
Line(run, seq) == <<run, seq>>
Torn == <<0, 0>>     \* what is left of a line that was being written

\* A file as path_for finds it, a dictionary with an entry put in or taken out
Put(dict, key, value) == [k \in DOMAIN dict \cup {key} |-> IF k = key THEN value ELSE dict[k]]
Pop(dict, key) == Restrict(dict, DOMAIN dict \ {key})
Exists(i) == i \in DOMAIN disk

\* A call on the log of i, of no run yet; at is the next line to write
Call(op, i, at) == [op |-> op, id |-> i, run |-> 0, at |-> at]
Idle == Call("idle", 0, 0)
Goto(p, op) == call' = [call EXCEPT ![p].op = op]
Return(p) == call' = [call EXCEPT ![p] = Idle]
Log(p) == cache[p][call[p].id]

Init ==
  /\ disk = <<>> /\ temporary = <<>>
  /\ cache = [p \in Processes |-> <<>>]
  /\ flushed = [p \in Processes |-> <<>>]
  /\ counter = [p \in Processes |-> 0]
  /\ call = [p \in Processes |-> Idle]
  /\ runs = <<>>
  /\ crashes = 0
  /\ clashes = {}

------------------------------------------------------------------------------
(* Starting a run                                                           *)

\* Fault: only the process's own runs are taken
HasCached(p, i) == i \in DOMAIN cache[p]

Has(p, i) == i \in DOMAIN cache[p] \/ Exists(i)

\* One candidate of _free_run_id: taken, and the next call tries another, or free
TryId(p) ==
  /\ call[p] = Idle
  /\ Len(runs) < MaxRuns /\ counter[p] < MaxIds
  /\ counter' = [counter EXCEPT ![p] = @ + 1]
  /\ LET i == counter[p] + 1
     IN  call' = IF Has(p, i) THEN call ELSE [call EXCEPT ![p] = Call("create", i, 0)]
  /\ UNCHANGED <<disk, temporary, cache, flushed, runs, crashes>>

\* The first half of create: refuse an id that is taken, or enter an empty log
Create(p) ==
  /\ call[p].op = "create"
  /\ LET i == call[p].id
     IN  \/ /\ Has(p, i)
            /\ Return(p)
            /\ UNCHANGED <<cache, flushed>>
         \/ /\ ~ Has(p, i)
            /\ cache' = [cache EXCEPT ![p] = Put(@, i, <<>>)]
            /\ flushed' = [flushed EXCEPT ![p] = Put(@, i, 0)]
            /\ Goto(p, "truncate")
  /\ UNCHANGED <<disk, temporary, counter, runs, crashes>>

\* The second half: path.write_text("") makes the file empty, whatever was there
Truncate(p) ==
  /\ call[p].op = "truncate"
  /\ Len(runs) < MaxRuns
  /\ LET i == call[p].id
     IN  /\ disk' = Put(disk, i, <<>>)
         /\ runs' = Append(runs, [id |-> i, events |-> 0, outcome |-> "running"])
  /\ call' = [call EXCEPT ![p].op = "run", ![p].run = Len(runs) + 1]
  /\ UNCHANGED <<temporary, memory, crashes>>

\* EventLog.append on the log that create returned
RecordLine(p) ==
  LET r == call[p].run
  IN  /\ cache' = [cache EXCEPT ![p][call[p].id] = Append(@, Line(r, runs[r].events))]
      /\ runs' = [runs EXCEPT ![r].events = @ + 1,
                              ![r].outcome = IF call'[p].op = "flush" THEN "flushing" ELSE @]

\* An event of the run, before its last
Record(p) ==
  /\ call[p].op = "run"
  /\ runs[call[p].run].events < MaxEvents - 1
  /\ UNCHANGED call
  /\ RecordLine(p)
  /\ UNCHANGED <<disk, temporary, flushed, counter, crashes>>

\* _finish records RUN_FINISHED and calls flush, which always has lines to write
Finish(p) ==
  /\ call[p].op = "run"
  /\ call' = [call EXCEPT ![p].op = "flush", ![p].at = flushed[p][call[p].id]]
  /\ RecordLine(p)
  /\ UNCHANGED <<disk, temporary, flushed, counter, crashes>>

\* An exception leaves run() before _finish: the log is in memory, the file empty
Abandon(p) ==
  /\ call[p].op = "run"
  /\ runs' = [runs EXCEPT ![call[p].run].outcome = "raised"]
  /\ Return(p)
  /\ UNCHANGED <<disk, temporary, memory, crashes>>

------------------------------------------------------------------------------
(* Flushing                                                                 *)

\* There are lines of the log in memory that are not on disk
Pending(p, i) == i \in DOMAIN cache[p] /\ flushed[p][i] < Len(cache[p][i])

\* flush, flush_all or evict finds pending lines and opens the file, which makes
\* it if it is not there
StartFlush(p, i) ==
  /\ call[p] = Idle
  /\ Pending(p, i)
  /\ disk' = IF Exists(i) THEN disk ELSE Put(disk, i, <<>>)
  /\ call' = [call EXCEPT ![p] = Call("flush", i, flushed[p][i])]
  /\ UNCHANGED <<temporary, memory, runs, crashes>>

FlushLine(p) ==
  /\ call[p].op = "flush"
  /\ call[p].at < Len(Log(p))
  /\ disk' = [disk EXCEPT ![call[p].id] = Append(@, Log(p)[call[p].at + 1])]
  /\ call' = [call EXCEPT ![p].at = @ + 1]
  /\ UNCHANGED <<temporary, memory, runs, crashes>>

\* The run whose last flush has returned is safe
Safe(p) ==
  LET r == call[p].run
  IN  IF r = 0 THEN runs ELSE [runs EXCEPT ![r].outcome = "kept"]

EndFlush(p) ==
  /\ call[p].op = "flush"
  /\ call[p].at = Len(Log(p))
  /\ flushed' = [flushed EXCEPT ![p][call[p].id] = Len(Log(p))]
  /\ runs' = Safe(p)
  /\ Return(p)
  /\ UNCHANGED <<disk, temporary, cache, counter, crashes>>

\* A process ends, whatever it was doing
Exit(p) ==
  /\ cache' = [cache EXCEPT ![p] = <<>>]
  /\ flushed' = [flushed EXCEPT ![p] = <<>>]
  /\ counter' = [counter EXCEPT ![p] = 0]
  /\ Return(p)
  /\ runs' = [r \in DOMAIN runs |->
                IF r = call[p].run THEN [runs[r] EXCEPT !.outcome = "died"] ELSE runs[r]]

\* canonical_dumps raises on an event json cannot encode, which may be any.  The lines
\* before are in the file, _flushed does not know it, and the process ends.
FlushRaises(p) ==
  /\ call[p].op = "flush"
  /\ call[p].at < Len(Log(p))
  /\ Exit(p)
  /\ UNCHANGED <<disk, temporary, crashes>>

------------------------------------------------------------------------------
(* Reading, forgetting, deleting and rewriting                              *)

\* Fault: only the sequence numbers of complete lines are looked at
ParsesTorn(lines) == \A n \in DOMAIN lines : lines[n] # Torn => lines[n][2] = n - 1

\* EventLog.from_jsonl: every line complete, the sequence numbers dense from zero
Parses(lines) == \A n \in DOMAIN lines : lines[n] # Torn /\ lines[n][2] = n - 1

\* Fault: everything loaded counts as pending
LoadUnflushed(p, i) ==
  /\ call[p] = Idle
  /\ i \notin DOMAIN cache[p] /\ Exists(i)
  /\ Parses(disk[i])
  /\ cache' = [cache EXCEPT ![p] = Put(@, i, disk[i])]
  /\ flushed' = [flushed EXCEPT ![p] = Put(@, i, 0)]
  /\ UNCHANGED <<disk, temporary, counter, call, runs, crashes>>

\* log of a run that is not cached.  A file that does not parse raises, and nothing
\* changes; nor does it when verify reads the file, or a line is half written.
Load(p, i) ==
  /\ call[p] = Idle
  /\ i \notin DOMAIN cache[p] /\ Exists(i)
  /\ Parses(disk[i])
  /\ cache' = [cache EXCEPT ![p] = Put(@, i, disk[i])]
  /\ flushed' = [flushed EXCEPT ![p] = Put(@, i, Len(disk[i]))]
  /\ UNCHANGED <<disk, temporary, counter, call, runs, crashes>>

\* The end of evict, once flush_all has nothing left to write
Evict(p) ==
  /\ call[p] = Idle
  /\ \A i \in DOMAIN cache[p] : ~ Pending(p, i)
  /\ cache' = [cache EXCEPT ![p] = <<>>]
  /\ flushed' = [flushed EXCEPT ![p] = <<>>]
  /\ UNCHANGED <<disk, temporary, counter, call, runs, crashes>>

\* Somebody is in the middle of a call on the run
InUse(i) == \E p \in Processes : call[p].id = i

\* delete: the file and what this process knows of it
Delete(p, i) ==
  /\ call[p] = Idle /\ ~ InUse(i)
  /\ Has(p, i)
  /\ disk' = Pop(disk, i)
  /\ cache' = [cache EXCEPT ![p] = Pop(@, i)]
  /\ flushed' = [flushed EXCEPT ![p] = Pop(@, i)]
  /\ runs' = [r \in DOMAIN runs |->
                IF runs[r].id = i THEN [runs[r] EXCEPT !.outcome = "deleted"] ELSE runs[r]]
  /\ UNCHANGED <<temporary, counter, call, crashes>>

\* The process has all that the latest run with this id recorded
HasAllOf(p, i) ==
  LET r == Max({q \in DOMAIN runs : runs[q].id = i})
  IN  cache[p][i] = [n \in 1 .. runs[r].events |-> Line(r, n - 1)]

\* Fault: the file itself is opened for writing
WriteInPlace(p, i) ==
  /\ call[p] = Idle /\ ~ InUse(i)
  /\ Exists(i) /\ i \in DOMAIN cache[p] /\ HasAllOf(p, i)
  /\ disk' = Put(disk, i, <<>>)
  /\ call' = [call EXCEPT ![p] = Call("write", i, 0)]
  /\ UNCHANGED <<temporary, memory, runs, crashes>>

\* write: to_jsonl has encoded every event before the temporary file is opened
StartWrite(p, i) ==
  /\ call[p] = Idle /\ ~ InUse(i)
  /\ Exists(i) /\ i \in DOMAIN cache[p] /\ HasAllOf(p, i)
  /\ temporary' = Put(temporary, i, <<>>)
  /\ call' = [call EXCEPT ![p] = Call("write", i, 0)]
  /\ UNCHANGED <<disk, memory, runs, crashes>>

FillTemporary(p) ==
  /\ call[p].op = "write"
  /\ temporary' = Put(temporary, call[p].id, Log(p))
  /\ Goto(p, "replace")
  /\ UNCHANGED <<disk, memory, runs, crashes>>

ReplaceFile(p) ==
  /\ call[p].op = "replace"
  /\ LET i == call[p].id
     IN  /\ disk' = Put(disk, i, temporary[i])
         /\ temporary' = Pop(temporary, i)
         /\ flushed' = [flushed EXCEPT ![p][i] = Len(Log(p))]
  /\ Return(p)
  /\ UNCHANGED <<cache, counter, runs, crashes>>

------------------------------------------------------------------------------
\* A process dies.  In the middle of a flush the line it was writing may be torn.
Crash(p) ==
  /\ crashes < MaxCrashes
  /\ crashes' = crashes + 1
  /\ Exit(p)
  /\ \/ UNCHANGED disk
     \/ /\ call[p].op = "flush" /\ call[p].at < Len(Log(p))
        /\ disk' = [disk EXCEPT ![call[p].id] = Append(@, Torn)]
  /\ UNCHANGED temporary

Step ==
  \E p \in Processes :
    \/ TryId(p) \/ Create(p) \/ Truncate(p)
    \/ Record(p) \/ Finish(p) \/ Abandon(p)
    \/ FlushLine(p) \/ EndFlush(p) \/ FlushRaises(p)
    \/ Evict(p) \/ FillTemporary(p) \/ ReplaceFile(p) \/ Crash(p)
    \/ \E i \in Ids : StartFlush(p, i) \/ Load(p, i) \/ Delete(p, i) \/ StartWrite(p, i)

\* The process is writing the file of i, or about to, or will once it flushes
Uses(p, i) == call[p].id = i \/ Pending(p, i)

Clash(i) == \E p, q \in Processes : p # q /\ Uses(p, i) /\ Uses(q, i)

Next == Step /\ clashes' = clashes \cup {i \in Ids : Clash(i)'}

Spec == Init /\ [][Next]_vars

------------------------------------------------------------------------------
(* What must hold, of every id no two processes have used at the same time  *)

\* The first n lines of a run
Recorded(r, n) == [k \in 1 .. n |-> Line(r, k - 1)]
PrefixOfRun(lines) ==
  lines = <<>> \/ \E r \in DOMAIN runs : \E n \in 1 .. runs[r].events : lines = Recorded(r, n)

\* Whatever has been flushed, loaded, evicted, rewritten or interrupted, and by
\* whom: a file holds the first lines one run recorded, each once, and at most one
\* torn line after them.
FilesArePrefixes ==
  \A i \in DOMAIN disk \ clashes :
    \/ PrefixOfRun(disk[i])
    \/ disk[i] # <<>> /\ Last(disk[i]) = Torn /\ PrefixOfRun(Front(disk[i]))

\* Once flush has returned to _finish the whole log is on disk, until the run is
\* deleted: no crash, eviction or rewrite by anybody takes any of it away.
KeptRunsAreComplete ==
  \A r \in DOMAIN runs :
    runs[r].outcome = "kept" /\ runs[r].id \notin clashes =>
      /\ runs[r].id \in DOMAIN disk
      /\ disk[runs[r].id] = Recorded(r, runs[r].events)

\* What a process has in memory may be old but is never wrong: log refuses a file
\* that ends in a torn line instead of answering with part of it.
CopiesAreHonest ==
  \A p \in Processes : \A i \in DOMAIN cache[p] \ clashes : PrefixOfRun(cache[p][i])

\* A file seen as what it says of its run; one that repeats or mixes lines says
\* something no run directory may say
Described(lines) ==
  LET torn == lines # <<>> /\ Last(lines) = Torn
      whole == IF torn THEN Front(lines) ELSE lines
      run == IF whole = <<>> THEN 0 ELSE whole[1][1]
  IN  [run |-> run, torn |-> torn,
       events |-> IF whole = Recorded(run, Len(whole)) THEN Len(whole) ELSE -1]

Progress == [r \in 1 .. MaxRuns |-> IF r \in DOMAIN runs THEN runs[r].events ELSE 0]
FilesSeen == [i \in DOMAIN disk \ clashes |-> Described(disk[i])]

Directory == INSTANCE RunDirectory WITH
  Runs <- 1 .. MaxRuns, recorded <- Progress, files <- FilesSeen

\* To a reader of the directory, all this is a RunDirectory: a file only ever grows,
\* by events its run has recorded, may be torn once, or goes away as a whole.
KeepsDirectory == Directory!Spec

=============================================================================
