------------------------------- MODULE HostJob -------------------------------
(***************************************************************************)
(* A long computation on the host (scripts/run_host_job.ps1) and the tool  *)
(* that reports on it while it runs (tools/p16j_job_status.py).            *)
(*                                                                         *)
(* The runner starts cmd.exe, which starts the interpreter, the worker: it *)
(* persists one result per dispatch, in order.  The runner sees only       *)
(* cmd.exe; a kill takes cmd.exe and leaves the worker.  The runner itself *)
(* may be killed at any moment, and started again with the same name.  The *)
(* files of the job directory are all that connects the two programs.      *)
(***************************************************************************)
EXTENDS Integers, FiniteSets

CONSTANTS
  NDispatch,   \* results a worker persists
  Timeout,     \* heartbeats until the runner gives up; 0: never
  MaxRuns      \* starts of the runner

ASSUME HostJobAssumption == NDispatch \in Nat \ {0} /\ Timeout \in Nat /\ MaxRuns \in Nat \ {0}

VARIABLES
  pc,         \* of the runner
  run,        \* its number, 0 before the first
  beats,      \* of each run, the heartbeats elapsed
  timedOut,   \* $timedOut
  exitCode,   \* $exitCode: what cmd.exe left, or "null"
  cmd,        \* of each run, cmd.exe: "none", "running" or its exit code
  worker,     \* of each run, the interpreter: "none", "running", "ok" or "crashed"
  next,       \* of each run, the dispatch its worker is at
  results,    \* dispatches with a result file
  record,     \* completion.json: "none", "partial", or what it says
  markers,    \* DONE and FAILED
  reader      \* the status tool

runner == <<pc, run, beats, timedOut, exitCode>>
files == <<record, markers>>
procs == <<cmd, worker, next, results>>
vars == <<runner, procs, files, reader>>

Run == 1 .. MaxRuns
Dispatch == 1 .. NDispatch
Statuses == {"DONE", "FAILED", "TIMEOUT", "UNKNOWN"}
Reports ==
  [pc : {"idle", "procs", "walk", "reported"}, comp : Statuses \cup {"none", "unreadable"}, alive : BOOLEAN,
   at : 1 .. NDispatch + 1, done : SUBSET Dispatch, current : 0 .. NDispatch,
   state : Statuses \cup {"", "unreadable", "RUNNING", "STOPPED_MID_DISPATCH", "FINISHED_NO_COMPLETION_JSON"}]
NoReport == [pc |-> "idle", comp |-> "none", alive |-> FALSE, at |-> 1, done |-> {}, current |-> 0, state |-> ""]

Init ==
  /\ pc = "idle" /\ run = 0 /\ beats = [r \in Run |-> 0] /\ timedOut = FALSE /\ exitCode = "null"
  /\ cmd = [r \in Run |-> "none"] /\ worker = [r \in Run |-> "none"]
  /\ next = [r \in Run |-> 1] /\ results = {}
  /\ record = "none" /\ markers = {}
  /\ reader = NoReport

Goto(from, to) == pc = from /\ pc' = to

-----------------------------------------------------------------------------
(* The runner.                                                             *)

Begin ==
  /\ pc \in {"idle", "ended", "killed"} /\ run < MaxRuns
  /\ pc' = "cleanDone" /\ run' = run + 1
  /\ beats' = [beats EXCEPT ![run + 1] = 0] /\ timedOut' = FALSE /\ exitCode' = "null"
  /\ UNCHANGED <<procs, files, reader>>

\* Remove-Item $doneM,$failM,$doneJ: one file after the other.
MutCleanMarker(from, to, marker) ==
  /\ Goto(from, to)
  /\ markers' = markers \ {"DONE"}
  /\ UNCHANGED <<run, beats, timedOut, exitCode, procs, record, reader>>

CleanMarker(from, to, marker) ==
  /\ Goto(from, to)
  /\ markers' = markers \ {marker}
  /\ UNCHANGED <<run, beats, timedOut, exitCode, procs, record, reader>>

\* SilentlyContinue: while the status tool has the record open it is not removed,
\* and nobody is told.
CleanRecord ==
  /\ Goto("cleanRecord", "start")
  /\ record' \in {"none", record}
  /\ UNCHANGED <<run, beats, timedOut, exitCode, procs, markers, reader>>

StartProcess ==
  /\ Goto("start", "loop")
  /\ cmd' = [cmd EXCEPT ![run] = "running"]
  /\ UNCHANGED <<run, beats, timedOut, exitCode, worker, next, results, files, reader>>

HasExited == cmd[run] # "running"

\* while (-not $proc.HasExited): then it sleeps for the length of a heartbeat.
Look ==
  /\ pc = "loop" /\ pc' = IF HasExited THEN "collect" ELSE "asleep"
  /\ UNCHANGED <<run, beats, timedOut, exitCode, procs, files, reader>>

\* $TimeoutSec -gt 0 -and $el -ge $TimeoutSec: whether the process has ended
\* while the runner slept is not asked.
Expired(elapsed) == Timeout > 0 /\ elapsed >= Timeout

MutBeatNotTimedOut ==
  /\ pc = "asleep"
  /\ beats' = IF Timeout > 0 THEN [beats EXCEPT ![run] = beats[run] + 1] ELSE beats
  /\ timedOut' = FALSE
  /\ pc' = IF Expired(beats'[run]) THEN "collect" ELSE "loop"
  /\ UNCHANGED <<run, exitCode, procs, files, reader>>

MutBeatFromLastBeat ==
  /\ pc = "asleep"
  /\ beats' = IF Timeout > 0 THEN [beats EXCEPT ![run] = 1] ELSE beats
  /\ timedOut' = Expired(beats'[run])
  /\ pc' = IF timedOut' THEN "kill" ELSE "loop"
  /\ UNCHANGED <<run, exitCode, procs, files, reader>>

Beat ==
  /\ pc = "asleep"
  /\ beats' = IF Timeout > 0 THEN [beats EXCEPT ![run] = beats[run] + 1] ELSE beats
  /\ timedOut' = Expired(beats'[run])
  /\ pc' = IF timedOut' THEN "kill" ELSE "loop"
  /\ UNCHANGED <<run, exitCode, procs, files, reader>>

\* Stop-Process -Force, whose errors are silenced; WaitForExit gives up too.
Kill ==
  /\ Goto("kill", "collect")
  /\ \/ cmd[run] = "running" /\ cmd' = [cmd EXCEPT ![run] = "killed"]
     \/ UNCHANGED cmd
  /\ UNCHANGED <<run, beats, timedOut, exitCode, worker, next, results, files, reader>>

Collect ==
  /\ Goto("collect", "openRecord")
  /\ exitCode' = IF HasExited THEN cmd[run] ELSE "null"
  /\ UNCHANGED <<run, beats, timedOut, procs, files, reader>>

Status ==
  CASE timedOut -> "TIMEOUT"
    [] ~timedOut /\ exitCode = "null" -> "UNKNOWN"
    [] ~timedOut /\ exitCode = "ok" -> "DONE"
    [] OTHER -> "FAILED"

\* Set-Content: the file is there before what it says.
OpenRecord ==
  /\ Goto("openRecord", "writeRecord")
  /\ record' = "partial"
  /\ UNCHANGED <<run, beats, timedOut, exitCode, procs, markers, reader>>

WriteRecord ==
  /\ Goto("writeRecord", "mark")
  /\ record' = Status
  /\ UNCHANGED <<run, beats, timedOut, exitCode, procs, markers, reader>>

Mark ==
  /\ Goto("mark", "ended")
  /\ markers' = markers \cup {IF Status = "DONE" THEN "DONE" ELSE "FAILED"}
  /\ UNCHANGED <<run, beats, timedOut, exitCode, procs, record, reader>>

RunnerKilled ==
  /\ pc \notin {"idle", "ended", "killed"}
  /\ pc' = "killed"
  /\ UNCHANGED <<run, beats, timedOut, exitCode, procs, files, reader>>

Runner ==
  \/ CleanMarker("cleanDone", "cleanFailed", "DONE")
  \/ CleanMarker("cleanFailed", "cleanRecord", "FAILED")
  \/ CleanRecord \/ StartProcess \/ Look \/ Beat \/ Kill \/ Collect \/ OpenRecord \/ WriteRecord \/ Mark

-----------------------------------------------------------------------------
(* The worker of a run, of an earlier one too, and its cmd.exe.            *)

\* cmd.exe opens the two logs and starts the interpreter.
Spawn(r) ==
  /\ cmd[r] = "running" /\ worker[r] = "none"
  /\ worker' = [worker EXCEPT ![r] = "running"]
  /\ UNCHANGED <<runner, cmd, next, results, files, reader>>

Persist(r) ==
  /\ worker[r] = "running" /\ next[r] <= NDispatch
  /\ results' = results \cup {next[r]}
  /\ next' = [next EXCEPT ![r] = next[r] + 1]
  /\ UNCHANGED <<runner, cmd, worker, files, reader>>

WorkerEnds(r, how) ==
  /\ worker[r] = "running"
  /\ how = "ok" => next[r] > NDispatch
  /\ worker' = [worker EXCEPT ![r] = how]
  /\ UNCHANGED <<runner, cmd, next, results, files, reader>>

\* cmd.exe waits for the interpreter and hands on its exit code; it has one of its
\* own, which is not 0, when it can open no log or find no interpreter.
CmdExits(r) ==
  /\ cmd[r] = "running" /\ worker[r] # "running"
  /\ cmd' = [cmd EXCEPT ![r] = IF worker[r] = "ok" THEN "ok" ELSE "crashed"]
  /\ UNCHANGED <<runner, worker, next, results, files, reader>>

-----------------------------------------------------------------------------
(* The status tool.                                                        *)

Reads(new) == reader' = new /\ UNCHANGED <<runner, procs, files>>

ReadRecord ==
  /\ reader.pc = "idle"
  /\ Reads([NoReport EXCEPT !.pc = "procs", !.comp = IF record = "partial" THEN "unreadable" ELSE record])

\* live_pids: every interpreter with this --job, whichever run it is of; nobody,
\* when the question to the system fails or takes too long.
Alive == \E r \in Run : worker[r] = "running"
ReadProcs ==
  /\ reader.pc = "procs"
  /\ \E found \in {FALSE, Alive} : Reads([reader EXCEPT !.pc = "walk", !.alive = found])

\* The result files in their declared order, one os.path.exists at a time.
Walk ==
  /\ reader.pc = "walk" /\ reader.at <= NDispatch
  /\ LET seen == IF reader.at \in results THEN [reader EXCEPT !.done = reader.done \cup {reader.at}]
                 ELSE IF reader.current = 0 THEN [reader EXCEPT !.current = reader.at]
                 ELSE reader
     IN  Reads([seen EXCEPT !.at = reader.at + 1])

MutStateReadLast ==
  IF record # "none" THEN record
  ELSE IF reader.alive THEN "RUNNING"
  ELSE IF reader.current # 0 THEN "STOPPED_MID_DISPATCH"
  ELSE "FINISHED_NO_COMPLETION_JSON"

State ==
  IF reader.comp # "none" THEN reader.comp
  ELSE IF reader.alive THEN "RUNNING"
  ELSE IF reader.current # 0 THEN "STOPPED_MID_DISPATCH"
  ELSE "FINISHED_NO_COMPLETION_JSON"

Report ==
  /\ reader.pc = "walk" /\ reader.at > NDispatch
  /\ Reads([reader EXCEPT !.pc = "reported", !.state = State])

Forget == reader.pc = "reported" /\ Reads(NoReport)

Reader == ReadRecord \/ ReadProcs \/ Walk \/ Report \/ Forget

-----------------------------------------------------------------------------

Workers == \E r \in Run : Spawn(r) \/ Persist(r) \/ WorkerEnds(r, "ok") \/ WorkerEnds(r, "crashed") \/ CmdExits(r)
Next == Begin \/ Runner \/ RunnerKilled \/ Workers \/ Reader

\* Windows goes on running the runner; nothing is promised of a worker.
Spec == Init /\ [][Next]_vars /\ WF_vars(Runner)

-----------------------------------------------------------------------------
(* Properties.                                                             *)

\* The kind of every variable.
TypeOK ==
  /\ pc \in {"idle", "cleanDone", "cleanFailed", "cleanRecord", "start", "loop", "asleep", "kill",
             "collect", "openRecord", "writeRecord", "mark", "ended", "killed"}
  /\ run \in 0 .. MaxRuns /\ beats \in [Run -> 0 .. Timeout] /\ timedOut \in BOOLEAN
  /\ exitCode \in {"null", "ok", "crashed", "killed"}
  /\ cmd \in [Run -> {"none", "running", "ok", "crashed", "killed"}]
  /\ worker \in [Run -> {"none", "running", "ok", "crashed"}]
  /\ next \in [Run -> 1 .. NDispatch + 1] /\ results \subseteq Dispatch
  /\ record \in Statuses \cup {"none", "partial"} /\ markers \subseteq {"DONE", "FAILED"}
  /\ reader \in Reports

\* What has to have happened in run r for completion.json to say this.
Backed(status, r) ==
  /\ status \in {"DONE", "FAILED", "TIMEOUT"}
  /\ status = "DONE" => worker[r] = "ok" /\ cmd[r] = "ok" /\ Dispatch \subseteq results
  /\ status = "FAILED" => worker[r] \in {"none", "crashed"} /\ cmd[r] = "crashed"
  /\ cmd[r] # "none" /\ (status = "TIMEOUT" <=> Expired(beats[r]))

\* What completion.json says happened, in the run that is being recorded once
\* that run has written it, in some run at every other moment: through kills,
\* timeouts that race the end of the process, restarts and workers left over.
\* UNKNOWN, what every run was called before $proc.ExitCode could be relied on
\* (run_host_job.ps1:45-52), is never written.
RecordTruth ==
  /\ record \in Statuses => \E r \in 1 .. run : Backed(record, r)
  /\ pc \in {"mark", "ended"} => Backed(record, run)

\* A DONE or FAILED marker is never there without the complete record that
\* agrees with it, so somebody who waits for the marker may read the record:
\* removed first, written last, and never both.
MarkerHasRecord ==
  /\ "DONE" \in markers => record = "DONE"
  /\ "FAILED" \in markers => record \in {"FAILED", "TIMEOUT"}

\* What p16j_job_status.py reports of a job whose files change under it.  A job
\* called finished has all its results in the same report; the results listed
\* are on disk, and the current dispatch is the first that is not listed.
ReportAgrees ==
  reader.pc = "reported" =>
    /\ reader.state \in {"DONE", "FINISHED_NO_COMPLETION_JSON"} => reader.done = Dispatch
    /\ reader.done \subseteq results
    /\ IF reader.current = 0 THEN reader.done = Dispatch
       ELSE 1 .. reader.current - 1 \subseteq reader.done /\ reader.current \notin reader.done

\* With a timeout every job that is started gets its completion.json and its
\* marker, however long the worker computes or hangs, unless the runner itself
\* is killed.
JobRecorded == pc = "loop" ~> (pc = "ended" /\ record \in Statuses /\ markers # {}) \/ pc = "killed"
=============================================================================
