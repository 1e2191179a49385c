---------------------------- MODULE HostJob_proofs ----------------------------
(***************************************************************************)
(* Proofs about HostJob, for any number of dispatches and runs and any     *)
(* timeout.                                                                *)
(***************************************************************************)
EXTENDS HostJob, TLAPS

Cleaning == {"cleanDone", "cleanFailed", "cleanRecord", "start"}
Watching == {"loop", "asleep", "kill", "collect"}
Recording == {"openRecord", "writeRecord", "mark", "ended"}

\* What a run's two processes know of each other, and what has been persisted.
ProcessesOf(r) ==
  /\ cmd[r] = "ok" => worker[r] = "ok"
  /\ cmd[r] = "crashed" => worker[r] \in {"none", "crashed"}
  /\ cmd[r] = "none" => worker[r] = "none"
  /\ worker[r] = "ok" => next[r] = NDispatch + 1
  /\ 1 .. next[r] - 1 \subseteq results
  /\ r > run => cmd[r] = "none"

Processes == \A r \in Run : ProcessesOf(r)

\* Where the runner is, and what that says of the process it started.
Course ==
  /\ pc \in {"idle"} \cup Cleaning \cup Watching \cup Recording \cup {"killed"}
  /\ pc # "idle" => run \in Run
  /\ pc \in Cleaning => cmd[run] = "none"
  /\ pc # "idle" => (timedOut <=> Expired(beats[run]))
  /\ pc \in Watching \cup Recording =>
       /\ cmd[run] # "none"
       /\ cmd[run] = "killed" => timedOut
  /\ pc \in {"loop", "asleep"} \cup Cleaning => ~timedOut
  /\ pc = "kill" => timedOut
  /\ pc = "collect" => timedOut \/ cmd[run] # "running"
  /\ pc \in Recording => timedOut \/ (exitCode = cmd[run] /\ exitCode \in {"ok", "crashed"})

\* The files, at every step of the runner.
Written ==
  /\ record \in Statuses => \E r \in 1 .. run : Backed(record, r) /\ (pc \in Cleaning \cup Watching => r # run)
  /\ pc \in {"mark", "ended"} => record = Status
  /\ pc = "cleanFailed" => "DONE" \notin markers
  /\ pc \in {"cleanRecord", "start", "openRecord", "writeRecord", "mark"} \cup Watching => markers = {}
  /\ MarkerHasRecord

\* What the status tool has found so far.
Seen ==
  /\ reader.done \subseteq results
  /\ reader.current < reader.at
  /\ IF reader.current = 0 THEN reader.done = 1 .. reader.at - 1
     ELSE 1 .. reader.current - 1 \subseteq reader.done /\ reader.current \notin reader.done
  /\ reader.pc # "idle" /\ reader.comp = "DONE" => Dispatch \subseteq results /\ reader.current = 0
  /\ reader.pc = "reported" => reader.at = NDispatch + 1 /\ reader.state = State

IInv == TypeOK /\ Processes /\ Course /\ Written /\ Seen
-----------------------------------------------------------------------------
\* The status tool's empty report is a report.
LEMMA NoReportType == NoReport \in Reports
  BY HostJobAssumption DEF HostJobAssumption, NoReport, Reports, Statuses

\* The initial state has the invariant.
LEMMA Initially == Init => IInv
<1> SUFFICES ASSUME Init PROVE IInv
  OBVIOUS
<1> USE HostJobAssumption DEF HostJobAssumption, Init
<1>1. TypeOK
  <2>1. cmd \in [Run -> {"none", "running", "ok", "crashed", "killed"}] /\ worker \in [Run -> {"none", "running", "ok", "crashed"}]
    OBVIOUS
  <2>2. next \in [Run -> 1 .. NDispatch + 1]
    OBVIOUS
  <2>3. run \in 0 .. MaxRuns /\ beats \in [Run -> 0 .. Timeout]
    OBVIOUS
  <2>4. timedOut \in BOOLEAN
    OBVIOUS
  <2> QED
    BY <2>1, <2>2, <2>3, <2>4, NoReportType DEF TypeOK
<1>2. Processes
  BY DEF Processes, ProcessesOf, Run
<1>3. Course
  BY DEF Course, Cleaning, Watching, Recording
<1>4. Written
  BY DEF Written, MarkerHasRecord, Statuses, Watching
<1>5. Seen
  <2>1. reader.pc = "idle" /\ reader.done = {} /\ reader.current = 0 /\ reader.at = 1
    BY DEF NoReport
  <2> QED
    BY <2>1 DEF Seen
<1> QED
  BY <1>1, <1>2, <1>3, <1>4, <1>5 DEF IInv

\* The kinds of the variables, step by step.
LEMMA TypeStep == ASSUME TypeOK, Course, [Next]_vars PROVE TypeOK'
<1> USE HostJobAssumption DEF HostJobAssumption
<1>1. CASE Begin
  <2>1. run' \in 0 .. MaxRuns /\ pc' = "cleanDone" /\ exitCode' = "null"
    BY <1>1 DEF Begin, TypeOK
  <2>2. timedOut' \in BOOLEAN
    BY <1>1 DEF Begin
  <2>3. beats' \in [Run -> 0 .. Timeout]
    <3>1. beats' = [beats EXCEPT ![run + 1] = 0] /\ 0 \in 0 .. Timeout
      BY <1>1 DEF Begin
    <3> QED
      BY <3>1 DEF TypeOK
  <2> QED
    BY <1>1, <2>1, <2>2, <2>3 DEF Begin, TypeOK, procs, files
<1>2. CASE CleanMarker("cleanDone", "cleanFailed", "DONE")
  BY <1>2 DEF CleanMarker, TypeOK, Course, Cleaning, Watching, Recording, runner, procs, files, vars, Run, Dispatch, Statuses, Goto
<1>3. CASE CleanMarker("cleanFailed", "cleanRecord", "FAILED")
  BY <1>3 DEF CleanMarker, TypeOK, Course, Cleaning, Watching, Recording, runner, procs, files, vars, Run, Dispatch, Statuses, Goto
<1>4. CASE CleanRecord
  BY <1>4 DEF CleanRecord, TypeOK, Course, Cleaning, Watching, Recording, runner, procs, files, vars, Run, Dispatch, Statuses, Goto
<1>5. CASE StartProcess
  BY <1>5 DEF StartProcess, TypeOK, Course, Cleaning, Watching, Recording, runner, procs, files, vars, Run, Dispatch, Statuses, Goto
<1>6. CASE Look
  BY <1>6 DEF Look, HasExited, TypeOK, Course, Cleaning, Watching, Recording, runner, procs, files, vars, Run, Dispatch, Statuses
<1>7. CASE Beat
  <2>1. run \in Run /\ ~Expired(beats[run]) /\ beats[run] \in 0 .. Timeout
    BY <1>7 DEF Beat, Course, TypeOK
  <2>2. beats' \in [Run -> 0 .. Timeout]
    <3>1. Timeout > 0 => beats[run] + 1 \in 0 .. Timeout
      BY <2>1 DEF Expired
    <3> QED
      BY <1>7, <3>1 DEF Beat, TypeOK
  <2>3. timedOut' \in BOOLEAN /\ pc' \in {"kill", "loop"}
    BY <1>7 DEF Beat, Expired
  <2> QED
    BY <1>7, <2>2, <2>3 DEF Beat, TypeOK, procs, files
<1>8. CASE Kill
  BY <1>8 DEF Kill, TypeOK, Course, Cleaning, Watching, Recording, runner, procs, files, vars, Run, Dispatch, Statuses, Goto
<1>9. CASE Collect
  BY <1>9 DEF Collect, HasExited, TypeOK, Course, Cleaning, Watching, Recording, runner, procs, files, vars, Run, Dispatch, Statuses, Goto
<1>10. CASE OpenRecord
  BY <1>10 DEF OpenRecord, TypeOK, Course, Cleaning, Watching, Recording, runner, procs, files, vars, Run, Dispatch, Statuses, Goto
<1>11. CASE WriteRecord
  BY <1>11 DEF WriteRecord, TypeOK, Course, Cleaning, Watching, Recording, runner, procs, files, vars, Run, Dispatch, Statuses, Goto, Status
<1>12. CASE Mark
  BY <1>12 DEF Mark, TypeOK, Course, Cleaning, Watching, Recording, runner, procs, files, vars, Run, Dispatch, Statuses, Goto
<1>13. CASE RunnerKilled
  BY <1>13 DEF RunnerKilled, TypeOK, Course, Cleaning, Watching, Recording, runner, procs, files, vars, Run, Dispatch, Statuses
<1>14. CASE \E r \in Run : Persist(r)
  <2> PICK r \in Run : Persist(r)
    BY <1>14
  <2> QED
    <3>1. next' \in [Run -> 1 .. NDispatch + 1]
      BY DEF Persist, TypeOK
    <3>2. next[r] \in Dispatch
      <4>1. next[r] \in 1 .. NDispatch + 1 /\ next[r] <= NDispatch
        BY DEF Persist, TypeOK
      <4> QED
        BY <4>1 DEF Dispatch
    <3>3. results' \subseteq Dispatch
      BY <3>2 DEF Persist, TypeOK
    <3> QED
      BY <3>1, <3>3 DEF Persist, TypeOK, runner, files
<1>15. CASE \E r \in Run : WorkerEnds(r, "ok") \/ WorkerEnds(r, "crashed")
  <2> PICK r \in Run : WorkerEnds(r, "ok") \/ WorkerEnds(r, "crashed")
    BY <1>15
  <2>1. worker' \in [Run -> {"none", "running", "ok", "crashed"}]
    BY DEF WorkerEnds, TypeOK
  <2>2. UNCHANGED <<runner, cmd, next, results, files, reader>>
    BY DEF WorkerEnds
  <2> QED
    BY <2>1, <2>2 DEF TypeOK, runner, files
<1>16. CASE \E r \in Run : CmdExits(r)
  <2> PICK r \in Run : CmdExits(r)
    BY <1>16
  <2> QED
    BY DEF CmdExits, TypeOK, Course, Cleaning, Watching, Recording, runner, procs, files, vars, Run, Dispatch, Statuses
<1>17. CASE Reader
  <2>0. UNCHANGED <<runner, procs, files>>
    BY <1>17 DEF Reader, ReadRecord, ReadProcs, Walk, Report, Forget, Reads
  <2> SUFFICES reader' \in Reports
    BY <2>0 DEF TypeOK, runner, procs, files
  <2> USE DEF TypeOK, Reports, Statuses, Reads
  <2>1. CASE ReadRecord
    <3> DEFINE comp == IF record = "partial" THEN "unreadable" ELSE record
    <3>1. comp \in Statuses \cup {"none", "unreadable"}
      OBVIOUS
    <3>2. reader' = [NoReport EXCEPT !.pc = "procs", !.comp = comp]
      BY <2>1 DEF ReadRecord
    <3> QED
      BY ONLY <3>1, <3>2, NoReportType DEF Reports
  <2>2. CASE ReadProcs
    BY <2>2 DEF ReadProcs, Alive
  <2>3. CASE Walk
    <3> DEFINE seen == IF reader.at \in results THEN [reader EXCEPT !.done = reader.done \cup {reader.at}]
                       ELSE IF reader.current = 0 THEN [reader EXCEPT !.current = reader.at]
                       ELSE reader
    <3>1. reader.at \in Dispatch /\ reader.at + 1 \in 1 .. NDispatch + 1
      <4>1. reader.at \in 1 .. NDispatch + 1 /\ reader.at <= NDispatch
        BY <2>3 DEF Walk
      <4> QED
        BY ONLY <4>1, HostJobAssumption DEF HostJobAssumption, Dispatch
    <3>2. seen \in Reports
      <4>1. reader.at \in 0 .. NDispatch
        BY ONLY <3>1, HostJobAssumption DEF HostJobAssumption, Dispatch
      <4>2. reader.done \cup {reader.at} \in SUBSET Dispatch
        BY <3>1
      <4> QED
        BY <4>1, <4>2
    <3>3. reader' = [seen EXCEPT !.at = reader.at + 1]
      BY <2>3 DEF Walk
    <3> QED
      BY <3>1, <3>2, <3>3
  <2>4. CASE Report
    BY <2>4 DEF Report, State
  <2>5. CASE Forget
    BY <2>5, NoReportType DEF Forget
  <2> QED
    BY <1>17, <2>1, <2>2, <2>3, <2>4, <2>5 DEF Reader
<1>18. CASE UNCHANGED vars
  BY <1>18 DEF vars, TypeOK, Course, Cleaning, Watching, Recording, runner, procs, files, Run, Dispatch, Statuses
<1>19. CASE \E r \in Run : Spawn(r)
  BY <1>19 DEF Spawn, TypeOK, runner, files
<1> QED BY <1>1, <1>2, <1>3, <1>4, <1>5, <1>6, <1>7, <1>8, <1>9, <1>10, <1>11, <1>12, <1>13, <1>14, <1>15, <1>16, <1>17, <1>18, <1>19 DEF Next, Runner, Workers

\* The processes of every run, step by step.
LEMMA ProcessesStep == ASSUME TypeOK, Processes, Course, [Next]_vars PROVE Processes'
<1> USE HostJobAssumption DEF HostJobAssumption
<1>1. CASE Begin
  BY <1>1 DEF Begin, TypeOK, Processes, ProcessesOf, Course, runner, procs, files, vars, Run, Dispatch, Cleaning, Watching, Recording
<1>2. CASE CleanMarker("cleanDone", "cleanFailed", "DONE")
  BY <1>2 DEF CleanMarker, TypeOK, Processes, ProcessesOf, Course, runner, procs, files, vars, Run, Dispatch, Cleaning, Watching, Recording, Goto
<1>3. CASE CleanMarker("cleanFailed", "cleanRecord", "FAILED")
  BY <1>3 DEF CleanMarker, TypeOK, Processes, ProcessesOf, Course, runner, procs, files, vars, Run, Dispatch, Cleaning, Watching, Recording, Goto
<1>4. CASE CleanRecord
  BY <1>4 DEF CleanRecord, TypeOK, Processes, ProcessesOf, Course, runner, procs, files, vars, Run, Dispatch, Cleaning, Watching, Recording, Goto
<1>5. CASE StartProcess
  BY <1>5 DEF StartProcess, TypeOK, Processes, ProcessesOf, Course, runner, procs, files, vars, Run, Dispatch, Cleaning, Watching, Recording, Goto
<1>6. CASE Look
  BY <1>6 DEF Look, HasExited, TypeOK, Processes, ProcessesOf, Course, runner, procs, files, vars, Run, Dispatch, Cleaning, Watching, Recording
<1>7. CASE Beat
  BY <1>7 DEF Beat, Expired, TypeOK, Processes, ProcessesOf, Course, runner, procs, files, vars, Run, Dispatch, Cleaning, Watching, Recording
<1>8. CASE Kill
  BY <1>8 DEF Kill, TypeOK, Processes, ProcessesOf, Course, runner, procs, files, vars, Run, Dispatch, Cleaning, Watching, Recording, Goto
<1>9. CASE Collect
  BY <1>9 DEF Collect, HasExited, TypeOK, Processes, ProcessesOf, Course, runner, procs, files, vars, Run, Dispatch, Cleaning, Watching, Recording, Goto
<1>10. CASE OpenRecord
  BY <1>10 DEF OpenRecord, TypeOK, Processes, ProcessesOf, Course, runner, procs, files, vars, Run, Dispatch, Cleaning, Watching, Recording, Goto
<1>11. CASE WriteRecord
  BY <1>11 DEF WriteRecord, TypeOK, Processes, ProcessesOf, Course, runner, procs, files, vars, Run, Dispatch, Cleaning, Watching, Recording, Goto
<1>12. CASE Mark
  BY <1>12 DEF Mark, TypeOK, Processes, ProcessesOf, Course, runner, procs, files, vars, Run, Dispatch, Cleaning, Watching, Recording, Goto
<1>13. CASE RunnerKilled
  BY <1>13 DEF RunnerKilled, TypeOK, Processes, ProcessesOf, Course, runner, procs, files, vars, Run, Dispatch, Cleaning, Watching, Recording
<1>14. CASE \E r \in Run : Persist(r)
  <2> PICK r \in Run : Persist(r)
    BY <1>14
  <2>1. UNCHANGED <<run, cmd, worker>> /\ worker[r] = "running" /\ results' = results \cup {next[r]}
    BY DEF Persist, runner
  <2>2. next[r] \in Nat /\ next'[r] = next[r] + 1 /\ \A q \in Run : q # r => next'[q] = next[q]
    <3>1. next[r] \in 1 .. NDispatch + 1
      BY DEF TypeOK
    <3> QED
      BY <3>1 DEF Persist, TypeOK
  <2> SUFFICES ASSUME NEW q \in Run PROVE ProcessesOf(q)'
    BY DEF Processes
  <2>3. 1 .. next'[q] - 1 \subseteq results'
    <3>1. 1 .. next[q] - 1 \subseteq results
      BY DEF Processes, ProcessesOf
    <3>2. CASE q = r
      <4>1. next'[q] - 1 = next[r] /\ 1 .. next[r] \subseteq 1 .. next[r] - 1 \cup {next[r]}
        BY ONLY <2>2, <3>2
      <4> QED
        BY <2>1, <3>1, <3>2, <4>1
    <3>3. CASE q # r
      BY <2>1, <2>2, <3>1, <3>3
    <3> QED
      BY <3>2, <3>3
  <2>4. CASE q = r
    BY <2>1, <2>3, <2>4 DEF Processes, ProcessesOf
  <2>5. CASE q # r
    BY <2>1, <2>2, <2>3, <2>5 DEF Processes, ProcessesOf
  <2> QED
    BY <2>4, <2>5
<1>15. CASE \E r \in Run : WorkerEnds(r, "ok") \/ WorkerEnds(r, "crashed")
  <2> PICK r \in Run : WorkerEnds(r, "ok") \/ WorkerEnds(r, "crashed")
    BY <1>15
  <2>1. UNCHANGED <<run, cmd, next, results>> /\ worker[r] = "running"
    BY DEF WorkerEnds, runner
  <2>2. worker'[r] \in {"ok", "crashed"} /\ (worker'[r] = "ok" => next[r] = NDispatch + 1)
    <3>1. next[r] \in 1 .. NDispatch + 1
      BY DEF TypeOK
    <3> QED
      BY <3>1 DEF WorkerEnds, TypeOK
  <2>3. cmd[r] \notin {"none", "ok", "crashed"}
    BY <2>1 DEF Processes, ProcessesOf
  <2> SUFFICES ASSUME NEW q \in Run PROVE ProcessesOf(q)'
    BY DEF Processes
  <2>4. CASE q = r
    BY <2>1, <2>2, <2>3, <2>4 DEF Processes, ProcessesOf
  <2>5. CASE q # r
    <3>1. worker'[q] = worker[q]
      BY <2>5 DEF WorkerEnds, TypeOK
    <3> QED
      BY <2>1, <3>1 DEF Processes, ProcessesOf
  <2> QED
    BY <2>4, <2>5
<1>16. CASE \E r \in Run : CmdExits(r)
  <2> PICK r \in Run : CmdExits(r)
    BY <1>16
  <2> QED
    BY DEF CmdExits, TypeOK, Processes, ProcessesOf, Course, runner, procs, files, vars, Run, Dispatch, Cleaning, Watching, Recording
<1>17. CASE Reader
  BY <1>17 DEF Reader, ReadRecord, ReadProcs, Walk, Report, Forget, Reads, TypeOK, Processes, ProcessesOf, Course, runner, procs, files, vars, Run, Dispatch, Cleaning, Watching, Recording
<1>18. CASE UNCHANGED vars
  BY <1>18 DEF vars, TypeOK, Processes, ProcessesOf, Course, runner, procs, files, Run, Dispatch, Cleaning, Watching, Recording
<1>19. CASE \E r \in Run : Spawn(r)
  BY <1>19 DEF Spawn, TypeOK, Processes, ProcessesOf, runner, files
<1> QED BY <1>1, <1>2, <1>3, <1>4, <1>5, <1>6, <1>7, <1>8, <1>9, <1>10, <1>11, <1>12, <1>13, <1>14, <1>15, <1>16, <1>17, <1>18, <1>19 DEF Next, Runner, Workers

\* The course of the runner, step by step.
LEMMA CourseStep == ASSUME TypeOK, Processes, Course, [Next]_vars PROVE Course'
<1> USE HostJobAssumption DEF HostJobAssumption
<1>1. CASE Begin
  <2>1. run' = run + 1 /\ run + 1 \in Run /\ cmd' = cmd /\ pc' = "cleanDone" /\ ~timedOut'
    BY <1>1 DEF Begin, procs, TypeOK, Run
  <2>2. beats'[run'] = 0 /\ cmd[run'] = "none" /\ ~Expired(0)
    BY <1>1, <2>1 DEF Begin, TypeOK, Processes, ProcessesOf, Expired
  <2> QED
    BY <2>1, <2>2 DEF Course, Cleaning, Watching, Recording
<1>2. CASE CleanMarker("cleanDone", "cleanFailed", "DONE")
  BY <1>2 DEF CleanMarker, TypeOK, Processes, ProcessesOf, Course, runner, procs, files, vars, Run, Cleaning, Watching, Recording, Goto
<1>3. CASE CleanMarker("cleanFailed", "cleanRecord", "FAILED")
  BY <1>3 DEF CleanMarker, TypeOK, Processes, ProcessesOf, Course, runner, procs, files, vars, Run, Cleaning, Watching, Recording, Goto
<1>4. CASE CleanRecord
  BY <1>4 DEF CleanRecord, TypeOK, Processes, ProcessesOf, Course, runner, procs, files, vars, Run, Cleaning, Watching, Recording, Goto
<1>5. CASE StartProcess
  BY <1>5 DEF StartProcess, TypeOK, Processes, ProcessesOf, Course, runner, procs, files, vars, Run, Cleaning, Watching, Recording, Goto
<1>6. CASE Look
  BY <1>6 DEF Look, HasExited, TypeOK, Processes, ProcessesOf, Course, runner, procs, files, vars, Run, Cleaning, Watching, Recording
<1>7. CASE Beat
  <2>1. /\ run' = run /\ cmd' = cmd /\ run \in Run /\ cmd[run] # "none" /\ cmd[run] # "killed"
        /\ timedOut' = Expired(beats'[run]) /\ pc' = IF timedOut' THEN "kill" ELSE "loop"
    BY <1>7 DEF Beat, procs, Course, Watching
  <2> QED
    BY <2>1 DEF Course, Cleaning, Watching, Recording
<1>8. CASE Kill
  BY <1>8 DEF Kill, TypeOK, Processes, ProcessesOf, Course, runner, procs, files, vars, Run, Cleaning, Watching, Recording, Goto
<1>9. CASE Collect
  BY <1>9 DEF Collect, HasExited, TypeOK, Processes, ProcessesOf, Course, runner, procs, files, vars, Run, Cleaning, Watching, Recording, Goto
<1>10. CASE OpenRecord
  BY <1>10 DEF OpenRecord, TypeOK, Processes, ProcessesOf, Course, runner, procs, files, vars, Run, Cleaning, Watching, Recording, Goto
<1>11. CASE WriteRecord
  BY <1>11 DEF WriteRecord, TypeOK, Processes, ProcessesOf, Course, runner, procs, files, vars, Run, Cleaning, Watching, Recording, Goto
<1>12. CASE Mark
  BY <1>12 DEF Mark, TypeOK, Processes, ProcessesOf, Course, runner, procs, files, vars, Run, Cleaning, Watching, Recording, Goto
<1>13. CASE RunnerKilled
  BY <1>13 DEF RunnerKilled, TypeOK, Processes, ProcessesOf, Course, runner, procs, files, vars, Run, Cleaning, Watching, Recording
<1>14. CASE \E r \in Run : Persist(r)
  <2> PICK r \in Run : Persist(r)
    BY <1>14
  <2> QED
    BY DEF Persist, Course, runner
<1>15. CASE \E r \in Run : WorkerEnds(r, "ok") \/ WorkerEnds(r, "crashed")
  <2> PICK r \in Run : WorkerEnds(r, "ok") \/ WorkerEnds(r, "crashed")
    BY <1>15
  <2> QED
    BY DEF WorkerEnds, Course, runner
<1>16. CASE \E r \in Run : CmdExits(r)
  <2> PICK r \in Run : CmdExits(r)
    BY <1>16
  <2> QED
    BY DEF CmdExits, TypeOK, Processes, ProcessesOf, Course, runner, procs, files, vars, Run, Cleaning, Watching, Recording
<1>17. CASE Reader
  BY <1>17 DEF Reader, ReadRecord, ReadProcs, Walk, Report, Forget, Reads, TypeOK, Processes, ProcessesOf, Course, runner, procs, files, vars, Run, Cleaning, Watching, Recording
<1>18. CASE UNCHANGED vars
  BY <1>18 DEF vars, TypeOK, Processes, ProcessesOf, Course, runner, procs, files, Run, Cleaning, Watching, Recording
<1>19. CASE \E r \in Run : Spawn(r)
  BY <1>19 DEF Spawn, Course, runner, Watching, Recording, Cleaning
<1> QED BY <1>1, <1>2, <1>3, <1>4, <1>5, <1>6, <1>7, <1>8, <1>9, <1>10, <1>11, <1>12, <1>13, <1>14, <1>15, <1>16, <1>17, <1>18, <1>19 DEF Next, Runner, Workers

\* Once the runner has its exit code, what it will write is what happened.
LEMMA StatusBacked == ASSUME TypeOK, Processes, Course, pc \in Recording PROVE Backed(Status, run)
<1> run \in Run /\ ProcessesOf(run)
  BY DEF Course, Processes, Recording
<1>1. CASE timedOut
  BY <1>1 DEF Status, Backed, Course, Watching, Recording
<1>2. CASE ~timedOut
  <2>1. exitCode = cmd[run] /\ exitCode \in {"ok", "crashed"}
    BY <1>2 DEF Course
  <2>2. exitCode = "ok" => Dispatch \subseteq results
    <3>1. exitCode = "ok" => next[run] = NDispatch + 1
      BY <2>1 DEF ProcessesOf
    <3>2. next[run] = NDispatch + 1 => next[run] - 1 = NDispatch
      BY HostJobAssumption DEF HostJobAssumption
    <3> QED
      BY <3>1, <3>2 DEF ProcessesOf, Dispatch
  <2>3. Status = IF exitCode = "ok" THEN "DONE" ELSE "FAILED"
    BY <1>2, <2>1 DEF Status
  <2>4. ~Expired(beats[run])
    BY <1>2 DEF Course, Recording
  <2> QED
    BY <2>1, <2>2, <2>3, <2>4 DEF Backed, ProcessesOf
<1> QED
  BY <1>1, <1>2

\* What backs a record is never undone: a run that has begun is not begun again,
\* processes that ended stay ended, results stay on disk, and only the run that is
\* being watched grows older.
LEMMA BackedStays ==
  ASSUME TypeOK, Processes, Course, [Next]_vars, NEW s \in Statuses, NEW r \in 1 .. run, Backed(s, r),
         pc \in Cleaning \cup Watching => r # run
  PROVE  r \in 1 .. run' /\ Backed(s, r)'
<1> r \in Run /\ run \in 0 .. MaxRuns
  BY HostJobAssumption DEF HostJobAssumption, TypeOK, Run
<1> cmd[r] # "none"
  BY DEF Backed
<1>1. CASE Begin
  <2>1. run' = run + 1 /\ r \in 1 .. run'
    BY <1>1 DEF Begin
  <2>2. beats'[r] = beats[r]
    BY <1>1 DEF Begin, TypeOK
  <2> QED
    BY <1>1, <2>1, <2>2 DEF Begin, Backed, procs
<1>2. CASE StartProcess
  <2>1. pc = "start" /\ r # run
    BY <1>2 DEF StartProcess, Goto, Course, Cleaning
  <2> QED
    BY <1>2, <2>1 DEF StartProcess, Backed, TypeOK
<1>3. CASE Kill
  <2>1. cmd'[r] = cmd[r]
    BY <1>3 DEF Kill, Goto, Watching, TypeOK
  <2> QED
    BY <1>3, <2>1 DEF Kill, Backed
<1>4. CASE \E q \in Run : Persist(q)
  <2> PICK q \in Run : Persist(q)
    BY <1>4
  <2> QED
    BY DEF Persist, runner, Backed
<1>5. CASE \E q \in Run : WorkerEnds(q, "ok") \/ WorkerEnds(q, "crashed")
  <2> PICK q \in Run : WorkerEnds(q, "ok") \/ WorkerEnds(q, "crashed")
    BY <1>5
  <2>1. worker[q] = "running" /\ worker' \in {[worker EXCEPT ![q] = "ok"], [worker EXCEPT ![q] = "crashed"]}
    BY DEF WorkerEnds
  <2>2. s # "TIMEOUT" => r # q
    BY <2>1 DEF Backed, Statuses
  <2> QED
    BY <2>1, <2>2 DEF WorkerEnds, runner, Backed, TypeOK
<1>6. CASE \E q \in Run : CmdExits(q)
  <2> PICK q \in Run : CmdExits(q)
    BY <1>6
  <2>1. s # "TIMEOUT" => r # q
    BY DEF CmdExits, Backed, Statuses
  <2> QED
    BY <2>1 DEF CmdExits, runner, Backed, TypeOK
<1>7. CASE UNCHANGED <<procs, run, beats>>
  BY <1>7 DEF procs, Backed
<1>9. CASE \E q \in Run : Spawn(q)
  <2> PICK q \in Run : Spawn(q)
    BY <1>9
  <2>1. s # "TIMEOUT" => r # q
    BY DEF Spawn, Backed
  <2> QED
    BY <2>1 DEF Spawn, runner, Backed, TypeOK
<1>10. CASE Beat
  <2>1. run \in Run /\ r # run
    BY <1>10 DEF Beat, Course, Watching
  <2>2. beats'[r] = beats[r]
    BY <1>10, <2>1 DEF Beat, TypeOK
  <2> QED
    BY <1>10, <2>2 DEF Beat, procs, Backed
<1>8. Next => Begin \/ StartProcess \/ Kill \/ Beat \/ Workers \/ UNCHANGED <<procs, run, beats>>
  BY DEF Next, Runner, CleanMarker, CleanRecord, Look, Collect, OpenRecord, WriteRecord, Mark, RunnerKilled,
     Reader, ReadRecord, ReadProcs, Walk, Report, Forget, Reads, runner
<1> QED
  BY <1>1, <1>2, <1>3, <1>4, <1>5, <1>6, <1>7, <1>8, <1>9, <1>10 DEF Workers, vars, runner

\* The files, step by step: what a step does not write it leaves backed.
LEMMA WrittenStep == ASSUME TypeOK, Processes, Course, Written, [Next]_vars PROVE Written'
<1> DEFINE Some == record \in Statuses =>
                     \E r \in 1 .. run : Backed(record, r) /\ (pc \in Cleaning \cup Watching => r # run)
<1> DEFINE Rest ==
      /\ pc \in {"mark", "ended"} => record = Status
      /\ pc = "cleanFailed" => "DONE" \notin markers
      /\ pc \in {"cleanRecord", "start", "openRecord", "writeRecord", "mark"} \cup Watching => markers = {}
      /\ MarkerHasRecord
<1>1. ASSUME record' = record,
             pc' \in Cleaning \cup Watching => run' = run + 1 \/ (run' = run /\ pc \in Cleaning \cup Watching)
      PROVE  Some'
  <2> SUFFICES ASSUME record \in Statuses
               PROVE  \E r \in 1 .. run' : Backed(record, r)' /\ (pc' \in Cleaning \cup Watching => r # run')
    BY <1>1
  <2>1. PICK r \in 1 .. run : Backed(record, r) /\ (pc \in Cleaning \cup Watching => r # run)
    BY DEF Written
  <2>2. r \in 1 .. run' /\ Backed(record, r)'
    BY <1>1, <2>1, BackedStays
  <2>3. pc' \in Cleaning \cup Watching => r # run'
    <3>1. run \in Nat /\ r <= run
      BY HostJobAssumption DEF HostJobAssumption, TypeOK
    <3> QED
      BY <1>1, <2>1, <3>1
  <2> QED
    BY <2>2, <2>3
<1>2. CASE Begin
  <2>1. Rest'
    BY <1>2 DEF Begin, files, Written, MarkerHasRecord, Watching
  <2>2. Some'
    BY <1>1, <1>2 DEF Begin, Goto, runner, files, Cleaning, Watching
  <2> QED
    BY <2>1, <2>2 DEF Written
<1>3. CASE CleanMarker("cleanDone", "cleanFailed", "DONE")
  <2>1. Rest'
    BY <1>3 DEF CleanMarker, Goto, Written, MarkerHasRecord, Watching
  <2>2. Some'
    BY <1>1, <1>3 DEF CleanMarker, Goto, runner, files, Cleaning, Watching
  <2> QED
    BY <2>1, <2>2 DEF Written
<1>4. CASE CleanMarker("cleanFailed", "cleanRecord", "FAILED")
  <2>1. markers' = {}
    BY <1>4 DEF CleanMarker, Goto, Written, TypeOK
  <2>2. Rest'
    BY <1>4, <2>1 DEF CleanMarker, Goto, MarkerHasRecord
  <2>3. Some'
    BY <1>1, <1>4 DEF CleanMarker, Goto, runner, files, Cleaning, Watching
  <2> QED
    BY <2>2, <2>3 DEF Written
<1>5. CASE CleanRecord
  <2>1. Rest'
    BY <1>5 DEF CleanRecord, Goto, Written, MarkerHasRecord
  <2>2. Some'
    BY <1>1, <1>5 DEF CleanRecord, Goto, Statuses, Cleaning, Watching
  <2> QED
    BY <2>1, <2>2 DEF Written
<1>6. CASE StartProcess
  <2>1. Rest'
    BY <1>6 DEF StartProcess, Goto, files, Written, MarkerHasRecord, Watching
  <2>2. Some'
    BY <1>1, <1>6 DEF StartProcess, Goto, runner, files, Cleaning, Watching
  <2> QED
    BY <2>1, <2>2 DEF Written
<1>7. CASE Look
  <2>1. Rest'
    BY <1>7 DEF Look, files, Written, MarkerHasRecord, Watching
  <2>2. Some'
    BY <1>1, <1>7 DEF Look, Goto, runner, files, Cleaning, Watching
  <2> QED
    BY <2>1, <2>2 DEF Written
<1>8. CASE Beat
  <2>1. Rest'
    BY <1>8 DEF Beat, files, Written, MarkerHasRecord, Watching
  <2>2. Some'
    BY <1>1, <1>8 DEF Beat, Goto, runner, files, Cleaning, Watching
  <2> QED
    BY <2>1, <2>2 DEF Written
<1>9. CASE Kill
  <2>1. Rest'
    BY <1>9 DEF Kill, Goto, files, Written, MarkerHasRecord, Watching
  <2>2. Some'
    BY <1>1, <1>9 DEF Kill, Goto, runner, files, Cleaning, Watching
  <2> QED
    BY <2>1, <2>2 DEF Written
<1>10. CASE Collect
  <2>1. Rest'
    BY <1>10 DEF Collect, Goto, files, Written, MarkerHasRecord, Watching
  <2>2. Some'
    BY <1>1, <1>10 DEF Collect, Goto, runner, files, Cleaning, Watching
  <2> QED
    BY <2>1, <2>2 DEF Written
<1>11. CASE OpenRecord
  <2>1. Rest'
    BY <1>11 DEF OpenRecord, Goto, Written, MarkerHasRecord
  <2>2. Some'
    BY <1>11 DEF OpenRecord, Statuses
  <2> QED
    BY <2>1, <2>2 DEF Written
<1>12. CASE WriteRecord
  <2>1. pc = "writeRecord" /\ pc' = "mark" /\ record' = Status /\ Status' = Status /\ markers' = {}
    BY <1>12 DEF WriteRecord, Goto, Written, Status
  <2>2. Backed(Status, run) /\ run' = run
    BY <1>12, <2>1, StatusBacked DEF WriteRecord, Recording
  <2>3. Backed(Status, run)' /\ run \in 1 .. run
    <3>1. UNCHANGED <<worker, cmd, results, beats>>
      BY <1>12 DEF WriteRecord, procs
    <3>2. run \in 1 .. run
      BY <2>1, HostJobAssumption DEF HostJobAssumption, Course, Run, Recording
    <3> QED
      BY <2>1, <2>2, <3>1, <3>2 DEF Backed
  <2>4. Rest'
    BY <2>1 DEF MarkerHasRecord, Watching
  <2>5. Some'
    BY <2>1, <2>2, <2>3 DEF Cleaning, Watching
  <2> QED
    BY <2>4, <2>5 DEF Written
<1>13. CASE Mark
  <2>1. pc = "mark" /\ pc' = "ended" /\ record = Status /\ record' = record /\ Status' = Status /\ markers = {}
    BY <1>13 DEF Mark, Goto, Written, Status
  <2>2. Backed(Status, run)
    BY <2>1, StatusBacked DEF Recording
  <2>3. MarkerHasRecord'
    <3>1. markers' = {IF Status = "DONE" THEN "DONE" ELSE "FAILED"}
      BY <1>13, <2>1 DEF Mark
    <3>2. Status \in {"DONE", "FAILED", "TIMEOUT"}
      BY <2>2 DEF Backed
    <3> QED
      BY <2>1, <3>1, <3>2 DEF MarkerHasRecord
  <2>4. Rest'
    BY <2>1, <2>3 DEF Watching
  <2>5. Some'
    BY <1>1, <2>1 DEF Cleaning, Watching
  <2> QED
    BY <2>4, <2>5 DEF Written
<1>14. CASE RunnerKilled
  <2>1. Rest'
    BY <1>14 DEF RunnerKilled, files, Written, MarkerHasRecord, Watching
  <2>2. Some'
    BY <1>1, <1>14 DEF RunnerKilled, Goto, runner, files, Cleaning, Watching
  <2> QED
    BY <2>1, <2>2 DEF Written
<1>15. CASE UNCHANGED <<runner, files>>
  <2>1. Rest'
    BY <1>15 DEF runner, files, Written, MarkerHasRecord, Watching, Status
  <2>2. Some'
    BY <1>1, <1>15 DEF files, Goto, runner, files, Cleaning, Watching
  <2> QED
    BY <2>1, <2>2 DEF Written
<1>16. Workers \/ Reader \/ UNCHANGED vars => UNCHANGED <<runner, files>>
  BY DEF Workers, Spawn, Persist, WorkerEnds, CmdExits, Reader, ReadRecord, ReadProcs, Walk, Report, Forget, Reads, vars
<1> QED
  BY <1>2, <1>3, <1>4, <1>5, <1>6, <1>7, <1>8, <1>9, <1>10, <1>11, <1>12, <1>13, <1>14, <1>15, <1>16 DEF Next, Runner

\* The reader, step by step.  Results are never removed, so what it has found it
\* may still say when it reports; a DONE record it read first had them all.
LEMMA SeenStep == ASSUME TypeOK, Written, Seen, [Next]_vars PROVE Seen'
<1>1. results \subseteq results'
  BY DEF Next, Runner, Workers, Begin, CleanMarker, CleanRecord, StartProcess, Look, Beat, Kill, Collect, OpenRecord,
     WriteRecord, Mark, RunnerKilled, Spawn, Persist, WorkerEnds, CmdExits, Reader, ReadRecord, ReadProcs, Walk, Report,
     Forget, Reads, procs, vars
<1>2. CASE reader' = reader
  BY <1>1, <1>2 DEF Seen, State
<1>3. CASE Reader
  <2> results' = results
    BY <1>3 DEF Reader, ReadRecord, ReadProcs, Walk, Report, Forget, Reads, procs
  <2>1. CASE ReadRecord
    <3>1. record = "DONE" => Dispatch \subseteq results
      BY DEF Written, Backed, Statuses
    <3>2. reader' = [NoReport EXCEPT !.pc = "procs", !.comp = IF record = "partial" THEN "unreadable" ELSE record]
      BY <2>1 DEF ReadRecord, Reads
    <3>3. /\ reader'.pc = "procs" /\ reader'.done = {} /\ reader'.current = 0 /\ reader'.at = 1
          /\ reader'.comp = "DONE" => record = "DONE"
      BY <3>2 DEF NoReport
    <3> QED
      BY <3>1, <3>3 DEF Seen
  <2>2. CASE ReadProcs
    <3>1. reader.pc = "procs" /\ \E found \in {FALSE, Alive} : reader' = [reader EXCEPT !.pc = "walk", !.alive = found]
      BY <2>2 DEF ReadProcs, Reads
    <3>2. /\ reader'.pc = "walk" /\ reader'.done = reader.done /\ reader'.current = reader.current
          /\ reader'.at = reader.at /\ reader'.comp = reader.comp
      BY <3>1 DEF TypeOK, Reports
    <3> QED
      BY <3>1, <3>2 DEF Seen
  <2>3. CASE Walk
    <3>1. reader.pc = "walk" /\ reader.at \in 1 .. NDispatch /\ reader.current \in 0 .. NDispatch
      <4>1. reader.pc = "walk" /\ reader.at <= NDispatch /\ reader.at \in 1 .. NDispatch + 1 /\ reader.current \in 0 .. NDispatch
        BY <2>3 DEF Walk, TypeOK, Reports
      <4> QED
        BY ONLY <4>1, HostJobAssumption DEF HostJobAssumption
    <3>2. CASE reader.at \in results
      <4>1. reader' = [reader EXCEPT !.done = reader.done \cup {reader.at}, !.at = reader.at + 1]
        BY <2>3, <3>2 DEF Walk, Reads
      <4>2. /\ reader'.pc = "walk" /\ reader'.done = reader.done \cup {reader.at} /\ reader'.at = reader.at + 1
            /\ reader'.current = reader.current /\ reader'.comp = reader.comp
        BY <3>1, <4>1 DEF TypeOK, Reports
      <4> QED
        BY <3>1, <3>2, <4>2 DEF Seen
    <3>3. CASE reader.at \notin results /\ reader.current = 0
      <4>1. reader' = [reader EXCEPT !.current = reader.at, !.at = reader.at + 1]
        BY <2>3, <3>3 DEF Walk, Reads
      <4>2. /\ reader'.pc = "walk" /\ reader'.done = reader.done /\ reader'.at = reader.at + 1
            /\ reader'.current = reader.at /\ reader'.comp = reader.comp
        BY <3>1, <4>1 DEF TypeOK, Reports
      <4>3. reader.comp # "DONE"
        BY <3>1, <3>3 DEF Seen, Dispatch
      <4> QED
        BY <3>1, <3>3, <4>2, <4>3 DEF Seen
    <3>4. CASE reader.at \notin results /\ reader.current # 0
      <4>1. reader' = [reader EXCEPT !.at = reader.at + 1]
        BY <2>3, <3>4 DEF Walk, Reads
      <4>2. /\ reader'.pc = "walk" /\ reader'.done = reader.done /\ reader'.at = reader.at + 1
            /\ reader'.current = reader.current /\ reader'.comp = reader.comp
        BY <3>1, <4>1 DEF TypeOK, Reports
      <4> QED
        BY <3>1, <3>4, <4>2 DEF Seen
    <3> QED
      BY <3>2, <3>3, <3>4
  <2>4. CASE Report
    <3>1. reader' = [reader EXCEPT !.pc = "reported", !.state = State] /\ reader.pc = "walk" /\ reader.at > NDispatch
      BY <2>4 DEF Report, Reads
    <3>2. /\ reader'.pc = "reported" /\ reader'.done = reader.done /\ reader'.current = reader.current
          /\ reader'.at = reader.at /\ reader'.comp = reader.comp /\ reader'.alive = reader.alive /\ reader'.state = State
      BY <3>1 DEF TypeOK, Reports
    <3>3. reader.at = NDispatch + 1
      <4>1. reader.at \in 1 .. NDispatch + 1
        BY DEF TypeOK, Reports
      <4> QED
        BY ONLY <3>1, <4>1, HostJobAssumption DEF HostJobAssumption
    <3>4. State' = State
      BY <3>2 DEF State
    <3> QED
      BY <3>1, <3>2, <3>3, <3>4 DEF Seen
  <2>5. CASE Forget
    <3>1. reader'.pc = "idle" /\ reader'.done = {} /\ reader'.current = 0 /\ reader'.at = 1
      BY <2>5 DEF Forget, Reads, NoReport
    <3> QED
      BY <3>1 DEF Seen
  <2> QED
    BY <1>3, <2>1, <2>2, <2>3, <2>4, <2>5 DEF Reader
<1>4. Next => Reader \/ reader' = reader
  BY DEF Next, Runner, Workers, Begin, CleanMarker, CleanRecord, StartProcess, Look, Beat, Kill, Collect, OpenRecord,
     WriteRecord, Mark, RunnerKilled, Spawn, Persist, WorkerEnds, CmdExits
<1> QED
  BY <1>2, <1>3, <1>4 DEF vars

-----------------------------------------------------------------------------
\* The inductive invariant.
LEMMA Invariance == Spec => []IInv
<1>1. IInv /\ [Next]_vars => IInv'
  BY TypeStep, ProcessesStep, CourseStep, WrittenStep, SeenStep DEF IInv
<1> QED
  BY Initially, <1>1, PTL DEF Spec

\* Type correctness.
THEOREM TypeCorrect == Spec => []TypeOK
<1>1. IInv => TypeOK
  BY DEF IInv
<1> QED
  BY Invariance, <1>1, PTL

\* run_host_job.ps1: completion.json says what happened, whatever is killed, times
\* out or was left by earlier runs.
THEOREM RecordTruthCorrect == Spec => []RecordTruth
<1>1. IInv => RecordTruth
  <2> SUFFICES ASSUME IInv PROVE RecordTruth
    OBVIOUS
  <2>1. pc \in {"mark", "ended"} => Backed(record, run)
    BY StatusBacked DEF IInv, Written, Recording
  <2> QED
    BY <2>1 DEF IInv, Written, RecordTruth
<1> QED
  BY Invariance, <1>1, PTL

\* run_host_job.ps1: a marker has its complete record beside it.
THEOREM MarkerHasRecordCorrect == Spec => []MarkerHasRecord
<1>1. IInv => MarkerHasRecord
  BY DEF IInv, Written
<1> QED
  BY Invariance, <1>1, PTL

\* p16j_job_status.py: a report agrees with itself and with the disk.
THEOREM ReportAgreesCorrect == Spec => []ReportAgrees
<1>1. IInv => ReportAgrees
  <2> SUFFICES ASSUME IInv, reader.pc = "reported" PROVE ReportAgrees
    BY DEF ReportAgrees
  <2>1. reader.at - 1 = NDispatch
    BY HostJobAssumption DEF HostJobAssumption, IInv, Seen
  <2>2. reader.current = 0 => reader.done = Dispatch
    BY <2>1 DEF IInv, Seen, Dispatch
  <2>3. reader.state \in {"DONE", "FINISHED_NO_COMPLETION_JSON"} => reader.current = 0
    <3>1. reader.state = State
      BY DEF IInv, Seen
    <3>2. State = "DONE" => reader.comp = "DONE"
      BY DEF State
    <3>3. State = "FINISHED_NO_COMPLETION_JSON" => reader.current = 0
      BY DEF State, IInv, TypeOK, Reports, Statuses
    <3> QED
      BY <3>1, <3>2, <3>3 DEF IInv, Seen
  <2> QED
    BY <2>2, <2>3 DEF ReportAgrees, IInv, Seen
<1> QED
  BY Invariance, <1>1, PTL
=============================================================================
