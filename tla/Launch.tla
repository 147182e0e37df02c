-------------------------------- MODULE Launch --------------------------------
(***************************************************************************)
(* The launches of one run directory (run_experiment in                    *)
(* regact/orchestration/experiment.py, orchestration/scheduler.py) and how *)
(* they are stopped (orchestration/signals.py, regact/stop.py): a signal   *)
(* handler's counter shared by all tasks, STOP files in the run directory  *)
(* and in each task's, and a backend whose usage limit ends one task.      *)
(*                                                                         *)
(* `job' is what a unit does: it waits for its turn at the semaphore, the  *)
(* agent thinks ("idle"), a tool of the agent is in flight ("tool"), its   *)
(* loop has saved a verdict and the teardown hooks and the two close()s    *)
(* run ("closing"), or it is over.  `result' is the verdict, which the     *)
(* launch reports when the unit is over: "resumable" stands for every      *)
(* reason a resume continues from but usage_limit.  `record' is the task's *)
(* directory: absent, there with a run that a resume continues ("open"),   *)
(* or with a final reason.  `requests' is the StopSignal, `seen' what a    *)
(* task's FileStop has latched.  `before', `limits', `interrupts',         *)
(* `forced' and `cut' are history variables of one launch, `files' counts  *)
(* what the operator has written.                                          *)
(***************************************************************************)
EXTENDS Integers, FiniteSets

CONSTANTS
  Count,          \* how many units the plan has: task 1 at attempt 0, task 2, ...
  MaxWorkers,     \* parallel_workers is at most this; a launch may change it
  MaxLaunches,    \* bound: launches of the run directory
  MaxInterrupts,  \* bound: SIGINTs in one launch
  MaxFiles        \* bound: STOP files the operator writes, all launches together

ASSUME LaunchAssumption ==
  Count \in Nat /\ MaxWorkers \in Nat \ {0} /\ MaxLaunches \in Nat
  /\ MaxInterrupts \in Nat /\ MaxFiles \in Nat

Tasks == 1..Count

VARIABLES launch, workers, launches, next, job, result, record,
          requests, rootFile, taskFile, seen,
          before, limits, interrupts, files, forced, cut

stopVars == <<requests, rootFile, taskFile, seen>>
operator == <<interrupts, files, forced>>
vars == <<launch, workers, launches, next, job, result, record, stopVars,
          before, limits, operator, cut>>

Verdicts == {"final", "resumable", "usage_limit"}
Files == {"none", "stop", "force"}
Level(file) == CASE file = "none" -> 0 [] file = "stop" -> 1 [] file = "force" -> 2
More(n) == IF n < 2 THEN n + 1 ELSE 2  \* beyond two, one request more is no different
Higher(a, b) == IF a >= b THEN a ELSE b

Running(t) == job[t] \in {"idle", "tool"}
Busy(t) == Running(t) \/ job[t] = "closing"  \* holds a place in the pool
(* Mutants: a task's stop asks only the launch's signal, or only the files. *)
AskParentOnly(t) == requests > 0
AskFilesOnly(t) == seen[t] > 1
(* FileStop.is_set and force_requested, as of the last poll. *)
IsSet(t) == seen[t] > 0 \/ requests > 0
ForceRequested(t) == seen[t] > 1 \/ requests > 1

Init ==
  /\ launch = "off" /\ workers = 1 /\ launches = 0 /\ next = 0
  /\ job = [t \in Tasks |-> "queued"] /\ result = [t \in Tasks |-> "none"]
  /\ record = [t \in Tasks |-> "absent"] /\ before = record
  /\ requests = 0 /\ rootFile = "none" /\ taskFile = [t \in Tasks |-> "none"]
  /\ seen = [t \in Tasks |-> 0]
  /\ limits = 0 /\ interrupts = 0 /\ files = 0 /\ forced = FALSE /\ cut = {}

-----------------------------------------------------------------------------
(* A launch begins and ends. *)

(* clear_stop(root): an old request is not inherited.  A launch that is not
   the first one resumes the directory.                                     *)
StartLaunch ==
  /\ launch = "off" /\ launches < MaxLaunches
  /\ launch' = "on" /\ launches' = launches + 1
  /\ workers' \in 1..MaxWorkers
  /\ rootFile' = "none"
  /\ UNCHANGED <<next, job, result, record, requests, taskFile, seen, before, limits, operator, cut>>

(* The first poll of the unit's FileStop, after clear_stop(out_dir): a unit
   that goes on has seen nothing yet.                                       *)
StopAtStart == requests > 0 \/ Level(rootFile) > 0

(* Mutant: one worker too many. *)
HasRoomForOneMore == Cardinality({u \in Tasks : Busy(u)}) <= workers
HasRoom == Cardinality({u \in Tasks : Busy(u)}) < workers

(* Mutant: an earlier final result is run again. *)
NeverFinished(t) == FALSE
Finished(t) == record[t] = "final"

(* Mutant: the task's directory is made before the stop is looked at. *)
NotStartedTouched(t) ==
  /\ result' = [result EXCEPT ![t] = "not_started"]
  /\ record' = [record EXCEPT ![t] = IF @ = "absent" THEN "open" ELSE @]
NotStarted(t) ==
  /\ result' = [result EXCEPT ![t] = "not_started"]
  /\ UNCHANGED record

(* The semaphore lets the next unit in, in the order of the plan.  run_task may
   raise before it makes the task's directory, or opens the one that is there:
   among several workers that is the unit's result, for one it is Die.       *)
Admit(t) ==
  /\ launch = "on" /\ t = next + 1 /\ t \in Tasks
  /\ HasRoom
  /\ next' = t
  /\ taskFile' = [taskFile EXCEPT ![t] = "none"]
  /\ \/ /\ StopAtStart
        /\ job' = [job EXCEPT ![t] = "over"] /\ NotStarted(t)
     \/ /\ ~ StopAtStart /\ Finished(t)
        /\ job' = [job EXCEPT ![t] = "over"] /\ result' = [result EXCEPT ![t] = "final"]
        /\ UNCHANGED record
     \/ /\ ~ StopAtStart /\ ~ Finished(t)
        /\ job' = [job EXCEPT ![t] = "idle"] /\ record' = [record EXCEPT ![t] = "open"]
        /\ UNCHANGED result
     \/ /\ ~ StopAtStart /\ workers > 1
        /\ job' = [job EXCEPT ![t] = "over"] /\ result' = [result EXCEPT ![t] = "task_error"]
        /\ UNCHANGED record
  /\ UNCHANGED <<launch, workers, launches, requests, rootFile, seen, before, limits, operator, cut>>

Complete == launch = "on" /\ \A t \in Tasks : job[t] = "over"
(* The process is gone, and what only it knew. *)
Gone ==
  /\ launch' = "off" /\ next' = 0 /\ requests' = 0 /\ before' = record
  /\ job' = [t \in Tasks |-> "queued"] /\ result' = [t \in Tasks |-> "none"]
  /\ seen' = [t \in Tasks |-> 0]
  /\ limits' = 0 /\ interrupts' = 0 /\ forced' = FALSE /\ cut' = {}
  /\ UNCHANGED <<launches, record, rootFile, taskFile, files>>

FinishLaunch == Complete /\ Gone /\ workers' = 1

(* The machine or the process dies, or, with one worker, run_task raises: every
   task stays as its directory is.                                           *)
Die == launch = "on" /\ Gone /\ workers' = 1

-----------------------------------------------------------------------------
(* One task while it runs. *)

(* The loop is left: its verdict is on disk before the teardown hooks run, and
   its FileStop is not read any more.                                        *)
Verdict(t, reason) ==
  /\ job' = [job EXCEPT ![t] = "closing"] /\ result' = [result EXCEPT ![t] = reason]
  /\ record' = [record EXCEPT ![t] = IF reason = "final" THEN "final" ELSE "open"]
  /\ seen' = [seen EXCEPT ![t] = 0]
  /\ UNCHANGED <<launch, workers, launches, next, requests, rootFile, taskFile, before, limits, operator>>

ToolStarts(t) ==
  /\ launch = "on" /\ job[t] = "idle"
  /\ job' = [job EXCEPT ![t] = "tool"]
  /\ UNCHANGED <<launch, workers, launches, next, result, record, stopVars, before, limits, operator, cut>>

(* The loop looks at the stop after each event, so after the tool's result. *)
ToolEnds(t) ==
  /\ launch = "on" /\ job[t] = "tool"
  /\ \/ /\ ~ IsSet(t)
        /\ job' = [job EXCEPT ![t] = "idle"]
        /\ UNCHANGED <<launch, workers, launches, next, result, record, stopVars, before, limits, operator, cut>>
     \/ IsSet(t) /\ Verdict(t, "resumable") /\ UNCHANGED cut

(* Once a second, a task's FileStop reads the two STOP files. *)
Poll(t) ==
  /\ launch = "on" /\ Running(t)
  /\ seen' = [seen EXCEPT ![t] = Higher(@, Higher(Level(rootFile), Level(taskFile[t])))]
  /\ UNCHANGED <<launch, workers, launches, next, job, result, record, requests, rootFile, taskFile,
                 before, limits, operator, cut>>

(* Mutant: the tool in flight is abandoned at the first request. *)
MayInterruptAtOnce(t) == IsSet(t)
MayInterrupt(t) == IsSet(t) /\ (job[t] = "tool" => ForceRequested(t))
Interrupted(t) ==
  /\ launch = "on" /\ Running(t) /\ MayInterrupt(t)
  /\ Verdict(t, "resumable")
  /\ cut' = IF job[t] = "tool" THEN cut \cup {t} ELSE cut

(* A final reason, or the backend, the loop or the clock ends the task, with a
   tool in flight or without.                                               *)
TaskEnds(t) ==
  /\ launch = "on" /\ Running(t)
  /\ \E reason \in Verdicts : Verdict(t, reason)
  /\ UNCHANGED cut

(* Mutant: a usage limit ends only its own task. *)
LimitForOne(t) ==
  /\ launch = "on" /\ job[t] = "closing"
  /\ job' = [job EXCEPT ![t] = "over"]
  /\ limits' = IF result[t] = "usage_limit" THEN More(limits) ELSE limits
  /\ UNCHANGED <<launch, workers, launches, next, result, record, stopVars, before, operator, cut>>

(* The hooks have run, the session and the agent are closed: run_task returns.
   A usage limit stops the launch now, the others share the backend.          *)
TaskReturns(t) ==
  /\ launch = "on" /\ job[t] = "closing"
  /\ job' = [job EXCEPT ![t] = "over"]
  /\ IF result[t] = "usage_limit"
       THEN limits' = More(limits) /\ requests' = More(requests)
       ELSE UNCHANGED <<limits, requests>>
  /\ UNCHANGED <<launch, workers, launches, next, result, record, rootFile, taskFile, seen, before,
                 operator, cut>>

(* run_task raises, in its loop or, the verdict being on disk, while it closes:
   among several workers that is the unit's result, for one it is Die.       *)
TaskRaises(t) ==
  /\ launch = "on" /\ Busy(t) /\ workers > 1
  /\ job' = [job EXCEPT ![t] = "over"] /\ result' = [result EXCEPT ![t] = "task_error"]
  /\ seen' = [seen EXCEPT ![t] = 0]
  /\ UNCHANGED <<launch, workers, launches, next, record, requests, rootFile, taskFile, before,
                 limits, operator, cut>>

-----------------------------------------------------------------------------
(* The operator. *)

CtrlC ==
  /\ launch = "on" /\ interrupts < MaxInterrupts
  /\ requests' = More(requests)
  /\ interrupts' = interrupts + 1
  /\ UNCHANGED <<launch, workers, launches, next, job, result, record, rootFile, taskFile, seen,
                 before, limits, files, forced, cut>>

(* python -m regact.stop, for the whole run. *)
StopRun(file) ==
  /\ launch = "on" /\ files < MaxFiles
  /\ rootFile' = file
  /\ files' = files + 1 /\ forced' = (forced \/ file = "force")
  /\ UNCHANGED <<launch, workers, launches, next, job, result, record, requests, taskFile, seen,
                 before, limits, interrupts, cut>>

(* ... and for one task, whose directory has to be there. *)
StopTask(t, file) ==
  /\ launch = "on" /\ files < MaxFiles /\ record[t] # "absent"
  /\ taskFile' = [taskFile EXCEPT ![t] = file]
  /\ files' = files + 1 /\ forced' = (forced \/ file = "force")
  /\ UNCHANGED <<launch, workers, launches, next, job, result, record, requests, rootFile, seen,
                 before, limits, interrupts, cut>>

-----------------------------------------------------------------------------
Manage == StartLaunch \/ FinishLaunch \/ \E t \in Tasks : Admit(t)
Operate ==
  \/ CtrlC
  \/ \E file \in {"stop", "force"} : StopRun(file) \/ \E t \in Tasks : StopTask(t, file)
Run(t) == ToolStarts(t) \/ ToolEnds(t) \/ Poll(t) \/ Interrupted(t) \/ TaskEnds(t)
            \/ TaskReturns(t) \/ TaskRaises(t)
Next == Manage \/ Die \/ Operate \/ \E t \in Tasks : Run(t)

Spec == Init /\ [][Next]_vars

(* The event loop: it lets units in, returns when all are over, and a running
   task polls its stop and obeys it.  No tool is assumed to return, no agent
   to end its task, no hook or close() to end, no operator to act.           *)
FairSpec ==
  /\ Spec
  /\ WF_vars(FinishLaunch \/ \E t \in Tasks : Admit(t) \/ Poll(t) \/ Interrupted(t))

-----------------------------------------------------------------------------
TypeOK ==
  /\ launch \in {"off", "on"} /\ workers \in 1..MaxWorkers /\ launches \in Nat /\ next \in 0..Count
  /\ job \in [Tasks -> {"queued", "idle", "tool", "closing", "over"}]
  /\ result \in [Tasks -> {"none", "not_started"} \cup Verdicts \cup {"task_error"}]
  /\ record \in [Tasks -> {"absent", "open", "final"}] /\ before \in [Tasks -> {"absent", "open", "final"}]
  /\ requests \in 0..2 /\ rootFile \in Files /\ taskFile \in [Tasks -> Files]
  /\ seen \in [Tasks -> 0..2]
  /\ limits \in 0..2 /\ interrupts \in Nat /\ forced \in BOOLEAN
  /\ files \in Nat /\ cut \subseteq Tasks
  /\ Cardinality({t \in Tasks : Busy(t)}) <= workers

(* What the launch returns is what a resume will find: a final reason is on
   disk under every task that is reported with one, a task that is reported as
   not started has its directory untouched, and one with another reason can be
   resumed.  A task_error tells how run_task ended, not what its loop decided:
   the directory may hold a final reason, which a resume does not run again,
   but what was there before is neither lost nor, if final, opened again.     *)
ReportTrue ==
  \A t \in Tasks : job[t] = "over" =>
    CASE result[t] = "final" -> record[t] = "final"
      [] result[t] = "not_started" -> record[t] = before[t]
      [] result[t] = "task_error" -> /\ record[t] = "absent" => before[t] = "absent"
                                     /\ before[t] = "final" => record[t] = "final"
      [] OTHER -> record[t] = "open"

(* A final result is never lost, whatever stops, dies or is started again. *)
FinalKept == [][\A t \in Tasks : record[t] = "final" => record'[t] = "final" /\ ~ Running(t)']_vars

StopAsked == interrupts > 0 \/ limits > 0 \/ rootFile # "none"

(* "tasks not yet started are left untouched": once the launch is told to
   stop, or a task has returned with the usage limit, no waiting task starts. *)
NothingStarts ==
  [][launch = "on" /\ StopAsked =>
       \A t \in Tasks : job[t] = "queued" => ~ Running(t)' /\ record'[t] = record[t]]_vars

(* A tool in flight is abandoned only after a request to force, or after two
   requests of any kind: the limit of a task counts as one.                 *)
CutAfterTwo == cut # {} => forced \/ interrupts + limits > 1

(* What the code does not bound: a tool, and the end of a task, which waits for
   its teardown hooks, for the coordinator's lock, which a command that was
   abandoned may still hold, and for the agent's process.                     *)
ToolsReturn == WF_vars(\E t \in Tasks : ToolEnds(t))
ClosesEnd == WF_vars(\E t \in Tasks : TaskReturns(t))

(* A second request, or one to force that is not taken back, ends the launch
   even if no tool ever returns, as long as the tasks' closes end.           *)
ForceAsked == requests > 1 \/ rootFile = "force"
ForceEnds == ClosesEnd => (launch = "on" /\ ForceAsked ~> launch = "off" \/ ~ ForceAsked)

(* "Each running task finishes its current tool": the launch ends after one
   request if the tools in flight return and the closes end.                *)
StopEnds == ToolsReturn /\ ClosesEnd => (launch = "on" /\ StopAsked ~> launch = "off")

(* "A second interrupt explicitly abandons waiting for in-flight tools", "each
   running task finishes its current tool": no tool is abandoned when nobody
   interrupted twice or forced.                                             *)
ToolsFinish == cut # {} => forced \/ interrupts > 1
=============================================================================
