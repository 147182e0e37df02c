---------------------------- MODULE Launch_proofs ----------------------------
(***************************************************************************)
(* For every number of tasks, workers, launches and interrupts: what a     *)
(* launch reports is what a resume finds, a final result is kept, a launch *)
(* that is told to stop starts nothing, and no tool is abandoned before a  *)
(* second request or a request to force.                                   *)
(***************************************************************************)
EXTENDS Launch, FiniteSetTheorems, TLAPS

(* Types, without the bound on workers. *)
Types ==
  /\ launch \in {"off", "on"} /\ next \in Int
  /\ job \in [Tasks -> {"queued", "idle", "tool", "closing", "over"}]
  /\ result \in [Tasks -> {"none", "not_started"} \cup Verdicts \cup {"task_error"}]
  /\ record \in [Tasks -> {"absent", "open", "final"}]
  /\ before \in [Tasks -> {"absent", "open", "final"}]
  /\ requests \in 0..2 /\ rootFile \in Files /\ taskFile \in [Tasks -> Files]
  /\ seen \in [Tasks -> 0..2]
  /\ limits \in 0..2 /\ interrupts \in Nat /\ forced \in BOOLEAN

(* A task that runs has its directory open, one that closes has its verdict on
   disk, and one that waits has the directory as it was: no launch starts a
   task whose directory holds a final reason.                               *)
RecordInv ==
  /\ \A t \in Tasks : job[t] \in {"idle", "tool"} => record[t] = "open"
  /\ \A t \in Tasks : job[t] = "closing" =>
       /\ result[t] \in Verdicts
       /\ record[t] = IF result[t] = "final" THEN "final" ELSE "open"
  /\ \A t \in Tasks : job[t] = "queued" => record[t] = before[t]
  /\ \A t \in Tasks : job[t] \in {"idle", "tool", "closing"} => before[t] # "final"
  /\ \A t \in Tasks : launch = "off" \/ t > next => job[t] = "queued"

(* Every request of the signal is an interrupt or a usage limit of this
   launch, and every request to force was made in it: a STOP file of an
   earlier one is gone before it could be read.                             *)
StopInv ==
  /\ requests <= interrupts + limits
  /\ interrupts > 0 \/ limits > 0 => requests > 0
  /\ launch = "on" /\ rootFile = "force" => forced
  /\ \A t \in Tasks : job[t] # "queued" /\ taskFile[t] = "force" => forced
  /\ \A t \in Tasks : seen[t] > 1 => forced
  /\ \A t \in Tasks : job[t] = "queued" => seen[t] = 0

LaunchInv == Types /\ RecordInv /\ StopInv /\ ReportTrue /\ CutAfterTwo

LEMMA TasksInt == \A t \in Tasks : t \in Int
BY LaunchAssumption DEF Tasks

LEMMA Levels ==
  /\ \A f \in Files : Level(f) \in 0..2 /\ (Level(f) > 1 <=> f = "force") /\ (Level(f) > 0 <=> f # "none")
  /\ \A a, b \in 0..2 : Higher(a, b) \in 0..2 /\ Higher(a, b) >= a /\ Higher(a, b) >= b
                       /\ (Higher(a, b) = a \/ Higher(a, b) = b)
  /\ \A n \in 0..2 : More(n) \in 0..2 /\ More(n) > 0 /\ More(n) >= n /\ More(n) <= n + 1 /\ (More(n) = n + 1 \/ More(n) = 2)
BY DEF Files, Level, Higher, More

(* Types are kept. *)
LEMMA TypesStep == Types /\ [Next]_vars => Types'
<1> SUFFICES ASSUME Types, [Next]_vars PROVE Types'
  OBVIOUS
<1> USE DEF Types, stopVars, operator
<1>1. CASE StartLaunch
  BY <1>1, Levels DEF StartLaunch, Files
<1>2. CASE FinishLaunch
  <2>1. forced' \in BOOLEAN
    BY <1>2 DEF FinishLaunch, Complete, Gone
  <2>2. QED
    BY <1>2, <2>1 DEF FinishLaunch, Complete, Gone
<1>3. ASSUME NEW t \in Tasks, Admit(t) PROVE Types'
  BY <1>3, Levels DEF Admit, NotStarted, Files, Verdicts
<1>4. CASE Die
  <2>1. forced' \in BOOLEAN
    BY <1>4 DEF Die, Gone
  <2>2. QED
    BY <1>4, <2>1 DEF Die, Gone
<1>5. CASE CtrlC
  BY <1>5, Levels DEF CtrlC
<1>6. ASSUME NEW file \in {"stop", "force"}, StopRun(file) PROVE Types'
  BY <1>6, Levels DEF StopRun, Files
<1>7. ASSUME NEW file \in {"stop", "force"}, NEW t \in Tasks, StopTask(t, file) PROVE Types'
  BY <1>7, Levels DEF StopTask, Files
<1>8. ASSUME NEW t \in Tasks, ToolStarts(t) PROVE Types'
  BY <1>8, Levels DEF ToolStarts
<1>9. ASSUME NEW t \in Tasks, ToolEnds(t) PROVE Types'
  BY <1>9, Levels DEF ToolEnds, Verdict, Verdicts, IsSet
<1>10. ASSUME NEW t \in Tasks, Poll(t) PROVE Types'
  BY <1>10, Levels DEF Poll, Running
<1>11. ASSUME NEW t \in Tasks, Interrupted(t) PROVE Types'
  BY <1>11, Levels DEF Interrupted, Verdict, Verdicts, MayInterrupt, IsSet, ForceRequested, Running
<1>12. ASSUME NEW t \in Tasks, TaskEnds(t) PROVE Types'
  BY <1>12, Levels DEF TaskEnds, Verdict, Verdicts, Running
<1>13. ASSUME NEW t \in Tasks, TaskReturns(t) PROVE Types'
  BY <1>13, Levels DEF TaskReturns, Verdicts
<1>14. ASSUME NEW t \in Tasks, TaskRaises(t) PROVE Types'
  BY <1>14, Levels DEF TaskRaises
<1>15. CASE UNCHANGED vars
  BY <1>15 DEF vars
<1>16. QED
  BY <1>1, <1>2, <1>3, <1>4, <1>5, <1>6, <1>7, <1>8, <1>9, <1>10, <1>11, <1>12, <1>13, <1>14, <1>15 DEF Next, Manage, Operate, Run

(* A running task's directory is open, a waiting one's untouched. *)
LEMMA RecordStep == Types /\ RecordInv /\ [Next]_vars => RecordInv'
<1> SUFFICES ASSUME Types /\ RecordInv, [Next]_vars PROVE RecordInv'
  OBVIOUS
<1> USE DEF Types, RecordInv, stopVars, operator
<1>1. CASE StartLaunch
  BY <1>1, TasksInt DEF StartLaunch
<1>2. CASE FinishLaunch
  BY <1>2, TasksInt DEF FinishLaunch, Complete, Gone
<1>3. ASSUME NEW t \in Tasks, Admit(t) PROVE RecordInv'
  <2>1. job[t] = "queued"
    BY <1>3, TasksInt DEF Admit
  <2>2. \A u \in Tasks : u > t => u # t /\ u > next
    BY <1>3, TasksInt DEF Admit
  <2>3. ASSUME NEW r, job' = [job EXCEPT ![t] = "over"], result' = [result EXCEPT ![t] = r], UNCHANGED record
        PROVE  RecordInv'
    <3>1. UNCHANGED <<launch, before>> /\ next' = t /\ launch = "on"
      BY <1>3 DEF Admit
    <3>2. \A u \in Tasks : u # t => job'[u] = job[u] /\ result'[u] = result[u]
      BY <2>3
    <3>3. job'[t] = "over"
      BY <2>3
    <3> QED BY <2>1, <2>2, <2>3, <3>1, <3>2, <3>3, TasksInt
  <2>4. ASSUME job' = [job EXCEPT ![t] = "idle"], record' = [record EXCEPT ![t] = "open"], UNCHANGED result,
               record[t] # "final"
        PROVE  RecordInv'
    <3>1. UNCHANGED <<launch, before>> /\ next' = t /\ launch = "on"
      BY <1>3 DEF Admit
    <3>2. \A u \in Tasks : u # t => job'[u] = job[u] /\ record'[u] = record[u]
      BY <2>4
    <3>3. job'[t] = "idle" /\ record'[t] = "open" /\ before[t] # "final"
      BY <2>1, <2>4
    <3> QED BY <2>1, <2>2, <2>4, <3>1, <3>2, <3>3, TasksInt
  <2>5. QED
    BY <1>3, <2>3, <2>4, Zenon DEF Admit, NotStarted, Finished
<1>4. CASE Die
  BY <1>4, TasksInt DEF Die, Gone
<1>5. CASE CtrlC
  BY <1>5, TasksInt DEF CtrlC
<1>6. ASSUME NEW file \in {"stop", "force"}, StopRun(file) PROVE RecordInv'
  BY <1>6, TasksInt DEF StopRun
<1>7. ASSUME NEW file \in {"stop", "force"}, NEW t \in Tasks, StopTask(t, file) PROVE RecordInv'
  BY <1>7, TasksInt DEF StopTask
<1>8. ASSUME NEW t \in Tasks, ToolStarts(t) PROVE RecordInv'
  BY <1>8, TasksInt DEF ToolStarts
<1>9. ASSUME NEW t \in Tasks, ToolEnds(t) PROVE RecordInv'
  <2>1. job[t] # "queued" /\ launch = "on"
    BY <1>9 DEF ToolEnds
  <2>2. CASE job' = [job EXCEPT ![t] = "idle"] /\ UNCHANGED <<record, before, next, launch, result>>
    BY <1>9, <2>2, TasksInt DEF ToolEnds
  <2>3. CASE Verdict(t, "resumable")
    BY <1>9, <2>3, TasksInt DEF ToolEnds, Verdict, Verdicts
  <2>4. QED
    BY <1>9, <2>2, <2>3 DEF ToolEnds
<1>10. ASSUME NEW t \in Tasks, Poll(t) PROVE RecordInv'
  BY <1>10, TasksInt DEF Poll, Running
<1>11. ASSUME NEW t \in Tasks, Interrupted(t) PROVE RecordInv'
  BY <1>11, TasksInt DEF Interrupted, Verdict, Verdicts, MayInterrupt, IsSet, ForceRequested, Running
<1>12. ASSUME NEW t \in Tasks, TaskEnds(t) PROVE RecordInv'
  BY <1>12, TasksInt DEF TaskEnds, Verdict, Verdicts, Running
<1>13. ASSUME NEW t \in Tasks, TaskReturns(t) PROVE RecordInv'
  BY <1>13, TasksInt DEF TaskReturns, Verdicts
<1>14. ASSUME NEW t \in Tasks, TaskRaises(t) PROVE RecordInv'
  BY <1>14, TasksInt DEF TaskRaises, Busy, Running
<1>15. CASE UNCHANGED vars
  BY <1>15 DEF vars
<1>16. QED
  BY <1>1, <1>2, <1>3, <1>4, <1>5, <1>6, <1>7, <1>8, <1>9, <1>10, <1>11, <1>12, <1>13, <1>14, <1>15 DEF Next, Manage, Operate, Run

(* Where requests and forces come from. *)
LEMMA StopStep == Types /\ StopInv /\ [Next]_vars => StopInv'
<1> SUFFICES ASSUME Types /\ StopInv, [Next]_vars PROVE StopInv'
  OBVIOUS
<1> USE DEF Types, StopInv, stopVars, operator
<1>1. CASE StartLaunch
  BY <1>1, Levels DEF StartLaunch
<1>2. CASE FinishLaunch
  BY <1>2, Levels DEF FinishLaunch, Complete, Gone
<1>3. ASSUME NEW t \in Tasks, Admit(t) PROVE StopInv'
  BY <1>3, Levels DEF Admit, StopAtStart, Finished, NotStarted
<1>4. CASE Die
  BY <1>4, Levels DEF Die, Gone
<1>5. CASE CtrlC
  BY <1>5, Levels DEF CtrlC
<1>6. ASSUME NEW file \in {"stop", "force"}, StopRun(file) PROVE StopInv'
  BY <1>6, Levels DEF StopRun
<1>7. ASSUME NEW file \in {"stop", "force"}, NEW t \in Tasks, StopTask(t, file) PROVE StopInv'
  BY <1>7, Levels DEF StopTask
<1>8. ASSUME NEW t \in Tasks, ToolStarts(t) PROVE StopInv'
  BY <1>8, Levels DEF ToolStarts
<1>9. ASSUME NEW t \in Tasks, ToolEnds(t) PROVE StopInv'
  BY <1>9, Levels DEF ToolEnds, Verdict, Verdicts, IsSet
<1>10. ASSUME NEW t \in Tasks, Poll(t) PROVE StopInv'
  BY <1>10, Levels DEF Poll, Running
<1>11. ASSUME NEW t \in Tasks, Interrupted(t) PROVE StopInv'
  BY <1>11, Levels DEF Interrupted, Verdict, Verdicts, MayInterrupt, IsSet, ForceRequested, Running
<1>12. ASSUME NEW t \in Tasks, TaskEnds(t) PROVE StopInv'
  BY <1>12, Levels DEF TaskEnds, Verdict, Verdicts, Running
<1>13. ASSUME NEW t \in Tasks, TaskReturns(t) PROVE StopInv'
  BY <1>13, Levels DEF TaskReturns, Verdicts
<1>14. ASSUME NEW t \in Tasks, TaskRaises(t) PROVE StopInv'
  BY <1>14, Levels DEF TaskRaises, Busy, Running
<1>15. CASE UNCHANGED vars
  BY <1>15 DEF vars
<1>16. QED
  BY <1>1, <1>2, <1>3, <1>4, <1>5, <1>6, <1>7, <1>8, <1>9, <1>10, <1>11, <1>12, <1>13, <1>14, <1>15 DEF Next, Manage, Operate, Run

(* Reports are true. *)
LEMMA ReportStep == Types /\ RecordInv /\ ReportTrue /\ [Next]_vars => ReportTrue'
<1> SUFFICES ASSUME Types /\ RecordInv /\ ReportTrue, [Next]_vars PROVE ReportTrue'
  OBVIOUS
<1> USE DEF Types, RecordInv, ReportTrue, stopVars, operator
<1>1. CASE StartLaunch
  BY <1>1 DEF StartLaunch
<1>2. CASE FinishLaunch
  BY <1>2 DEF FinishLaunch, Complete, Gone
<1>3. ASSUME NEW t \in Tasks, Admit(t) PROVE ReportTrue'
  <2>1. CASE result' = [result EXCEPT ![t] = "not_started"] /\ UNCHANGED record
    <3>1. job[t] = "queued" => record[t] = before[t]
      OBVIOUS
    <3>2. job[t] = "queued"
      BY <1>3 DEF Admit, Tasks
    <3>3. QED
      BY <1>3, <2>1, <3>1, <3>2 DEF Admit
  <2>2. CASE record[t] = "final" /\ result' = [result EXCEPT ![t] = "final"] /\ UNCHANGED record
    BY <1>3, <2>2 DEF Admit
  <2>3. CASE job' = [job EXCEPT ![t] = "idle"] /\ record' = [record EXCEPT ![t] = "open"] /\ UNCHANGED result
    BY <1>3, <2>3 DEF Admit
  <2>4. QED
    BY <1>3, <2>1, <2>2, <2>3 DEF Admit, Finished, NotStarted
<1>4. CASE Die
  BY <1>4 DEF Die, Gone
<1>5. CASE CtrlC
  BY <1>5 DEF CtrlC
<1>6. ASSUME NEW file \in {"stop", "force"}, StopRun(file) PROVE ReportTrue'
  BY <1>6 DEF StopRun
<1>7. ASSUME NEW file \in {"stop", "force"}, NEW t \in Tasks, StopTask(t, file) PROVE ReportTrue'
  BY <1>7 DEF StopTask
<1>8. ASSUME NEW t \in Tasks, ToolStarts(t) PROVE ReportTrue'
  BY <1>8 DEF ToolStarts
<1>9. ASSUME NEW t \in Tasks, ToolEnds(t) PROVE ReportTrue'
  BY <1>9 DEF ToolEnds, Verdict, Verdicts, IsSet
<1>10. ASSUME NEW t \in Tasks, Poll(t) PROVE ReportTrue'
  BY <1>10 DEF Poll, Running
<1>11. ASSUME NEW t \in Tasks, Interrupted(t) PROVE ReportTrue'
  BY <1>11 DEF Interrupted, Verdict, Verdicts, MayInterrupt, IsSet, ForceRequested, Running
<1>12. ASSUME NEW t \in Tasks, TaskEnds(t) PROVE ReportTrue'
  BY <1>12 DEF TaskEnds, Verdict, Verdicts, Running
<1>13. ASSUME NEW t \in Tasks, TaskReturns(t) PROVE ReportTrue'
  BY <1>13 DEF TaskReturns, Verdicts
<1>14. ASSUME NEW t \in Tasks, TaskRaises(t) PROVE ReportTrue'
  BY <1>14 DEF TaskRaises, Busy, Running
<1>15. CASE UNCHANGED vars
  BY <1>15 DEF vars
<1>16. QED
  BY <1>1, <1>2, <1>3, <1>4, <1>5, <1>6, <1>7, <1>8, <1>9, <1>10, <1>11, <1>12, <1>13, <1>14, <1>15 DEF Next, Manage, Operate, Run

(* Tools in flight are cut only after two requests. *)
LEMMA CutStep == Types /\ StopInv /\ CutAfterTwo /\ [Next]_vars => CutAfterTwo'
<1> SUFFICES ASSUME Types /\ StopInv /\ CutAfterTwo, [Next]_vars PROVE CutAfterTwo'
  OBVIOUS
<1> USE DEF Types, StopInv, CutAfterTwo, stopVars, operator
<1>1. CASE StartLaunch
  BY <1>1, Levels DEF StartLaunch
<1>2. CASE FinishLaunch
  BY <1>2, Levels DEF FinishLaunch, Complete, Gone
<1>3. ASSUME NEW t \in Tasks, Admit(t) PROVE CutAfterTwo'
  BY <1>3, Levels DEF Admit, StopAtStart, Finished, NotStarted
<1>4. CASE Die
  BY <1>4, Levels DEF Die, Gone
<1>5. CASE CtrlC
  BY <1>5, Levels DEF CtrlC
<1>6. ASSUME NEW file \in {"stop", "force"}, StopRun(file) PROVE CutAfterTwo'
  BY <1>6, Levels DEF StopRun
<1>7. ASSUME NEW file \in {"stop", "force"}, NEW t \in Tasks, StopTask(t, file) PROVE CutAfterTwo'
  BY <1>7, Levels DEF StopTask
<1>8. ASSUME NEW t \in Tasks, ToolStarts(t) PROVE CutAfterTwo'
  BY <1>8, Levels DEF ToolStarts
<1>9. ASSUME NEW t \in Tasks, ToolEnds(t) PROVE CutAfterTwo'
  BY <1>9, Levels DEF ToolEnds, Verdict, Verdicts, IsSet
<1>10. ASSUME NEW t \in Tasks, Poll(t) PROVE CutAfterTwo'
  BY <1>10, Levels DEF Poll, Running
<1>11. ASSUME NEW t \in Tasks, Interrupted(t) PROVE CutAfterTwo'
  BY <1>11, Levels DEF Interrupted, Verdict, Verdicts, MayInterrupt, IsSet, ForceRequested, Running
<1>12. ASSUME NEW t \in Tasks, TaskEnds(t) PROVE CutAfterTwo'
  BY <1>12, Levels DEF TaskEnds, Verdict, Verdicts, Running
<1>13. ASSUME NEW t \in Tasks, TaskReturns(t) PROVE CutAfterTwo'
  BY <1>13, Levels DEF TaskReturns, Verdicts
<1>14. ASSUME NEW t \in Tasks, TaskRaises(t) PROVE CutAfterTwo'
  BY <1>14, Levels DEF TaskRaises, Busy, Running
<1>15. CASE UNCHANGED vars
  BY <1>15 DEF vars
<1>16. QED
  BY <1>1, <1>2, <1>3, <1>4, <1>5, <1>6, <1>7, <1>8, <1>9, <1>10, <1>11, <1>12, <1>13, <1>14, <1>15 DEF Next, Manage, Operate, Run

(* The inductive invariant. *)
THEOREM LaunchHolds == Spec => []LaunchInv
<1>1. Init => LaunchInv
  <2> SUFFICES ASSUME Init PROVE LaunchInv
    OBVIOUS
  <2>1. forced \in BOOLEAN
    BY DEF Init
  <2>2. Types
    BY <2>1 DEF Init, Types, Files
  <2>3. RecordInv /\ StopInv /\ ReportTrue /\ CutAfterTwo
    BY DEF Init, RecordInv, StopInv, ReportTrue, CutAfterTwo
  <2>4. QED
    BY <2>2, <2>3 DEF LaunchInv
<1>2. LaunchInv /\ [Next]_vars => LaunchInv'
  BY TypesStep, RecordStep, StopStep, ReportStep, CutStep DEF LaunchInv
<1>3. QED
  BY <1>1, <1>2, PTL DEF Spec

(* The results of a launch agree with what it leaves in the task directories. *)
THEOREM ReportsHold == Spec => []ReportTrue
<1>1. LaunchInv => ReportTrue
  BY DEF LaunchInv
<1>2. QED
  BY <1>1, LaunchHolds, PTL

(* No tool is abandoned by a single request. *)
THEOREM CutsHold == Spec => []CutAfterTwo
<1>1. LaunchInv => CutAfterTwo
  BY DEF LaunchInv
<1>2. QED
  BY <1>1, LaunchHolds, PTL

(* A final reason stays, and its task does not run. *)
LEMMA FinalStep ==
  ASSUME LaunchInv, [Next]_vars, NEW u \in Tasks, record[u] = "final"
  PROVE  record'[u] = "final" /\ job'[u] \notin {"idle", "tool"}
<1> USE DEF LaunchInv, Types, RecordInv, stopVars, operator
<1>1. CASE StartLaunch
  BY <1>1 DEF StartLaunch
<1>2. CASE FinishLaunch
  BY <1>2 DEF FinishLaunch, Complete, Gone
<1>3. ASSUME NEW t \in Tasks, Admit(t) PROVE record'[u] = "final" /\ job'[u] \notin {"idle", "tool"}
  BY <1>3 DEF Admit, StopAtStart, Finished, NotStarted
<1>4. CASE Die
  BY <1>4 DEF Die, Gone
<1>5. CASE CtrlC
  BY <1>5 DEF CtrlC
<1>6. ASSUME NEW file \in {"stop", "force"}, StopRun(file) PROVE record'[u] = "final" /\ job'[u] \notin {"idle", "tool"}
  BY <1>6 DEF StopRun
<1>7. ASSUME NEW file \in {"stop", "force"}, NEW t \in Tasks, StopTask(t, file) PROVE record'[u] = "final" /\ job'[u] \notin {"idle", "tool"}
  BY <1>7 DEF StopTask
<1>8. ASSUME NEW t \in Tasks, ToolStarts(t) PROVE record'[u] = "final" /\ job'[u] \notin {"idle", "tool"}
  BY <1>8 DEF ToolStarts
<1>9. ASSUME NEW t \in Tasks, ToolEnds(t) PROVE record'[u] = "final" /\ job'[u] \notin {"idle", "tool"}
  BY <1>9 DEF ToolEnds, Verdict, Verdicts, IsSet
<1>10. ASSUME NEW t \in Tasks, Poll(t) PROVE record'[u] = "final" /\ job'[u] \notin {"idle", "tool"}
  BY <1>10 DEF Poll, Running
<1>11. ASSUME NEW t \in Tasks, Interrupted(t) PROVE record'[u] = "final" /\ job'[u] \notin {"idle", "tool"}
  BY <1>11 DEF Interrupted, Verdict, Verdicts, MayInterrupt, IsSet, ForceRequested, Running
<1>12. ASSUME NEW t \in Tasks, TaskEnds(t) PROVE record'[u] = "final" /\ job'[u] \notin {"idle", "tool"}
  BY <1>12 DEF TaskEnds, Verdict, Verdicts, Running
<1>13. ASSUME NEW t \in Tasks, TaskReturns(t) PROVE record'[u] = "final" /\ job'[u] \notin {"idle", "tool"}
  BY <1>13 DEF TaskReturns, Verdicts
<1>14. ASSUME NEW t \in Tasks, TaskRaises(t) PROVE record'[u] = "final" /\ job'[u] \notin {"idle", "tool"}
  BY <1>14 DEF TaskRaises, Busy, Running
<1>15. CASE UNCHANGED vars
  BY <1>15 DEF vars
<1>16. QED
  BY <1>1, <1>2, <1>3, <1>4, <1>5, <1>6, <1>7, <1>8, <1>9, <1>10, <1>11, <1>12, <1>13, <1>14, <1>15 DEF Next, Manage, Operate, Run

(* A final result is kept over every stop, death and new launch. *)
THEOREM FinalHolds == Spec => FinalKept
<1>1. LaunchInv /\ [Next]_vars =>
        [\A t \in Tasks : record[t] = "final" => record'[t] = "final" /\ ~ Running(t)']_vars
  BY FinalStep DEF Running
<1>2. QED
  BY <1>1, LaunchHolds, PTL DEF Spec, FinalKept

(* Nothing starts once a stop was asked for. *)
LEMMA NoStartStep ==
  ASSUME LaunchInv, [Next]_vars, NEW u \in Tasks, launch = "on", StopAsked, job[u] = "queued"
  PROVE  job'[u] \notin {"idle", "tool"} /\ record'[u] = record[u]
<1> USE DEF LaunchInv, Types, RecordInv, StopInv, StopAsked, stopVars, operator
<1>1. CASE StartLaunch
  BY <1>1, Levels DEF StartLaunch
<1>2. CASE FinishLaunch
  BY <1>2, Levels DEF FinishLaunch, Complete, Gone
<1>3. ASSUME NEW t \in Tasks, Admit(t) PROVE job'[u] \notin {"idle", "tool"} /\ record'[u] = record[u]
  BY <1>3, Levels DEF Admit, StopAtStart, Finished, NotStarted
<1>4. CASE Die
  BY <1>4, Levels DEF Die, Gone
<1>5. CASE CtrlC
  BY <1>5, Levels DEF CtrlC
<1>6. ASSUME NEW file \in {"stop", "force"}, StopRun(file) PROVE job'[u] \notin {"idle", "tool"} /\ record'[u] = record[u]
  BY <1>6, Levels DEF StopRun
<1>7. ASSUME NEW file \in {"stop", "force"}, NEW t \in Tasks, StopTask(t, file) PROVE job'[u] \notin {"idle", "tool"} /\ record'[u] = record[u]
  BY <1>7, Levels DEF StopTask
<1>8. ASSUME NEW t \in Tasks, ToolStarts(t) PROVE job'[u] \notin {"idle", "tool"} /\ record'[u] = record[u]
  BY <1>8, Levels DEF ToolStarts
<1>9. ASSUME NEW t \in Tasks, ToolEnds(t) PROVE job'[u] \notin {"idle", "tool"} /\ record'[u] = record[u]
  BY <1>9, Levels DEF ToolEnds, Verdict, Verdicts, IsSet
<1>10. ASSUME NEW t \in Tasks, Poll(t) PROVE job'[u] \notin {"idle", "tool"} /\ record'[u] = record[u]
  BY <1>10, Levels DEF Poll, Running
<1>11. ASSUME NEW t \in Tasks, Interrupted(t) PROVE job'[u] \notin {"idle", "tool"} /\ record'[u] = record[u]
  BY <1>11, Levels DEF Interrupted, Verdict, Verdicts, MayInterrupt, IsSet, ForceRequested, Running
<1>12. ASSUME NEW t \in Tasks, TaskEnds(t) PROVE job'[u] \notin {"idle", "tool"} /\ record'[u] = record[u]
  BY <1>12, Levels DEF TaskEnds, Verdict, Verdicts, Running
<1>13. ASSUME NEW t \in Tasks, TaskReturns(t) PROVE job'[u] \notin {"idle", "tool"} /\ record'[u] = record[u]
  BY <1>13, Levels DEF TaskReturns, Verdicts
<1>14. ASSUME NEW t \in Tasks, TaskRaises(t) PROVE job'[u] \notin {"idle", "tool"} /\ record'[u] = record[u]
  BY <1>14, Levels DEF TaskRaises, Busy, Running
<1>15. CASE UNCHANGED vars
  BY <1>15 DEF vars
<1>16. QED
  BY <1>1, <1>2, <1>3, <1>4, <1>5, <1>6, <1>7, <1>8, <1>9, <1>10, <1>11, <1>12, <1>13, <1>14, <1>15 DEF Next, Manage, Operate, Run

(* A launch that is told to stop starts no waiting task. *)
THEOREM NothingStartsHolds == Spec => NothingStarts
<1>1. LaunchInv /\ [Next]_vars =>
        [launch = "on" /\ StopAsked =>
           \A t \in Tasks : job[t] = "queued" => ~ Running(t)' /\ record'[t] = record[t]]_vars
  BY NoStartStep DEF Running
<1>2. QED
  BY <1>1, LaunchHolds, PTL DEF Spec, NothingStarts
-----------------------------------------------------------------------------
(* The semaphore: no more tasks run than there are workers. *)
Active == {t \in Tasks : Busy(t)}
RoomInv == workers \in 1..MaxWorkers /\ launches \in Nat /\ next \in 0..Count /\ files \in Nat
             /\ cut \subseteq Tasks /\ Cardinality(Active) <= workers

LEMMA TasksFinite ==
  ASSUME NEW S, S \subseteq Tasks
  PROVE  IsFiniteSet(S) /\ Cardinality(S) \in Nat
<1>1. IsFiniteSet(Tasks)
  BY LaunchAssumption, FS_Interval DEF Tasks
<1> QED BY <1>1, FS_Subset, FS_CardinalityType

LEMMA RoomStep == Types /\ RecordInv /\ RoomInv /\ [Next]_vars => RoomInv'
<1> SUFFICES ASSUME Types, RecordInv, RoomInv, [Next]_vars PROVE RoomInv'
  OBVIOUS
<1> USE LaunchAssumption DEF RoomInv, stopVars, operator
<1>0. /\ Active \subseteq Tasks /\ Active' \subseteq Tasks
      /\ Cardinality(Active) \in Nat /\ Cardinality(Active') \in Nat
      /\ Cardinality(Active)' = Cardinality(Active')
  <2>1. Active \subseteq Tasks /\ Active' \subseteq Tasks
    BY DEF Active, Tasks
  <2>2. Cardinality(Active)' = Cardinality(Active')
    BY DEF Cardinality
  <2> QED BY <2>1, <2>2, TasksFinite
<1>1. ASSUME Active' \subseteq Active, workers' = workers, next' \in 0..Count, launches' \in Nat,
             files' \in Nat, cut' \subseteq Tasks
      PROVE  RoomInv'
  <2>1. Cardinality(Active') <= Cardinality(Active)
    BY <1>0, <1>1, TasksFinite, FS_Subset
  <2> QED BY <1>0, <1>1, <2>1
<1>2. ASSUME Active' = {}, workers' \in 1..MaxWorkers, next' \in 0..Count, launches' \in Nat,
             files' \in Nat, cut' \subseteq Tasks
      PROVE  RoomInv'
  BY <1>0, <1>2, FS_EmptySet
<1>3. CASE StartLaunch
  <2>1. Active' = {}
    BY <1>3 DEF StartLaunch, Active, Busy, Running, RecordInv
  <2> QED BY <1>2, <1>3, <2>1 DEF StartLaunch
<1>4. ASSUME Gone, workers' \in 1..MaxWorkers PROVE RoomInv'
  <2>1. Active' = {}
    BY <1>4 DEF Gone, Active, Busy, Running
  <2> QED BY <1>2, <1>4, <2>1 DEF Gone
<1>5. CASE FinishLaunch \/ Die
  BY <1>4, <1>5 DEF FinishLaunch, Die
<1>6. ASSUME NEW t \in Tasks, Admit(t) PROVE RoomInv'
  <2>1. /\ UNCHANGED <<launches, workers, files, cut>> /\ next' = t /\ t \in 0..Count
        /\ Cardinality(Active) < workers
    BY <1>6 DEF Admit, HasRoom, Active, Tasks
  <2>2. Active' \subseteq Active \cup {t}
    BY <1>6 DEF Admit, Active, Busy, Running, Types
  <2>3. Cardinality(Active \cup {t}) <= Cardinality(Active) + 1 /\ Cardinality(Active \cup {t}) \in Nat
    BY <1>0, TasksFinite, FS_AddElement
  <2>4. Cardinality(Active') <= Cardinality(Active \cup {t})
    BY <1>0, <2>2, TasksFinite, FS_Subset
  <2> QED BY <1>0, <2>1, <2>3, <2>4
<1>7. ASSUME NEW t \in Tasks, Run(t) PROVE RoomInv'
  <2>1. UNCHANGED <<launches, workers, next, files>> /\ cut' \subseteq cut \cup {t}
    BY <1>7 DEF Run, ToolStarts, ToolEnds, Poll, Interrupted, TaskEnds, TaskReturns, TaskRaises, Verdict
  <2>2. Active' \subseteq Active
    BY <1>7 DEF Run, ToolStarts, ToolEnds, Poll, Interrupted, TaskEnds, TaskReturns, TaskRaises, Verdict,
       Active, Busy, Running, Types
  <2> QED BY <1>1, <2>1, <2>2
<1>8. CASE Operate \/ UNCHANGED vars
  <2>1. UNCHANGED <<launches, workers, next, job, cut>> /\ files' \in Nat
    BY <1>8 DEF Operate, CtrlC, StopRun, StopTask, vars
  <2>2. Active' = Active
    BY <2>1 DEF Active, Busy, Running
  <2> QED BY <1>1, <2>1, <2>2
<1> QED BY <1>3, <1>5, <1>6, <1>7, <1>8 DEF Next, Manage

(* The types, and at most as many tasks at a time as workers, over launches
   that change their number.                                                *)
THEOREM TypeCorrect == Spec => []TypeOK
<1>1. Init => RoomInv
  <2> SUFFICES ASSUME Init PROVE RoomInv
    OBVIOUS
  <2>1. Active = {}
    BY DEF Init, Active, Busy, Running
  <2> QED BY <2>1, FS_EmptySet, LaunchAssumption DEF Init, RoomInv
<1>2. Types /\ RecordInv /\ RoomInv /\ [Next]_vars => RoomInv'
  BY RoomStep
<1>3. Types /\ RoomInv => TypeOK
  BY DEF Types, RoomInv, TypeOK, Active
<1>4. LaunchInv => Types /\ RecordInv
  BY DEF LaunchInv
<1> QED BY <1>1, <1>2, <1>3, <1>4, LaunchHolds, PTL DEF Spec
=============================================================================
