----------------------------- MODULE Coordinator -----------------------------
(***************************************************************************)
(* The managed coordinator of one task                                     *)
(* (regact/protocols/managed/session.py, specialised by                    *)
(* regact/protocols/cwm/session.py when UsesModel) over its store and its  *)
(* live environment, through process deaths and resumes.                   *)
(*                                                                         *)
(* The coordinator's lock is held from the moment `at' leaves "idle" until *)
(* it returns there: one command, one initial collection or close() runs   *)
(* at a time, one disk commit or one environment call per step.  Without   *)
(* the lock run the loop that stops the task, shutdown(), the clock and    *)
(* the clients.  `db' and `collected' are on disk with `created' and       *)
(* `exit'; every other variable of the coordinator dies with its process.  *)
(***************************************************************************)
EXTENDS ExperienceStore

CONSTANTS
  SingleInstance,  \* the problem's lifecycle: one live environment, or one per run
  UsesModel,       \* CWM, or the vanilla protocol
  Deterministic,   \* the game repeats itself after a reset
  Prefill,         \* the initial collection wants more than the first observation
  MaxActions,      \* limits.max_actions_per_task
  Requests,        \* framework commands the agent sends, each once
  NameOf, RidOf,   \* the command and the request id of each
  NoRid,           \* the id of a request that carries none
  NoRequest, Collector,
  MaxBoots,        \* bound on process starts
  MaxFaults        \* bound on environment and storage faults

Modeling == "MODELING"
Exploration == "EXPLORATION"
InitialPhase == IF UsesModel THEN Modeling ELSE Exploration

Commands ==
  {"RunController"} \cup (IF SingleInstance THEN {"Reset"} ELSE {})
    \cup (IF UsesModel THEN {"UpdateCodeWorldModel", "PlanInCWM"} ELSE {})

Failures == {"observation_determinism_violation", "environment_or_storage_failure",
             "framework_failure", "initial_observation_mismatch"}
Reasons == Failures \cup {"none", "walltime_limit", "real_action_limit", "solved",
                          "interrupted", "initial_collection_failure"}

ASSUME BudgetPositive == MaxActions \in Nat \ {0}
ASSUME BoundsNatural == MaxBoots \in Nat /\ MaxFaults \in Nat
ASSUME FlagsBoolean == {SingleInstance, UsesModel, Deterministic, Prefill} \subseteq BOOLEAN
ASSUME RequestShape ==
  /\ RidOf \in [Requests -> Rids \cup {NoRid}] /\ NoRid \notin Rids
  /\ NoRequest \notin Requests /\ Collector \notin Requests /\ NoRequest # Collector
  /\ NameOf \in [Requests -> CommandNames] /\ NoCommand \notin CommandNames

VARIABLES
  created, db, collected, exit,                         \* on disk
  at, holder, env, phase, terminal, expired, episode, resetActions,
  active, accepted, liveState, sized, outcome, serving, stopping,  \* the process
  call, boots, faults,                                  \* clients and bounds
  refuted, late, executed                             \* history variables

files == <<created, collected, exit>>
disk == <<files, db>>
model == <<accepted, liveState, sized>>
position == <<env, phase, episode, resetActions, active, model, outcome>>
signals == <<expired, serving, stopping>>
control == <<terminal, signals>>
outside == <<call, boots, faults>>
ghosts == <<refuted, late, executed>>
vars == <<disk, at, holder, position, control, outside, ghosts>>

(* No process: what a new one starts from. *)
FreshMemory ==
  /\ holder' = NoRequest /\ env' = <<>> /\ phase' = InitialPhase
  /\ terminal' = "none" /\ expired' = FALSE /\ episode' = 0 /\ resetActions' = 0
  /\ active' = 0 /\ accepted' = 0 /\ liveState' = "none" /\ sized' = FALSE
  /\ outcome' = "ok" /\ serving' = FALSE /\ stopping' = "no" /\ late' = 0

Init ==
  /\ created = FALSE /\ db = EmptyStore /\ collected = FALSE /\ exit = "open"
  /\ at = "down"
  /\ holder = NoRequest /\ env = <<>> /\ phase = InitialPhase
  /\ terminal = "none" /\ expired = FALSE /\ episode = 0 /\ resetActions = 0
  /\ active = 0 /\ accepted = 0 /\ liveState = "none" /\ sized = FALSE
  /\ outcome = "ok" /\ serving = FALSE /\ stopping = "no" /\ late = 0
  /\ call = [r \in Requests |-> "unsent"] /\ boots = 0 /\ faults = 0
  /\ refuted = {} /\ executed = {}

-----------------------------------------------------------------------------
(* Reading the position. *)

(* _limit(): why no further real action may start, or "none". *)
Limit ==
  IF terminal # "none" THEN terminal
  ELSE IF expired THEN "walltime_limit"
  ELSE IF TotalSteps(db) + resetActions >= MaxActions THEN "real_action_limit"
  ELSE "none"

LastObs == db.log[Len(db.log)].obs
IsDone == LastObs # "play"

(* A step of the live episode that the accepted CWM does not explain. *)
LiveRefuted == \E p \in refuted : p > episode

Fault(reason) ==
  /\ faults < MaxFaults
  /\ faults' = faults + 1
  /\ terminal' = reason

NoteLate == late' = late + (IF stopping = "shutdown" THEN 1 ELSE 0)

(* Mutant: the change is not recorded. *)
ChangePhaseSilently(to) == phase' = to /\ UNCHANGED db

ChangePhase(to) ==
  /\ phase' = to
  /\ db' = IF phase = to THEN db ELSE PhaseChanged(db, to)

-----------------------------------------------------------------------------
(* Starting a process: ManagedCoordinator.__init__ and collect_initial. *)

(* run_task builds the coordinator unless the task ended for a final reason. *)
Boot ==
  /\ at = "down" /\ exit = "open" /\ boots < MaxBoots
  /\ boots' = boots + 1
  /\ at' = IF created THEN "restore" ELSE "first_reset"
  /\ created' = TRUE
  /\ UNCHANGED <<db, collected, exit, holder, position, control, call, faults,
                 ghosts>>

FirstReset ==
  /\ at = "first_reset"
  /\ env' = <<[op |-> "start", obs |-> "play"]>>
  /\ db' = StartEpisode(db, "start")
  /\ episode' = 1
  /\ at' = "construct"
  /\ UNCHANGED <<files, holder, phase, resetActions, active, model, outcome,
                 control, outside, ghosts>>

(* _restore: the environment is rebuilt by replaying the log.  An empty log
   has no first episode to read, and a game that does not repeat itself may
   fail the comparison: the constructor raises.                             *)
RestoreFails ==
  /\ at = "restore"
  /\ db.log = <<>> \/ ~ Deterministic
  /\ at' = "failed"
  /\ UNCHANGED <<disk, holder, position, control, outside, ghosts>>

(* Mutants: the resets already spent are not counted again; the live episode
   of a single instance is forgotten; only that episode is replayed.        *)
RestoreWith(trace, resets, live) ==
  /\ at = "restore" /\ db.log # <<>>
  /\ env' = trace /\ resetActions' = resets /\ episode' = live
  /\ db' = Reopen(db, live)
  /\ at' = "after_restore"
  /\ UNCHANGED <<files, holder, phase, active, model, outcome, control, outside,
                 ghosts>>
RestoreForgetsResets == RestoreWith(db.log, 0, IF SingleInstance THEN LastEpisode(db) ELSE 0)
RestoreForgetsEpisode == RestoreWith(db.log, TotalResets(db), 0)
RestoreReplaysLast ==
  RestoreWith(SubSeq(db.log, LastEpisode(db), Len(db.log)), TotalResets(db), LastEpisode(db))

Restore ==
  /\ at = "restore" /\ db.log # <<>>
  /\ env' = db.log
  /\ resetActions' = TotalResets(db)
  /\ episode' = IF SingleInstance THEN LastEpisode(db) ELSE 0
  /\ db' = Reopen(db, episode')
  /\ at' = "after_restore"
  /\ UNCHANGED <<files, holder, phase, active, model, outcome, control, outside,
                 ghosts>>

(* Mutant: the accepted version is left to a status file that missed it. *)
AfterRestoreStale ==
  /\ at = "after_restore"
  /\ phase' = IF db.phase = "none" THEN InitialPhase ELSE db.phase
  /\ at' = "construct"
  /\ UNCHANGED <<disk, holder, env, episode, resetActions, active, model,
                 outcome, control, outside, ghosts>>

(* The phase is the last one recorded; a CWM task takes its accepted version
   from the last accepted validation and is modelling without one.          *)
AfterRestore ==
  /\ at = "after_restore"
  /\ accepted' = IF UsesModel THEN LastAccepted(db) ELSE 0
  /\ sized' = (UsesModel /\ LastAccepted(db) # 0)
  /\ phase' = IF UsesModel /\ LastAccepted(db) = 0 THEN Modeling
              ELSE IF db.phase = "none" THEN InitialPhase ELSE db.phase
  /\ at' = "construct"
  /\ UNCHANGED <<disk, holder, env, episode, resetActions, active, liveState,
                 outcome, control, outside, ghosts>>

(* The rest of the CWM constructor, after super().__init__ has returned. *)
Construct ==
  /\ at = "construct"
  /\ liveState' = "none" /\ sized' = FALSE
  /\ at' = IF collected THEN "idle" ELSE "collect"
  /\ holder' = IF collected THEN NoRequest ELSE Collector
  /\ serving' = collected
  /\ UNCHANGED <<disk, env, phase, episode, resetActions, active, accepted,
                 outcome, terminal, expired, stopping, outside, ghosts>>

(* One more prefill action; _step needs a live episode. *)
CollectAct ==
  /\ at = "collect" /\ Prefill
  /\ Limit = "none" /\ ~ IsDone
  /\ IF episode = 0
       THEN terminal' = "initial_collection_failure" /\ at' = "collect_finish"
       ELSE at' = "act" /\ UNCHANGED terminal
  /\ UNCHANGED <<disk, holder, position, signals, outside, ghosts>>

(* The target, a cap or the end of the episode; a limit; or a stop request. *)
CollectStop ==
  /\ at = "collect"
  /\ \/ terminal' = terminal
     \/ Prefill /\ terminal' = Limit
     \/ Prefill /\ terminal' = "interrupted"
  /\ at' = "collect_finish"
  /\ UNCHANGED <<disk, holder, position, signals, outside, ghosts>>

(* The screen read last may be one that could not be recorded. *)
CollectFinish ==
  /\ at = "collect_finish"
  /\ \/ (IsDone \/ env[Len(env)].obs # "play") /\ db' = FinishEpisode(db, episode)
     \/ ~ IsDone /\ UNCHANGED db
  /\ at' = "collect_save"
  /\ UNCHANGED <<files, holder, position, control, outside, ghosts>>

CollectSave ==
  /\ at = "collect_save"
  /\ collected' = TRUE
  /\ serving' = TRUE
  /\ at' = "idle" /\ holder' = NoRequest
  /\ UNCHANGED <<created, db, exit, position, terminal, expired, stopping,
                 outside, ghosts>>

-----------------------------------------------------------------------------
(* tool(): from taking the lock to the command's own work. *)

Send(r) ==
  /\ serving /\ call[r] = "unsent"
  /\ call' = [call EXCEPT ![r] = "waiting"]
  /\ UNCHANGED <<disk, at, holder, position, control, boots, faults, ghosts>>

HasRid(r) == RidOf[r] # NoRid
Known(r) == HasRid(r) /\ db.answered[RidOf[r]] # NoCommand

(* Mutant: a closed task does not answer. *)
AnswerUnlessClosed(r) ==
  /\ call[r] = "waiting" /\ at = "idle" /\ (NameOf[r] \notin Commands \/ Known(r))
  /\ call' = [call EXCEPT ![r] = "answered"]
  /\ UNCHANGED <<disk, at, holder, position, control, boots, faults, ghosts>>

(* Answered without touching anything: the task is closed, the command is not
   one of this task's, or the id was answered before (replayed, or refused
   as a conflict when it named another command).                            *)
AnswerAtOnce(r) ==
  /\ call[r] = "waiting"
  /\ \/ at = "closed"
     \/ at = "idle" /\ (NameOf[r] \notin Commands \/ Known(r))
  /\ call' = [call EXCEPT ![r] = "answered"]
  /\ UNCHANGED <<disk, at, holder, position, control, boots, faults, ghosts>>

Enter(r) ==
  /\ at = "idle" /\ call[r] = "waiting"
  /\ NameOf[r] \in Commands /\ ~ Known(r)
  /\ holder' = r
  /\ terminal' = Limit
  /\ outcome' = "ok"
  /\ UNCHANGED <<files, env, phase, episode, resetActions, model, signals,
                 outside, refuted, late>>

(* A limit, or a command of the other phase: an error, answered like any. *)
Unavailable(r) ==
  phase = Modeling /\ NameOf[r] \in {"RunController", "PlanInCWM"}

EnterRefused(r) ==
  /\ Enter(r)
  /\ Limit # "none" \/ Unavailable(r)
  /\ at' = "tail"
  /\ UNCHANGED <<db, active, executed>>

(* The submitted file is missing, or world_model/ is not the accepted one. *)
EnterBadFiles(r) ==
  /\ Enter(r)
  /\ Limit = "none" /\ ~ Unavailable(r)
  /\ NameOf[r] \in {"RunController", "PlanInCWM"}
  /\ at' = "tail"
  /\ UNCHANGED <<db, active, executed>>

RecordKindOf(name) ==
  CASE name = "RunController" -> "exploration"
    [] name = "UpdateCodeWorldModel" -> "validation"
    [] name = "PlanInCWM" -> "plan"

FirstStepOf(name) ==
  CASE name = "RunController" -> "begin"
    [] name = "UpdateCodeWorldModel" -> "validate"
    [] name = "PlanInCWM" -> "plan"
    [] name = "Reset" -> "reset"

EnterBranch(r) ==
  /\ Enter(r)
  /\ Limit = "none" /\ ~ Unavailable(r)
  /\ IF NameOf[r] = "Reset"
       THEN UNCHANGED <<db, active>>
       ELSE /\ db' = AddRecord(db, RecordKindOf(NameOf[r]))
            /\ active' = Len(db.records) + 1
  /\ executed' = executed \cup {r}
  /\ at' = FirstStepOf(NameOf[r])

-----------------------------------------------------------------------------
(* Reset: reset_environment, one live environment for the whole task. *)

Reset ==
  /\ at = "reset"
  /\ env' = Append(env, [op |-> "reset", obs |-> "play"])
  /\ resetActions' = resetActions + 1
  /\ NoteLate
  /\ at' = "reset_finish"
  /\ UNCHANGED <<disk, holder, phase, episode, active, model, outcome, control,
                 outside, refuted, executed>>

(* The environment raised; it may have reset all the same. *)
ResetFaults ==
  /\ at = "reset"
  /\ env' \in {env, Append(env, [op |-> "reset", obs |-> "play"])}
  /\ Fault("environment_or_storage_failure")
  /\ NoteLate
  /\ at' = "tail"
  /\ UNCHANGED <<disk, holder, phase, episode, resetActions, active, model,
                 outcome, signals, call, boots, refuted, executed>>

ResetFinish ==
  /\ at = "reset_finish"
  /\ db' = FinishEpisode(db, episode)
  /\ at' = "reset_start"
  /\ UNCHANGED <<files, holder, position, control, outside, ghosts>>

ResetStart ==
  /\ at = "reset_start"
  /\ db' = StartEpisode(db, "reset")
  /\ episode' = Len(db.log) + 1
  /\ liveState' = IF liveState = "current" THEN "behind" ELSE liveState
  /\ at' = "tail"
  /\ UNCHANGED <<files, holder, env, phase, resetActions, active, accepted,
                 sized, outcome, control, outside, ghosts>>

ResetStoreFaults ==
  /\ at \in {"reset_finish", "reset_start"}
  /\ Fault("environment_or_storage_failure")
  /\ at' = "tail"
  /\ UNCHANGED <<disk, holder, position, signals, call, boots, ghosts>>

-----------------------------------------------------------------------------
(* UpdateCodeWorldModel: update(), over everything recorded so far. *)

Reject ==
  /\ at = "validate"
  /\ db' = UpdateRecord(db, active, "rejected")
  /\ active' = 0
  /\ at' = "tail"
  /\ UNCHANGED <<files, holder, env, phase, episode, resetActions, model,
                 outcome, control, outside, ghosts>>

(* Accepted only if it explains every recorded step, which none refutes then. *)
Accept ==
  /\ at = "validate"
  /\ db' = AcceptRecord(db, active, accepted + 1)
  /\ active' = 0
  /\ refuted' = {}
  /\ at' = "adopt"
  /\ UNCHANGED <<files, holder, env, phase, episode, resetActions, model,
                 outcome, control, outside, late, executed>>

Adopt ==
  /\ at = "adopt"
  /\ accepted' = accepted + 1
  /\ liveState' = IF SingleInstance THEN "current" ELSE "none"
  /\ sized' = TRUE
  /\ ChangePhase(Exploration)
  /\ at' = "tail"
  /\ UNCHANGED <<files, holder, env, episode, resetActions, active, outcome,
                 control, outside, ghosts>>

(* A worker, a file or a goal that fails leaves the record to be failed. *)
CommandFails ==
  /\ at \in {"validate", "plan"}
  /\ at' = "failing"
  /\ UNCHANGED <<disk, holder, position, control, outside, ghosts>>

(* Any other exception: the task ends, unless it is ending already.  Making
   the fresh environment of a run may fail this way.                        *)
CommandFaults ==
  /\ at \in {"validate", "plan", "fresh"}
  /\ Fault(IF terminal = "none" THEN "framework_failure" ELSE terminal)
  /\ env' \in {env} \cup (IF at = "fresh" THEN {Append(env, [op |-> "start", obs |-> "play"])} ELSE {})
  /\ IF at = "fresh" THEN NoteLate ELSE UNCHANGED late
  /\ at' = "failing"
  /\ UNCHANGED <<disk, holder, phase, episode, resetActions, active, model,
                 outcome, signals, call, boots, refuted, executed>>

FailRecord ==
  /\ at = "failing"
  /\ db' = UpdateRecord(db, active, "failed")
  /\ active' = 0
  /\ at' = "tail"
  /\ UNCHANGED <<files, holder, env, phase, episode, resetActions, model,
                 outcome, control, outside, ghosts>>

-----------------------------------------------------------------------------
(* live_state and PlanInCWM. *)

(* The accepted CWM's State at the live point: kept, or recomputed by
   replaying the live episode, each of whose screens it must explain.       *)
LiveStateHolds == ~ SingleInstance \/ liveState = "current" \/ ~ LiveRefuted
LiveStateAfter == IF SingleInstance THEN "current" ELSE liveState

PlanCompletes ==
  /\ at = "plan"
  /\ LiveStateHolds
  /\ liveState' = LiveStateAfter
  /\ db' = UpdateRecord(db, active, "completed")
  /\ active' = 0
  /\ at' = "tail"
  /\ UNCHANGED <<files, holder, env, phase, episode, resetActions, accepted,
                 sized, outcome, control, outside, ghosts>>

(* planning_start: a screen the model cannot explain goes back to modelling. *)
PlanStartUnexplained ==
  /\ at = "plan"
  /\ ~ SingleInstance \/ liveState # "current"
  /\ liveState' = "none"
  /\ ChangePhase(Modeling)
  /\ at' = "failing"
  /\ UNCHANGED <<files, holder, env, episode, resetActions, active, accepted,
                 sized, outcome, control, outside, ghosts>>

-----------------------------------------------------------------------------
(* RunController: explore(). *)

Begin ==
  /\ at = "begin"
  /\ IF SingleInstance
       THEN at' = "loop" /\ UNCHANGED db
       ELSE at' = "fresh" /\ db' = FinishEpisode(db, episode)
  /\ UNCHANGED <<files, holder, position, control, outside, ghosts>>

(* multi_instance: a fresh environment; a CWM task checks that it starts as
   the first one did.                                                       *)
Fresh ==
  /\ at = "fresh"
  /\ env' = Append(env, [op |-> "start", obs |-> "play"])
  /\ db' = StartEpisode(db, "start")
  /\ episode' = Len(db.log) + 1
  /\ NoteLate
  /\ \/ at' = "loop" /\ UNCHANGED terminal
     \/ /\ UsesModel /\ ~ Deterministic
        /\ at' = "score" /\ terminal' = "initial_observation_mismatch"
  /\ UNCHANGED <<files, holder, phase, resetActions, active, model, outcome,
                 signals, outside, refuted, executed>>

(* The game is over, a limit or a cap is reached, or the controller is done. *)
StopExploring ==
  /\ at = "loop"
  /\ terminal' \in {terminal, Limit}
  /\ at' = "score"
  /\ UNCHANGED <<disk, holder, position, signals, outside, ghosts>>

(* The controller raises, or the submitted code of the run takes too long. *)
ControllerFails ==
  /\ at = "loop"
  /\ \/ outcome' = "controller_error" /\ UNCHANGED terminal
     \/ outcome' = "error" /\ terminal' = Limit
  /\ at' = "score"
  /\ UNCHANGED <<disk, holder, env, phase, episode, resetActions, active, model,
                 signals, outside, ghosts>>

(* Any other exception of the run: a framework failure. *)
RunFaults ==
  /\ at = "loop"
  /\ Fault(IF terminal = "none" THEN "framework_failure" ELSE terminal)
  /\ outcome' = "error"
  /\ at' = "score"
  /\ UNCHANGED <<disk, holder, env, phase, episode, resetActions, active, model,
                 signals, call, boots, ghosts>>

(* A model call fails, or a screen is not explained: back to modelling. *)
ModelFails ==
  /\ at = "loop" /\ UsesModel
  /\ ChangePhase(Modeling)
  /\ \/ outcome' = "error" /\ UNCHANGED liveState
     \/ outcome' = outcome /\ liveState' = "none"
  /\ at' = "score"
  /\ UNCHANGED <<files, holder, env, episode, resetActions, active, accepted,
                 sized, control, outside, ghosts>>

(* Mutant: _step does not check the limit again. *)
ChooseUnlimited ==
  /\ at = "loop" /\ ~ IsDone
  /\ UsesModel => LiveStateHolds
  /\ liveState' = IF UsesModel THEN LiveStateAfter ELSE liveState
  /\ at' = "act"
  /\ UNCHANGED <<disk, holder, env, phase, episode, resetActions, active,
                 accepted, sized, outcome, control, outside, ghosts>>

(* The model predicts, and _step's own check lets the action through. *)
ChooseAction ==
  /\ at = "loop"
  /\ ~ IsDone /\ Limit = "none"
  /\ UsesModel => LiveStateHolds
  /\ liveState' = IF UsesModel THEN LiveStateAfter ELSE liveState
  /\ at' = "act"
  /\ UNCHANGED <<disk, holder, env, phase, episode, resetActions, active,
                 accepted, sized, outcome, control, outside, ghosts>>

AfterFailedStep == IF holder = Collector THEN "collect_finish" ELSE "score"

Act ==
  /\ at = "act"
  /\ \E obs \in Observations : env' = Append(env, [op |-> "step", obs |-> obs])
  /\ NoteLate
  /\ at' = "record"
  /\ UNCHANGED <<disk, holder, phase, episode, resetActions, active, model,
                 outcome, control, outside, refuted, executed>>

(* InvalidActionError: nothing was executed. *)
ActInvalid ==
  /\ at = "act" /\ holder # Collector
  /\ outcome' = "controller_error"
  /\ at' = "score"
  /\ UNCHANGED <<disk, holder, env, phase, episode, resetActions, active, model,
                 control, outside, ghosts>>

(* The environment raised: a real action may have happened. *)
ActFaults ==
  /\ at = "act"
  /\ \E obs \in Observations : env' \in {env, Append(env, [op |-> "step", obs |-> obs])}
  /\ Fault("environment_or_storage_failure")
  /\ NoteLate
  /\ outcome' = "error"
  /\ at' = AfterFailedStep
  /\ UNCHANGED <<disk, holder, phase, episode, resetActions, active, model,
                 signals, call, boots, refuted, executed>>

(* Mutant: a step that was not recorded does not end the task. *)
RecordFaultsGoOn ==
  /\ at = "record"
  /\ Fault(terminal)
  /\ outcome' = "error"
  /\ at' = AfterFailedStep
  /\ UNCHANGED <<disk, holder, env, phase, episode, resetActions, active, model,
                 signals, call, boots, ghosts>>

RecordFaults ==
  /\ at = "record"
  /\ Fault("environment_or_storage_failure")
  /\ outcome' = "error"
  /\ at' = AfterFailedStep
  /\ UNCHANGED <<disk, holder, env, phase, episode, resetActions, active, model,
                 signals, call, boots, ghosts>>

(* record_step commits what the environment did.  A CWM task stops on the
   same history and action having led elsewhere before.  `refuted' notes
   whether the accepted CWM had predicted otherwise.                        *)
Record ==
  /\ at = "record"
  /\ db' = RecordStep(db, env[Len(env)].obs)
  /\ \/ refuted' = refuted
     \/ accepted # 0 /\ refuted' = refuted \cup {Len(env)}
  /\ \/ /\ UsesModel /\ ~ Deterministic
        /\ terminal' = "observation_determinism_violation"
        /\ at' = AfterFailedStep
     \/ /\ UNCHANGED terminal
        /\ at' = IF holder = Collector THEN "collected_one"
                 ELSE IF UsesModel THEN "judge" ELSE "loop"
  /\ UNCHANGED <<files, holder, position, signals, outside, late, executed>>

(* After each prefill action: solved, a limit, or another one. *)
CollectedOne ==
  /\ at = "collected_one"
  /\ terminal' = IF LastObs = "won" /\ terminal = "none" THEN "solved" ELSE Limit
  /\ at' = IF terminal' = "none" THEN "collect" ELSE "collect_finish"
  /\ UNCHANGED <<disk, holder, position, signals, outside, ghosts>>

(* Mutant: a refuted prediction does not leave the exploration phase. *)
JudgeLeniently ==
  /\ at = "judge"
  /\ liveState' = LiveStateAfter
  /\ at' = "loop"
  /\ UNCHANGED <<disk, phase, holder, env, episode, resetActions, active,
                 accepted, sized, outcome, control, outside, ghosts>>

(* check_prediction: the prediction against the recorded observation, then
   the State's size: either may send the task back to modelling.            *)
Judge ==
  /\ at = "judge"
  /\ \/ /\ ChangePhase(Modeling)
        /\ liveState' = "none"
        /\ at' = "score"
     \/ /\ Len(db.log) \notin refuted
        /\ liveState' = LiveStateAfter
        /\ at' = "loop"
        /\ UNCHANGED <<db, phase>>
  /\ UNCHANGED <<files, holder, env, episode, resetActions, active, accepted,
                 sized, outcome, control, outside, ghosts>>

(* Mutant: a solved game overrides every reason. *)
ScoreAlwaysSolves ==
  /\ at = "score"
  /\ terminal' = IF LastObs = "won" /\ outcome # "controller_error" THEN "solved" ELSE Limit
  /\ db' = IF IsDone \/ ~ SingleInstance THEN FinishEpisode(db, episode) ELSE db
  /\ at' = "complete"
  /\ UNCHANGED <<files, holder, position, signals, outside, ghosts>>

(* The call's metrics: a solved game ends the task unless it failed. *)
Score ==
  /\ at = "score"
  /\ terminal' = IF /\ LastObs = "won" /\ outcome # "controller_error"
                    /\ terminal \notin Failures
                   THEN "solved" ELSE Limit
  /\ db' = IF IsDone \/ ~ SingleInstance THEN FinishEpisode(db, episode) ELSE db
  /\ at' = "complete"
  /\ UNCHANGED <<files, holder, position, signals, outside, ghosts>>

Complete ==
  /\ at = "complete"
  /\ db' = UpdateRecord(db, active, "completed")
  /\ active' = 0
  /\ at' = "final_record"
  /\ UNCHANGED <<files, holder, env, phase, episode, resetActions, model,
                 outcome, control, outside, ghosts>>

(* tool() writes the exploration's record once more, with its evidence. *)
FinalRecord ==
  /\ at = "final_record"
  /\ db' = UpdateRecord(db, Len(db.records), IF outcome = "ok" THEN "completed" ELSE "failed")
  /\ at' = "tail"
  /\ UNCHANGED <<files, holder, position, control, outside, ghosts>>

-----------------------------------------------------------------------------
(* The end of tool(): the limit once more, the answer kept, the lock freed. *)

ReadLimit ==
  /\ at = "tail"
  /\ terminal' = Limit
  /\ at' = "remember"
  /\ UNCHANGED <<disk, holder, position, signals, outside, ghosts>>

(* Mutant: the answer is not kept. *)
RememberNothing ==
  /\ at = "remember"
  /\ at' = "answer"
  /\ UNCHANGED <<disk, holder, position, control, outside, ghosts>>

Remember ==
  /\ at = "remember"
  /\ db' = IF HasRid(holder) THEN RememberRequest(db, RidOf[holder], NameOf[holder]) ELSE db
  /\ at' = "answer"
  /\ UNCHANGED <<files, holder, position, control, outside, ghosts>>

(* Mutants: the command's holder is not forgotten; the lock is kept once the
   task has a reason to stop.                                               *)
AnswerHoldsOn ==
  /\ at = "answer"
  /\ call' = [call EXCEPT ![holder] = "answered"]
  /\ at' = "idle"
  /\ UNCHANGED <<disk, position, holder, control, boots, faults, ghosts>>
AnswerKeepsLock ==
  /\ at = "answer" /\ terminal = "none"
  /\ call' = [call EXCEPT ![holder] = "answered"]
  /\ holder' = NoRequest
  /\ at' = "idle"
  /\ UNCHANGED <<disk, position, control, boots, faults, ghosts>>

Answer ==
  /\ at = "answer"
  /\ call' = [call EXCEPT ![holder] = "answered"]
  /\ holder' = NoRequest
  /\ at' = "idle"
  /\ UNCHANGED <<disk, position, control, boots, faults, ghosts>>

(* The event, the kept answer or status.json cannot be written: the client
   gets an error instead of the answer, and nothing is undone.              *)
AnswerFaults ==
  /\ at \in {"remember", "answer"}
  /\ Fault(terminal)
  /\ call' = [call EXCEPT ![holder] = "lost"]
  /\ holder' = NoRequest
  /\ at' = "idle"
  /\ UNCHANGED <<disk, position, signals, boots, ghosts>>

-----------------------------------------------------------------------------
(* Without the lock: the clock, the session loop, shutdown. *)

(* The deadline passes, or a cancelled call moves it to now. *)
DeadlinePasses ==
  /\ serving \/ holder = Collector
  /\ ~ expired
  /\ expired' = TRUE
  /\ UNCHANGED <<disk, at, holder, position, terminal, serving, stopping,
                 outside, ghosts>>

(* The loop starts the agent's clock, or pauses it while a usage limit lasts:
   on_start sets the deadline anew.                                         *)
PauseClock ==
  /\ serving /\ stopping = "no" /\ expired
  /\ expired' = FALSE
  /\ UNCHANGED <<disk, at, holder, position, terminal, serving, stopping,
                 outside, ghosts>>

(* The loop ends for a reason a later process can continue from, or not. *)
LoopStops ==
  /\ serving /\ stopping = "no"
  /\ exit' \in {"open", "final"}
  /\ stopping' = "decided"
  /\ UNCHANGED <<created, db, collected, at, holder, position, terminal, expired,
                 serving, outside, ghosts>>

Shutdown ==
  /\ stopping = "decided"
  /\ stopping' = "shutdown"
  /\ expired' = TRUE
  /\ terminal' = IF terminal = "none" THEN "interrupted" ELSE terminal
  /\ UNCHANGED <<disk, at, holder, position, serving, outside, ghosts>>

(* close(), once it holds the lock. *)
CloseEpisode ==
  /\ at = "idle" /\ stopping = "shutdown"
  /\ db' = FinishEpisode(db, episode)
  /\ episode' = 0
  /\ at' = "close"
  /\ UNCHANGED <<files, holder, env, phase, resetActions, active, model, outcome,
                 control, outside, ghosts>>

Close ==
  /\ at = "close"
  /\ db' = IF active # 0 THEN UpdateRecord(db, active, "interrupted") ELSE db
  /\ active' = 0
  /\ at' = "closed"
  /\ UNCHANGED <<files, holder, env, phase, episode, resetActions, model,
                 outcome, control, outside, ghosts>>

(* The process ends: closed, refused by its constructor, or killed. *)
Die ==
  /\ at # "down"
  /\ at' = "down"
  /\ FreshMemory
  /\ call' = [r \in Requests |-> IF call[r] = "waiting" THEN "lost" ELSE call[r]]
  /\ UNCHANGED <<disk, boots, faults, refuted, executed>>

-----------------------------------------------------------------------------
Starting == Boot \/ FirstReset \/ RestoreFails \/ Restore \/ AfterRestore \/ Construct
Collecting == CollectAct \/ CollectStop \/ CollectFinish \/ CollectSave \/ CollectedOne
Entering == \E r \in Requests : EnterRefused(r) \/ EnterBadFiles(r) \/ EnterBranch(r)
Resetting == Reset \/ ResetFaults \/ ResetFinish \/ ResetStart \/ ResetStoreFaults
Modelling == Reject \/ Accept \/ Adopt \/ CommandFails \/ CommandFaults \/ FailRecord
               \/ PlanCompletes \/ PlanStartUnexplained
Exploring == Begin \/ Fresh \/ StopExploring \/ ControllerFails \/ RunFaults \/ ModelFails
               \/ ChooseAction
               \/ Act \/ ActInvalid \/ ActFaults \/ Record \/ RecordFaults \/ Judge
               \/ Score \/ Complete \/ FinalRecord
Answering == ReadLimit \/ Remember \/ Answer \/ AnswerFaults
Closing == CloseEpisode \/ Close
Outside == DeadlinePasses \/ PauseClock \/ LoopStops \/ Shutdown

Next ==
  \/ Starting \/ Collecting \/ Entering \/ Resetting \/ Modelling \/ Exploring
  \/ Answering \/ Closing \/ Outside \/ Die
  \/ \E r \in Requests : Send(r) \/ AnswerAtOnce(r)

Spec == Init /\ [][Next]_vars

(* What holds the lock goes on, a waiting command gets it, and the loop's
   teardown calls shutdown(), which waits for it.                           *)
Progress ==
  \/ FirstReset \/ RestoreFails \/ Restore \/ AfterRestore \/ Construct
  \/ Collecting \/ Entering \/ Resetting \/ Modelling \/ Exploring \/ Answering
  \/ Closing \/ Shutdown \/ \E r \in Requests : AnswerAtOnce(r)

FairSpec == Spec /\ WF_vars(Progress)

-----------------------------------------------------------------------------
(* The types, and what `at' says of the lock's holder. *)
Points == {"down", "first_reset", "restore", "after_restore", "construct", "failed",
           "collect", "collected_one", "collect_finish", "collect_save", "idle",
           "reset", "reset_finish", "reset_start", "validate", "adopt", "plan", "failing",
           "begin", "fresh", "loop", "act", "record", "judge", "score", "complete",
           "final_record", "tail", "remember", "answer", "close", "closed"}
Unheld == {"down", "first_reset", "restore", "after_restore", "construct", "failed",
           "idle", "close", "closed"}

TypeOK ==
  /\ created \in BOOLEAN /\ collected \in BOOLEAN /\ exit \in {"open", "final"}
  /\ db \in Stores /\ db.running \subseteq DOMAIN db.log
  /\ at \in Points /\ env \in Seq(Entries) /\ phase \in Phases
  /\ terminal \in Reasons /\ expired \in BOOLEAN
  /\ episode \in 0 .. Len(db.log) /\ resetActions \in Nat
  /\ active \in 0 .. Len(db.records) /\ accepted \in Nat
  /\ liveState \in {"none", "behind", "current"} /\ sized \in BOOLEAN
  /\ outcome \in {"ok", "error", "controller_error"} /\ serving \in BOOLEAN
  /\ stopping \in {"no", "decided", "shutdown"}
  /\ call \in [Requests -> {"unsent", "waiting", "answered", "lost"}]
  /\ boots \in 0 .. MaxBoots /\ faults \in 0 .. MaxFaults /\ late \in Nat
  /\ refuted \subseteq DOMAIN db.log /\ executed \subseteq Requests
  /\ holder = NoRequest <=> at \in Unheld

(* No more steps and resets than the task's budget are ever recorded, over
   all its processes.                                                       *)
RecordedWithinBudget == TotalSteps(db) + TotalResets(db) <= MaxActions

(* The implementation of TaskHistory: a process that is gone, or has not
   rebuilt its environment yet, stands for one that holds the recorded log. *)
History == INSTANCE TaskHistory
             WITH log <- db.log, env <- IF env = <<>> THEN db.log ELSE env
HistorySpec == History!Spec

(* Nothing is lost if the process of a task that goes on dies between two
   commands: what _restore would recompute is what the coordinator holds.   *)
RestorableWhenIdle ==
  at = "idle" /\ terminal = "none" =>
    /\ env = db.log
    /\ resetActions = TotalResets(db)
    /\ SingleInstance => episode = LastEpisode(db)
    /\ UsesModel => accepted = LastAccepted(db)
    /\ phase = (IF db.phase = "none" THEN InitialPhase ELSE db.phase)

(* Once shutdown() has stopped the task, at most one real operation that had
   passed its check still runs.                                             *)
OneLateAction == late <= 1

(* A reason to stop is never cleared, and a failure never becomes a success. *)
StopReasonKept ==
  [][at # "down" /\ at' # "down" =>
       /\ terminal # "none" => terminal' # "none"
       /\ terminal \in Failures => terminal' \in Failures]_vars

(* A request id is executed once: again only when every answer of an earlier
   execution was lost, with its process or to a fault of the answer itself.  *)
RequestExecutedOnce ==
  \A r, s \in executed :
    HasRid(r) /\ RidOf[r] = RidOf[s] /\ call[r] # "lost" /\ call[s] # "lost" => r = s

(* Between commands no record is running and no episode but the live one. *)
NothingInFlight ==
  at \in {"idle", "closed"} =>
    /\ \A i \in DOMAIN db.records : db.records[i].status # "running"
    /\ db.running \subseteq {episode}

(* A CWM task explores only with an accepted version. *)
ExploresWithModel == UsesModel /\ phase = Exploration => accepted # 0

(* The controller never acts under a CWM that a recorded step refutes. *)
ActsOnUnrefuted == at = "act" /\ UsesModel => refuted = {}

(* An interrupted initial collection goes on. *)
CollectionContinues == terminal # "initial_collection_failure"

(* The compactness totals cover the accepted CWM's validation. *)
SizesCoverAccepted == at = "idle" /\ accepted # 0 => sized

(* Once the loop has decided to stop, the task is closed; a command that was
   sent is answered, unless its process dies or the answer itself fails.    *)
ShutdownCloses == stopping # "no" ~> at \in {"closed", "down"}
CommandsAnswered == \A r \in Requests : call[r] = "waiting" ~> call[r] # "waiting"
=============================================================================
