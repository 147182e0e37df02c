# A verification project for regact

regact runs an AI agent on a game under one of several protocols and measures
how many tool calls and real actions it needs. These modules model the parts of
it that decide those numbers, that survive crashes and that stop: the grants of
framework commands, the managed coordinator (vanilla and CWM) with its SQLite
store, the session loop and the resume of a task, the launch of many tasks, the
policy search, and the validation and planning of a code world model. Paths are
relative to `src/src/regact/`.

## The system

| Component | State | Operations | Interacts with | Hard behaviour |
|---|---|---|---|---|
| Command grants (`protocols/managed/grants.py`) | open calls and what each issued, the last finished call, request ids granted | `call_started`, `call_finished`, `claim` | called by the session loop and, for every shell command, by `ManagedTool.call` | two independent streams, parallel calls, background commands, client retries, failed turns |
| Managed coordinator (`protocols/managed/session.py`) | phase, reason to stop, deadline, live episode, resets spent, running record | `collect_initial`, `tool` (RunController, Reset), `shutdown`, `close` | one lock; the store; the live environment; the loop reads `terminal` and sets the deadline without the lock | crash at any commit, environment fault, shutdown during a run, lost answers |
| CWM coordinator (`protocols/cwm/session.py`) | accepted version, State carried at the live point, compactness totals | `update`, `plan`, checks around each real action | specialises the managed coordinator | a refuted model must not be acted on; versions and phases survive resumes |
| Experience store (`protocols/cwm/store.py`) | episodes, steps, records, answered request ids, phase events | one SQLite transaction per method | written by the coordinator only | what a crash between two transactions leaves behind |
| Rebuild (`protocols/managed/resume.py`) | none | replay of the store on a fresh environment | store, environment | empty store, a game that does not repeat itself |
| Session loop (`orchestration/loop.py`, `session/state.py`) | turn and error counters, pending tools, budgets, the saved state file | turns, event dispatch, usage-limit pauses, verdict, teardown | agent, protocol session, stop signal, grants | stops and deadlines that arrive while calls run, a death at any save |
| Task runner (`orchestration/task.py`) | task directory, exit reason | set-up, resume check, session, teardown | builds the coordinator, runs the loop | which exits a later process may continue |
| Scheduler, signals, stop files (`orchestration/scheduler.py`, `experiment.py`, `signals.py`, `stop.py`) | pool of tasks, a counter of requests, STOP files | run, stop, force stop | task runner | requests that arrive while tasks are queued, starting or running a tool |
| Policy search (`protocols/policy_search.py`, `tools/submit_solution.py`, `features/controller.py`) | submissions and their count, the last result | SubmitSolution, ExitTask, final re-score | loop, executor | cancelled callers, a submission being scored when the loop ends |
| Executor (`controllers/`) | one evaluation | load, episodes, aggregation | environment server | faults of the environment against faults of the controller |
| Environment session and server (`env/`) | live handle, action counters | make, reset, step, stop | coordinator or HTTP clients | one live instance for every client |
| Validation, planner (`protocols/cwm/validation.py`, `planner.py`) | caches; frontier and keys seen | replay of the dataset; breadth-first search | CWM worker | what is taken over from a cache; where a search may be cut |
| Worker RPC (`protocols/cwm/worker.py`, `worker_entry.py`) | one process, one clock | `call`, `close` | coordinator, validation, planner | deadline during a call |
| Network bridge (`security/netbridge.py`) | byte streams | forward, half-close | sandboxed agent | order and end of streams |
| Others: adapters, sandbox runtime, problems, viewer, prompts, configuration | | | | no evolving state of their own, or third-party code |

What makes the modelled ones correct:

* grants: a command name is never granted more often than calls were started; a
  foreground command of a well-behaved agent is served; every claim ends.
* coordinator: the recorded history is what the environment did, whatever dies
  or fails; the action budget holds over all processes; a stopped task makes at
  most the one action that had passed its check; a request id is executed again
  only when its earlier answers were lost; a reason to stop is kept; the task
  closes; after a resume it is where it was.
* CWM: exploring needs an accepted version; no action is taken under a version
  that a recorded step refutes; the verdict is that of a full replay; a plan
  leads where it says and an optimality claim is true of the whole model.
* loop: budgets of turns and calls hold over all processes; a wall of errors,
  and nothing less, ends the session; a verdict is kept; a told session ends.
* launch: what is reported is what a resume finds; finished work is not run
  again; nothing starts after a stop; tools are not cut without cause.
* policy search: submissions are scored one by one, in order; `solved` is
  earned; the official result is the re-score of the file that is left.

`PROJECT.json` lists every hazard with its line and the properties that cover it.

## Modules

| Module | Models |
|---|---|
| `CommandGrants` | `grants.py`, with the agent, its event stream and the control channel around it |
| `ExperienceStore` | the methods of the store, each one transaction, as operators on the file's contents |
| `Coordinator` | the managed and the CWM coordinator over one store and one environment, process deaths and resumes included; composes `ExperienceStore` |
| `TaskHistory` | the abstract specification of the real history; `Coordinator` implements it |
| `AgentLoop` | the session loop of one task, its saved state, and the processes that continue it |
| `Launch` | the launches of a run directory: pool, signals, STOP files, usage limits |
| `PolicySearch` | submissions, evaluations on the shared environment, the teardown's re-score |
| `WorldModel` | validation of one code world model, the State carried afterwards, the planner |
| `*_proofs` | what is proved of the module before the underscore; `Coordinator` has three: history and budget, stops and requests (`_stop_`), resume and phases (`_restore_`) |
| `MC*` | the instances that TLC checks |

### CommandGrants

`open`, `used`, `hasLast`, `last`, `seen`, `requests` are the fields `_open`
(keys and values), `_last`, `_seen`, `_requests`; `openedAt` is the dictionary's
insertion order, which decides whose grant is charged. `CallStarted` and
`CallFinished` are the two methods, taken by `Dispatch` when the loop reads the
head of the event stream. `Poll` is one pass of the loop in `claim`: `Spend`,
`LetThrough` (a known id, or no call ever seen) or `Refuse` (the wait is over).
The agent, the client's retries (`Retry`) and the failed turn (`TurnError`, the
`break` after an AgentError in `_run_turn`) are the environment. `parallel` is
how many calls the agent of this behaviour keeps running at once. `issued`,
`sinceStart`, `starts` and `honest` are history variables: an agent stays honest
while its calls send each command name once, in the foreground, and end after
the answer.

### ExperienceStore and Coordinator

The `episodes` and `step_events` tables are one log, because the replay reads
them in that order: an episode is the position of its first entry. `running` is
the set of episodes with status running; `records` the exploration, validation
and plan records; `answered` the requests table; `phase` the latest
phase_changed event. An observation is only told apart by what the coordinator
reads from it: goes on, over, won.

`at` is the program point. From the moment it leaves `"idle"` until it returns
there the lock is held by `holder`: a command, or `Collector` for the initial
collection. One step is one disk commit or one environment call with the memory
updates next to it, so a crash (`Die`) can fall between any two of them. The
constructor is `Boot`, then `FirstReset` or `Restore`/`AfterRestore`, then
`Construct`; `collect_initial` is `CollectAct` ... `CollectSave`; `tool` is `Enter*`,
the command's own actions, `ReadLimit`, `Remember`, `Answer`; RunController is
`Begin`, `Fresh` (multi_instance), the loop `ChooseAction`, `Act`, `Record`,
`Judge` (CWM), its exits, `Score`, `Complete`, `FinalRecord`. Without the lock
run the clients (`Send`, `AnswerAtOnce` takes and frees it at once), the clock
(`DeadlinePasses`, `PauseClock`), the loop (`LoopStops`) and `Shutdown`.

Three constants choose the program: `SingleInstance` (the problem's lifecycle),
`UsesModel` (the CWM subclass), `Prefill` (the collection wants more than the
first observation). `Deterministic` says whether the game repeats itself. The
history variables are `refuted` (recorded steps that the accepted version had
predicted otherwise), `late` (operations executed after shutdown()) and
`executed` (commands that reached their own work).

Abstractions: whether a model explains an observation, a controller fails or a
game ends is a choice; of the exit reasons only resumable or final is kept
(`exit`); starting an episode and committing it is one step, for the one place
where a lost start matters not (a fresh environment that was not recorded has
executed nothing); shutdown's read and write of `terminal` is one step (there is
no await or call between them that gives up the interpreter lock to a writer);
in the tail of `tool()` the event, the kept answer and `status.json` may fail to be
written (`AnswerFaults`), the updates of its records may not; an environment that
fails at a fresh start raises none of the exception types `tool()` answers as an
ordinary error; `max_actions_per_task` is set.

### TaskHistory

A log and what the live environment has executed. The environment executes one
operation (`Execute`), which is recorded (`Commit`) or never built upon: the
environment is rebuilt from the log (`Rebuild`) before anything else happens. A
start is recorded with its execution. `Coordinator` implements it under the
mapping `log <- db.log`, and `env` read as the log while there is no process or
it has not rebuilt its environment yet.

### AgentLoop

`mem` is the `ExperimentState` object and `disk` the last saved
`logs/experiment_state.json`; every `_save_state` is a step that copies the one
to the other, and `Die` may fall between any two steps. `turns`, `errorTurns`,
`noToolTurns` are the loop's locals, `out` its `_TurnOutcome`. One pass of the
loop is `DecideStop` or `StartTurn`, `Send` (saved before the message leaves),
then one event at a time (`CallStarts`, `CallRunsInline`, `CallReturns`,
`CallRefused`, `BackendFails`), each followed by `AfterEvent`, until the stream
ends, crashes, or a watcher cuts it; then the outcome in the order of the code:
`CutShort`, `LimitEnds`/`LimitWaits`, `ErrorTurn`, `OkTurn`. After the loop come
`SaveVerdict`, `Teardown`, `SaveMetrics`, `CloseTask`. `Boot` is what `run_task`
does with an earlier state file. `walltime_limit` stands as its `exit_detail`,
because that decides whether a resume is allowed. `clock` tells the task's own
budget from the experiment's deadline: the first does not run in a pause.

Left out: warnings about flagged commands, synthetic calls, exceptions that
escape `run_session` (`Launch` has them, as `TaskRaises`), the refusals of a resume that raise before a session
exists, and events that an aborted stream still holds.

### Launch

`job` is where the pool has a unit, `record` what its directory says, `result`
what the launch will report. `requests` is the `StopSignal` all tasks share,
`seen` the highest level a task's `FileStop` has latched from the two STOP files
at its own `Poll`. `Admit` is one call of `unit` behind the semaphore, in the
order of the plan, with its `clear_stop` and first look at the stop. A loop that
is left, by `ToolEnds`, `Interrupted` or `TaskEnds`, takes `Verdict`: the reason is
saved (`loop.py:280`) and the unit is "closing", while its teardown hooks run and
`session.close()` and `agent.close()` are called. `TaskReturns` is the end of that,
with the `stop.set()` for a usage limit, which therefore comes after the close.
An exception of `run_task` may come before its directory is made (the last case
of `Admit`), in the loop, or while it closes, over a verdict that is on disk
(`TaskRaises`): with several workers the pool reports `task_error` and the
directory stays as it is; with one worker the launch ends, which is `Die`.
`Files`' levels and the counter stop at two, beyond which the code draws no
distinction. A launch after the first is a `resume=` of the directory.

### PolicySearch

`call` and `holder` are the HTTP calls of SubmitSolution and the lock they
queue for; `score` is each evaluation at the grain of load, reset, one step of
interference, end of episode. `own` is the scorer that made the environment's
live instance, as long as nobody else has touched it: the HTTP server gives
every client the same one. `Cancel` is the client that goes away, while its
evaluation goes on behind `asyncio.shield`. `StartHook`/`FinishHook` are
`FinalizeControllerHook`, which takes no lock; `SaveMetrics` and `CloseTask` the
two saves after it, `agent.close()` coming between them.

Left out: ExitTask and all limits are one reason, `unsolved`; shadow replay,
videos, the copy of the solution, reminders and feature metrics; single_instance
problems (refused by the protocol's `validate`).

### WorldModel

A submitted model is three functions, a goal one. `validate` is replayed event
by event, with `validated` and `diverged` its two caches and a history in the
place of its hash. `running` is the State the coordinator carries, caught up by
`LiveState` from wherever its history is found (`Anchors`) or from the first
observation. `nodes`, `visited`, `cursor`, `choice` are the planner's; each
expansion is one step that meets a limit, a time-out in either callback or in
the goal, the memory bound, a key seen before, or a new node.

`Explains`, `Ends` and `Reachable` define what the answers should be, without
caches, frontier or cut: a run of the model along a history, along a list of
actions, and the keys (State, was anything new met?) that every closed set
contains. Left out: repeat calls and the failure `non_deterministic_model` (a
model is a function here), counterexample texts, state sizes (whether the model
is compact is a choice), runs of multi_instance between validation and plan.

## Runs

| Run | Instance | Shows |
|---|---|---|
| `grants` | an agent with one or two calls at once, background, retries, a failed turn | the grant budget, one command per call while calls are sequential and no turn failed, honest commands served, claims end |
| `vanilla_single` | one live environment, initial collection, crash, fault | types, action budget, nothing left in flight, the collection goes on, request ids executed again only after a lost answer, at most one late action, refinement |
| `cwm` | CWM, single instance, crash between any two commits | what a resume recomputes is what was held; exploring needs a version; no action under a refuted model |
| `shutdown` | CWM, fresh environments, a game that may not repeat itself, one process | stop reasons kept, a stopped task closes, commands are answered |
| `loop` | overlapping calls, failing turns, a pause, interrupts, two processes | budgets over all processes, the wall of errors, verdicts kept, a told session ends |
| `launch` | three tasks, up to two workers, two launches, two interrupts each and one STOP file | reports and final results, with exceptions anywhere; nothing starts after a stop, tools cut only after two requests, stopped launches end once their tasks have closed |
| `policy` | two submissions, a losing, a winning and a missing file, two episodes | order of submissions, `solved` earned, the official result, waiting submissions answered |
| `search` | every step function and rendering of a small model, two logs, two goals | verdict, carried State, plan, optimality |

Four runs show a disagreement between the code and what it says of itself:

| Run | What happens |
|---|---|
| `errorturn` | after a failed turn its calls stay open: a later call may execute a command twice |
| `unjudged` | a crash between record and check lets a multi_instance CWM task explore under a refuted model |
| `sizes` | a resume forgets the compactness totals of the accepted validation |
| `force` | two tasks that meet the usage limit count as two interrupts: a third one's tool in flight is abandoned |

Some properties hold only of part of the behaviours, and say which part.
`HonestServed` is of agents that run one call at a time (`parallel = 1` in the
formula). With two calls side by side and a third one it is false: c2's command
is charged to c1, the earliest open call (`grants.py:54`), so c2 ends with its own
grant unused; the start of c3 clears that grant; c1's command is then charged to
c3, and the only command of c3, in the foreground, is refused.
`OneWhileSequential` stops at the first failed turn, `errorturn` shows why.
`CollectionContinues` and `NothingInFlight` are of single_instance: in
multi_instance `_restore` leaves no live episode (`session.py:195`), so a resume
inside the initial collection fails the task in `_step`, and the episode of the
dead process keeps the status running. `ActsOnUnrefuted` holds after a crash
when the refuting step is in the live episode, which `live_state` replays; the
`cwm` run sends no Reset for that reason. `CallBudget` allows what the code
allows: calls that overlap the one that spends the budget, and one counted call
that a death kept from the disk. `SolvedIsEarned` and `OfficialResult` exclude an
agent that plays on the shared environment while it is scored, and the second
one a submission that is scored beside the teardown.

Bounds.

* `grants`: two calls and three commands of two names, one of them anonymous,
  every answered one may be sent again; `parallel` is 1 or 2, at most one failed
  turn. More commands than grants compete while another call starts.
* `Coordinator` runs: `MaxBoots = 2` (one crash and one resume, at every point; a
  second resume reads the same store as the first), `MaxFaults` at most 1 (a
  fault ends the task), two actions of budget (a step or a reset can use the
  last one), three or four commands, of which two share a request id in
  `vanilla_single` and one waits while another runs. In `cwm` the commands of one
  name are interchangeable: none has an id, and no property names one, so the
  symmetry is sound. `shutdown` uses one process because what a crash may do to
  `ShutdownCloses` and `CommandsAnswered` is part of their statements.
* `loop`: three turns (the wall of errors takes three), a call budget of 1 with
  two calls that may overlap, two turns without tools, one pause, two processes.
* `launch`: three tasks for two workers, so that one waits; two launches, so
  that a directory is met again; two interrupts in each and one STOP file, so that
  force is reached by every mixture of signals, files and limits. `force` takes
  three workers and no operator: two limits are enough.
* `policy`: two submissions meet at the lock and with the teardown; two episodes
  separate a failed one from the last.
* `search`: three States, of which one may end the game; one log that repeats
  histories and one of a single start; `MaxEvidence = 1` step or reset after
  validation; `MaxNodes = 5`, `MaxDepth = 3`, `MaxCalls = 17` stop some searches
  and leave others to exhaust their frontier (an odd number of calls stops
  between a step and its render).

Deadlock checking is off everywhere: a task that ended, or whose processes are
used up, stops.

## What the models also show

Behaviours met while modelling that contradict no line of the repository, or
only a reasonable wish; no run is named after them.

* The store file is created before the first episode is recorded. A process that
  dies in between leaves a task that every later process fails to resume
  (`Coordinator`: `RestoreFails` on an empty log; `session.py:109`).
* A command whose answer cannot be kept, or whose `status.json` cannot be written,
  has been executed and answers with an error of the server. In the first case
  the same id, sent again, is executed again in the same process (`AnswerFaults`).
* Error turns and pauses do not reset the count of turns without tools
  (`AgentLoop`: `ErrorTurn`, `PauseEnds`), even when they contained tool calls.
* A protocol that is over (`solved`) during the third failing turn ends as
  `agent_api`, which a resume continues.
* In a resumed launch a STOP file written for a task that still waits for a
  worker is removed at its admission (`Launch`: `StopTask`, then `Admit`).
* With several attempts per task, `regact.stop --task` writes its file where no
  `FileStop` looks (the parent of the attempts' directories; the model has one
  attempt per task).
* A resumed launch that is stopped reports a finished task that had not been
  admitted yet as `not_started`. Its directory is untouched, as `ReportTrue` says.
* With one worker an exception of one task ends the launch (`Die`); with several
  it is that task's result. One that comes after the verdict was saved, in a
  teardown hook or a close, is reported as `task_error` although the directory
  holds that verdict; if it is a final one, a resume does not run the task again
  (`TaskRaises`; `loop.py:280`, `task.py:701`, `scheduler.py:65`).
* A usage limit stops the launch only when its task returns. Until then waiting
  tasks may start, and if the task's close raises, nobody is stopped
  (`TaskReturns`, `TaskRaises`).
* A task that was told to stop, even twice, ends only when its teardown hooks have
  run and `session.close()` has got the coordinator's lock, which the command that
  was abandoned may hold (`ClosesEnd`).
* Parallel calls of an honest agent may take each other's grants until one is
  refused (`HonestServed` without its guard, above).
* The teardown's re-score takes no submission lock. A submission in flight can
  replace `last_submission_results` between the two last saves, so that the state
  file and the metrics disagree (`overlapped` in `OfficialResult`), and the two
  evaluations share one live instance. So do the agent's own requests during a
  submission (`explored`).
* Only the latest submission decides `solved`.
* Submitted models are checked for repeating themselves only at episode starts
  and every tenth step (`validation.py:87`): one that does not may be accepted.

## Fairness

No fairness is assumed of the agent, the clock, the operator, crashes, or of one
client over another.

* `CommandGrants` asks that the loop keeps reading its stream and that a polling
  claim is polled again, which is what an asyncio loop does with a coroutine that
  sleeps 20 ms.
* `Coordinator` asks weak fairness of one action, `Progress`: the lock's holder
  goes on, a waiting command gets the free lock, and the teardown calls shutdown.
  The commands of a run are finitely many, each is sent once, and a run stops at
  a cap, a limit or the end of the game, so weak fairness of the disjunction is
  enough for `CommandsAnswered`; it does not claim that a thread waiting for the
  lock is never overtaken.
* `AgentLoop` asks it of the loop's own steps and its two watchers: tasks of one
  event loop that are ready are run. Teardown hooks are assumed to end.
* `Launch` asks it of the steps of `run_experiment` and of a task's poll and
  interrupt. What the code does not bound is in the properties as a premise.
  `ForceEnds` assumes that closes end (`ClosesEnd`): teardown hooks, the wait for
  the coordinator's lock, the agent's process. `StopEnds` assumes that too, and
  that tools return (`ToolsReturn`).
* `PolicySearch` asks it of the lock's hand-over, of each evaluation (its process
  is killed after a time-out) and of the publication of its result.

## Proofs

All are proved for every value of the constants, from the named assumptions of
the modules: finitely many calls, positive budgets, natural bounds, Boolean
flags, names that differ, models that are functions.

* `CommandGrants_proofs`: `TypeCorrect`, `BudgetHolds`, `SequentialHolds`,
  `ServedHolds`. The budget is not
  inductive: a grant given now was earned by a start long ago. The strengthening
  `GrantsCovered` adds, for each name, the grants not issued yet: open calls that
  have not issued it plus one for the last finished call. A start adds one of
  each name, a finish moves one, a spend turns one into an issue. The proof is a
  count of `Unspent` before and after each action. That sequential calls get one
  command each needs the stream as well: starts and ends alternate on it, and the
  table is behind its head while the agent is at its end (`InOrder`), so one call
  at most is open and a name granted since the last start is not owed any more
  (`OneOwed`). That an honest call is served (`ServedInv`) is the converse: only
  commands of the running call wait, so from the moment its start is read its
  grants are spent by its own commands alone (`OwnGrants`); a name it has not been
  granted yet is still there when its command polls, and a repeat of a granted one
  is let through by its id.
* `Coordinator_proofs`: `HistoryHolds` is `HistoryInv`: the shape of what is
  counted; nothing recorded before a process exists; the environment is the log,
  or one operation ahead of it exactly where the coordinator stands between call
  and commit or has latched a failure (`InStep`); every recorded or executed
  operation is charged against the budget (`Charged`), so a check that passed
  leaves room for the one that follows. From it `BudgetHolds`, and
  `HistoryRefined`: each action maps to a step of `TaskHistory` or to none; the
  invariant tells which operation is the unrecorded one.
* `Coordinator_stop_proofs`: `LateHolds`, `RequestsHold`, `ReasonHolds` from
  `StopInv` and `ExecutedInv`. The first says who holds the lock at each program
  point, that after shutdown() a reason is set, and that the late operations plus
  the one that has passed its check are at most one (`LateInv`). The second says
  where the answer of an executed request is: lost with its process or to a fault,
  in the store, or with the command that holds the lock, whose client still waits;
  a command enters only when no other is in hand and its id is not in the store.
* `Coordinator_restore_proofs`: `RestorableHolds`, `ExploresHolds`, `FlightHolds`
  from `ResumeInv` on top of the other two: which records are running at which
  program point and what their versions are (`RecordInv`), how the accepted version in memory, the
  one in the store and the phase follow each other through an update
  (`ModelInv`), which episode is live (`EpisodeInv`), and that the episode a single
  instance has running is the last one, ended before the next begins and before
  the task closes (`RunningInv`). `RestorableWhenIdle` is what is left of the first
  three where no command runs; `NothingInFlight`, of single_instance, of the first
  and the last. `ContinuesHolds` and `UnrefutedHolds` add `CollectInv` (no CWM is
  accepted before the initial collection is saved, and the live episode is a
  position of the log) and `RefutedInv`: without Resets the whole log is one
  episode, so a State that is recomputed by replaying it meets every refuted step;
  one that is kept as current has passed its judgement, unless the task is
  stopping. `TypeHolds` takes from these the parts of `TypeOK` they contain.
* `AgentLoop_proofs`: `TypeCorrect`, `TurnsHold`, `CallsHold`, `VerdictHolds`,
  `WallHolds` from `LoopInv`. `TypeCorrect` is more than types: memory has an exit
  reason exactly from the verdict on, and at every program point of the teardown
  it is the one on disk (`ExitRecorded`). Messages sent are counted by the saved turn, because a turn is on
  disk before its message leaves (`TurnInv`); the calls in memory are at most one
  ahead of the saved ones, and an agent that is let go on with nothing running is
  below its budget (`CallInv`); a final reason is on disk only after the loop was
  left for it (`VerdictInv`). For `WallHolds`, `ErrorsInv` says that `errorTurns` is
  the length of the longest run of failed turns at the end of the session with no
  tool call after the first of them, and that it is below the wall while the
  session goes on.
* `Launch_proofs`: `ReportsHold`, `CutsHold`, `FinalHolds`, `NothingStartsHolds` from
  `LaunchInv`. A running task has its directory open, a waiting one as it was, a
  closing one with its verdict; only a task without a final reason runs, so an
  exception, whenever it comes, undoes nothing (`RecordInv`); every request is an interrupt or a limit of this launch and every
  force was asked in it, a STOP file of an earlier one being gone before it could
  be read (`StopInv`). That last part is what `clear_stop` at launch and admission
  is for. `TypeCorrect` adds `RoomInv`: no task runs between launches, and a task
  gets in only past the semaphore, so no more run than there are workers, however
  many the next launch has.
* `PolicySearch_proofs`: `TypeCorrect`, `SubmissionsHold`, `SolvedHolds`,
  `OfficialHolds` from `PolicyInv`. Running evaluations are the lock holder's and
  the teardown's and no index is reused (`LockInv`); an undisturbed evaluation that
  is still perfect after an episode has a winning version (`EarnedInv`), and that
  is what is saved (`SavedInv`).
* `WorldModel_proofs`: `OptimalHolds` from `ModelInv`: every stored node is
  reachable, every key that the cursor has passed is expanded into keys seen
  unless it was too deep, and the best node outranks every eligible one as long
  as every goal was answered. When the frontier is exhausted the keys seen are
  closed, so they are all that is reachable. `LiveHolds`: States that validation
  hands on, by replay or from its cache, explain their history, and catching up
  extends such a run. Runs are functions from steps to States. `TypeCorrect` adds
  `TypesInv`: no history is in both caches of the validation, and the limits on
  calls, nodes and depth are looked at before each of them.

  `VerdictHolds` adds `VerdictInv`: a history in the refuted cache has no
  explanation, and the episodes counted as failed are those without one, of the
  episodes replayed so far and in the end of all. A mismatch at one screen
  refutes the whole history because a model explains a history by one State at
  most: two runs that part would part first at some step, and there both take the
  same action in the same State.

  `PlanHolds` adds `PlanInv`: each stored node is one action from its parent and
  knows something new if the parent did or its screen is unseen (`TreeInv`);
  depths never fall along the list and the deepest is one step below the cursor
  (`DepthsInv`); what a tried action leads to is stored at that depth or less
  (`BreadthInv`); the best node is among the least deep of its utility
  (`FirstInv`). A plan is the line of parents from the best node. That each node
  has such a line is shown by the first node without one, whose parent would have
  one; the recursive function that walks it exists because the sets closed under
  "parent of" have an intersection. That no shorter plan reaches as much is shown
  by the first step of a rival at which the search has stored nothing as early.
  `ShortestHolds` says so of plans that are not called optimal too; the deadline is
  the one stop after which it can fail, between storing a node and ranking it.

Only model-checked: liveness and everything under fairness (`ClaimEnds`,
`ShutdownCloses`, `CommandsAnswered`, `EndsWhenTold`, `ForceEnds`, `StopEnds`,
`SubmissionsAnswered`), which this prover does not do; and
`ActsOnUnrefuted` of a task that sends Resets (false after a crash, as above).
Every other property of a passing run is proved. The library's induction theorems take an
operator as a parameter, which the installed provers cannot instantiate; where an
induction is needed the proofs argue from the least number without the property.

## Not modelled

* `src/environnement` is a vendored corpus of game programs, some 146 000 of the
  repository's 172 000 lines of implementation. Its rules are data to regact:
  every model takes observations as choices or as a parameter. regact itself has
  some 24 000 lines, most of them game adapters, prompts, the viewer, agent
  adapters and command lines for sandboxes, where nothing evolves under the
  program's control.
* The worker RPC has one request in flight, over a pipe to a process that is
  killed at its deadline; what reaches the rest of the program, a call that fails
  or is late, is a choice in `WorldModel` and `Coordinator`.
* The network bridge and the egress proxy copy two byte streams with asyncio.
* Bundles and workspace files are copies and digests; a missing or altered file
  is a choice (`EnterBadFiles`).
* Action counters of the environment session (updated without a lock by server
  threads) are reported and decide nothing in the policy search.
* What each module leaves out of the code it models is named in its section.

## What could follow

The composition of `AgentLoop` with `Launch`, whose tasks are its processes seen
from outside; the worker RPC with its clocks.
