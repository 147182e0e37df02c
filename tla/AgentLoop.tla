------------------------------ MODULE AgentLoop ------------------------------
(***************************************************************************)
(* The session loop of one task (regact/orchestration/loop.py), the        *)
(* processes that start it again (run_task in orchestration/task.py) and   *)
(* the file they leave behind, logs/experiment_state.json                  *)
(* (session/state.py).                                                     *)
(*                                                                         *)
(* `mem' is the ExperimentState in memory and `disk' the last saved one:   *)
(* a process may die between any two saves.  `turns', `errorTurns',        *)
(* `noToolTurns' and `out' are the loop's locals.  `stop' is the StopSignal*)
(* the loop polls, `over' what the protocol session says, `clock' which    *)
(* time budget has run out.  `boots', `sent', `ran', `overlapped',         *)
(* `deaths' and `story' are history variables.                             *)
(***************************************************************************)
EXTENDS Integers, Sequences

CONSTANTS
  MaxTurns,     \* limits.max_turns_per_task
  MaxCalls,     \* limits.max_tool_calls
  MaxNoTool,    \* limits.max_consecutive_no_tool_turns, 0 for no such limit
  MaxWaits,     \* usage-limit waits that fit in _MAX_USAGE_LIMIT_TOTAL_WAIT_S
  MaxParallel,  \* bound: calls the agent keeps running at once
  MaxRan,       \* bound: calls the agent makes, and of them overlapping ones
  MaxBoots      \* bound: processes that run the task

ASSUME LoopAssumption ==
  /\ MaxTurns \in Nat \ {0} /\ MaxCalls \in Nat \ {0} /\ MaxNoTool \in Nat
  /\ MaxWaits \in Nat /\ MaxParallel \in Nat /\ MaxRan \in Nat /\ MaxBoots \in Nat

VARIABLES at, mem, disk, turns, errorTurns, noToolTurns, out, stop, over,
          clock, boots, sent, ran, overlapped, deaths, story

counters == <<turns, errorTurns, noToolTurns>>
outside == <<stop, over, clock>>
history == <<boots, sent, ran, overlapped, deaths, story>>
vars == <<at, mem, disk, counters, out, outside, history>>

ErrorWall == 3  \* _MAX_CONSECUTIVE_ERROR_TURNS

FinalReasons == {"protocol", "loop_limit", "tool_call_limit", "no_tool_progress", "task_budget"}
ResumableReasons == {"interrupted", "experiment_deadline", "usage_limit", "agent_api", "loop_crash"}

(* Mutant: every walltime_limit is resumable. *)
ResumableAnyWalltime(state) ==
  state.exit \in ResumableReasons \cup {"absent", "none", "task_budget"}

(* ExperimentState.resumable; walltime_limit stands here as its exit_detail.
   "absent" is no file, "none" a run whose reason was never recorded.       *)
Resumable(state) == state.exit \in ResumableReasons \cup {"absent", "none"}

NoState == [turn |-> 0, calls |-> 0, waits |-> 0, elapsed |-> "left", exit |-> "absent"]
NoOutcome == [tools |-> FALSE, error |-> "none", crashed |-> FALSE, pending |-> 0]

Init ==
  /\ at = "off" /\ mem = NoState /\ disk = NoState
  /\ turns = 0 /\ errorTurns = 0 /\ noToolTurns = 0 /\ out = NoOutcome
  /\ stop = 0 /\ over = FALSE /\ clock = "left"
  /\ boots = 0 /\ sent = 0 /\ ran = 0 /\ overlapped = 0 /\ deaths = 0 /\ story = <<>>

(* "left", or the task's own budget is spent ("task"), or else only the
   experiment's deadline has come ("deadline").                             *)
TimeUp == clock # "left"
Elapsed == IF clock = "task" THEN "task" ELSE "left"

(* _save_state: the time spent so far is saved with everything else. *)
SaveState == mem' = [mem EXCEPT !.elapsed = Elapsed] /\ disk' = mem'
(* Mutant: walltime_limit is saved without its exit_detail. *)
ExitReasonUndetailed(reason) == reason
ExitReason(reason) ==
  IF reason = "walltime_limit" THEN (IF clock = "task" THEN "task_budget" ELSE "experiment_deadline")
                               ELSE reason

-----------------------------------------------------------------------------
(* A process is started for the task's directory. *)

(* run_task: an earlier final result is returned as it is. *)
Boot ==
  /\ at = "off" /\ boots < MaxBoots /\ Resumable(disk)
  /\ at' = "prepare" /\ boots' = boots + 1
  /\ mem' = [disk EXCEPT !.exit = "none"]
  /\ clock' = disk.elapsed
  /\ UNCHANGED <<stop, over, disk, counters, out, sent, ran, overlapped, deaths, story>>

(* prepare() may end the task before its agent ever starts. *)
StopBeforeAgent ==
  /\ at = "prepare"
  /\ stop > 0 \/ over
  /\ mem' = [mem EXCEPT !.exit = IF stop > 0 THEN "interrupted" ELSE "protocol"]
  /\ disk' = mem' /\ at' = "close"
  /\ UNCHANGED <<counters, out, outside, history>>

(* Mutant: a resumed session starts its turns at zero. *)
StartSessionAnew ==
  /\ at = "prepare" /\ stop = 0 /\ ~ over
  /\ turns' = 0 /\ errorTurns' = 0 /\ noToolTurns' = 0
  /\ disk' = mem /\ at' = "decide"
  /\ UNCHANGED <<mem, out, outside, history>>

StartSession ==
  /\ at = "prepare" /\ stop = 0 /\ ~ over
  /\ turns' = mem.turn /\ errorTurns' = 0 /\ noToolTurns' = 0
  /\ disk' = mem /\ at' = "decide"
  /\ UNCHANGED <<mem, out, outside, history>>

-----------------------------------------------------------------------------
(* Between two turns. *)

(* _decide_stop, in the order of its tests. *)
StopReason ==
  CASE stop > 0 -> "interrupted"
    [] stop = 0 /\ over -> "protocol"
    [] stop = 0 /\ ~ over /\ turns >= MaxTurns -> "loop_limit"
    [] stop = 0 /\ ~ over /\ turns < MaxTurns /\ mem.calls >= MaxCalls -> "tool_call_limit"
    [] stop = 0 /\ ~ over /\ turns < MaxTurns /\ mem.calls < MaxCalls /\ TimeUp -> "walltime_limit"
    [] OTHER -> "none"

(* The exit reason is decided: the loop is left, and with it its locals and
   what only it looks at.                                                   *)
Leave(reason) ==
  /\ mem' = [mem EXCEPT !.exit = ExitReason(reason)]
  /\ turns' = 0 /\ errorTurns' = 0 /\ noToolTurns' = 0 /\ out' = NoOutcome
  /\ stop' = 0 /\ over' = FALSE /\ UNCHANGED clock
  /\ at' = "verdict"

DecideStop ==
  /\ at = "decide" /\ StopReason # "none"
  /\ Leave(StopReason)
  /\ UNCHANGED <<disk, history>>

StartTurn ==
  /\ at = "decide" /\ StopReason = "none"
  /\ mem' = [mem EXCEPT !.turn = turns + 1]
  /\ at' = "send"
  /\ UNCHANGED <<disk, counters, out, outside, history>>

(* _save_state before the message is sent: the turn counts from here on. *)
Send ==
  /\ at = "send"
  /\ SaveState
  /\ sent' = sent + 1 /\ at' = "turn"
  /\ UNCHANGED <<counters, out, outside, boots, ran, overlapped, deaths, story>>

-----------------------------------------------------------------------------
(* One turn: the agent's events, each dispatched and then saved. *)

(* A call that overlaps another one; the bound on calls is here. *)
Overlapping == IF out.pending > 0 THEN overlapped + 1 ELSE overlapped
MayCall == ran < MaxRan /\ Overlapping <= MaxRan

CallStarts ==
  /\ at = "turn" /\ out.pending < MaxParallel /\ MayCall
  /\ out' = [out EXCEPT !.pending = @ + 1, !.tools = TRUE]
  /\ mem' = [mem EXCEPT !.calls = @ + 1]
  /\ ran' = ran + 1
  /\ overlapped' = Overlapping
  /\ at' = "event"
  /\ UNCHANGED <<disk, counters, outside, boots, sent, deaths, story>>

(* A framework tool is executed by the loop itself, within the dispatch. *)
CallRunsInline ==
  /\ at = "turn" /\ MayCall
  /\ out' = [out EXCEPT !.tools = TRUE]
  /\ mem' = [mem EXCEPT !.calls = @ + 1]
  /\ ran' = ran + 1
  /\ overlapped' = Overlapping
  /\ at' = "event"
  /\ UNCHANGED <<disk, counters, outside, boots, sent, deaths, story>>

CallReturns ==
  /\ at = "turn" /\ out.pending > 0
  /\ out' = [out EXCEPT !.pending = @ - 1]
  /\ at' = "event"
  /\ UNCHANGED <<mem, disk, counters, outside, history>>

(* The agent refused to run the call: its budget is given back. *)
CallRefused ==
  /\ at = "turn" /\ out.pending > 0
  /\ out' = [out EXCEPT !.pending = @ - 1]
  /\ mem' = [mem EXCEPT !.calls = @ - 1]
  /\ ran' = ran - 1
  /\ at' = "event"
  /\ UNCHANGED <<disk, counters, outside, boots, sent, overlapped, deaths, story>>

BackendFails ==
  /\ at = "turn"
  /\ \E kind \in {"api", "limit"} : out' = [out EXCEPT !.error = kind]
  /\ at' = "event"
  /\ UNCHANGED <<mem, disk, counters, outside, history>>

(* Mutant: the tool-call budget is only looked at between turns. *)
EndsTurnUnbudgeted ==
  \/ out.error # "none"
  \/ out.pending = 0 /\ (over \/ stop > 0)

(* After every event: save, then go on reading unless the turn has failed, or
   something asks for a stop and no observed call is running.               *)
EndsTurn ==
  \/ out.error # "none"
  \/ out.pending = 0 /\ (mem.calls >= MaxCalls \/ over \/ stop > 0)
AfterEvent ==
  /\ at = "event"
  /\ SaveState
  /\ at' = IF EndsTurn THEN "outcome" ELSE "turn"
  /\ UNCHANGED <<counters, out, outside, history>>

(* The stream ends, as it does after an abort; a text event changes nothing. *)
StreamEnds ==
  /\ at = "turn" /\ at' = "outcome"
  /\ UNCHANGED <<mem, disk, counters, out, outside, history>>

TurnCrashes ==
  /\ at \in {"turn", "event"}
  /\ out' = [out EXCEPT !.crashed = TRUE]
  /\ at' = "outcome"
  /\ UNCHANGED <<mem, disk, counters, outside, history>>

(* Mutant: a second interrupt waits for them too. *)
WatchPatiently ==
  /\ at \in {"turn", "event"} /\ stop > 0
  /\ out.pending = 0
  /\ at' = "outcome"
  /\ UNCHANGED <<mem, disk, counters, out, outside, history>>

(* watch_interrupt: a first interrupt waits for the calls that are running. *)
WatchInterrupt ==
  /\ at \in {"turn", "event"} /\ stop > 0
  /\ out.pending = 0 \/ stop > 1
  /\ at' = "outcome"
  /\ UNCHANGED <<mem, disk, counters, out, outside, history>>

(* The watchdog aborts the agent, whatever it is doing. *)
WatchWalltime ==
  /\ at \in {"turn", "event"} /\ TimeUp
  /\ at' = "outcome"
  /\ UNCHANGED <<mem, disk, counters, out, outside, history>>

-----------------------------------------------------------------------------
(* What the turn's outcome means. *)

Told(kind) == Append(story, [kind |-> kind, tools |-> out.tools])

CutShort ==
  /\ at = "outcome"
  /\ stop > 0 \/ TimeUp \/ out.crashed
  /\ Leave(IF stop > 0 THEN "interrupted" ELSE IF TimeUp THEN "walltime_limit" ELSE "loop_crash")
  /\ UNCHANGED <<disk, history>>

Completed == at = "outcome" /\ stop = 0 /\ ~ TimeUp /\ ~ out.crashed

(* A usage limit that is not waited out: not asked for, or too long. *)
LimitEnds ==
  /\ Completed /\ out.error = "limit"
  /\ Leave("usage_limit") /\ story' = Told("error")
  /\ UNCHANGED <<disk, boots, sent, ran, overlapped, deaths>>

LimitWaits ==
  /\ Completed /\ out.error = "limit" /\ mem.waits < MaxWaits
  /\ at' = "paused"
  /\ UNCHANGED <<mem, disk, counters, out, outside, history>>

PauseEnds ==
  /\ at = "paused" /\ stop = 0
  /\ mem' = [mem EXCEPT !.waits = @ + 1]
  /\ errorTurns' = 0 /\ turns' = turns + 1
  /\ story' = Told("pause") /\ out' = NoOutcome /\ at' = "decide"
  /\ UNCHANGED <<disk, noToolTurns, outside, boots, sent, ran, overlapped, deaths>>

PauseInterrupted ==
  /\ at = "paused" /\ stop > 0
  /\ Leave("interrupted")
  /\ UNCHANGED <<disk, history>>

(* Mutant: the tool calls of a failed turn do not start the count again. *)
EveryErrorAddsUp == errorTurns + 1

ErrorCount == IF out.tools THEN 1 ELSE errorTurns + 1

ErrorTurn ==
  /\ Completed /\ out.error = "api"
  /\ story' = Told("error")
  /\ \/ /\ ErrorCount >= ErrorWall
        /\ Leave("agent_api")
     \/ /\ ErrorCount < ErrorWall
        /\ errorTurns' = ErrorCount /\ turns' = turns + 1
        /\ out' = NoOutcome /\ at' = "decide"
        /\ UNCHANGED <<mem, noToolTurns, outside>>
  /\ UNCHANGED <<disk, boots, sent, ran, overlapped, deaths>>

NoToolCount == IF out.tools THEN 0 ELSE noToolTurns + 1
NoProgress == 0 < MaxNoTool /\ MaxNoTool <= NoToolCount

OkTurn ==
  /\ Completed /\ out.error = "none"
  /\ story' = Told("ok")
  /\ \/ NoProgress /\ Leave("no_tool_progress")
     \/ /\ ~ NoProgress
        /\ errorTurns' = 0 /\ turns' = turns + 1 /\ noToolTurns' = NoToolCount
        /\ out' = NoOutcome /\ at' = "decide"
        /\ UNCHANGED <<mem, outside>>
  /\ UNCHANGED <<disk, boots, sent, ran, overlapped, deaths>>

-----------------------------------------------------------------------------
(* After the loop. *)

SaveVerdict ==
  /\ at = "verdict"
  /\ SaveState
  /\ at' = IF mem.exit = "loop_crash" THEN "metrics" ELSE "teardown"
  /\ story' = <<>>
  /\ UNCHANGED <<counters, out, outside, boots, sent, ran, overlapped, deaths>>

(* The TEARDOWN hooks: what one raises is logged, never passed on. *)
Teardown ==
  /\ at = "teardown" /\ at' = "metrics"
  /\ UNCHANGED <<mem, disk, counters, out, outside, history>>

SaveMetrics ==
  /\ at = "metrics"
  /\ SaveState
  /\ at' = "close"
  /\ UNCHANGED <<counters, out, outside, history>>

Forget ==
  /\ at' = "off" /\ mem' = NoState /\ out' = NoOutcome
  /\ turns' = 0 /\ errorTurns' = 0 /\ noToolTurns' = 0
  /\ stop' = 0 /\ over' = FALSE /\ clock' = "left" /\ story' = <<>>

(* run_task's own finally: the session and the agent are closed. *)
CloseTask ==
  /\ at = "close" /\ Forget
  /\ disk' = mem
  /\ UNCHANGED <<boots, sent, ran, overlapped, deaths>>

-----------------------------------------------------------------------------
(* Around the loop: the operator, the protocol, the clock, the machine. *)

Alive == at # "off"
(* What happens after the verdict is no longer looked at. *)
Undecided == at \notin {"off", "verdict", "teardown", "metrics", "close"}

RequestStop ==
  /\ Undecided /\ stop < 2 /\ stop' = stop + 1
  /\ UNCHANGED <<at, mem, disk, counters, out, over, clock, history>>

ProtocolStops ==
  /\ Undecided /\ ~ over /\ over' = TRUE
  /\ UNCHANGED <<at, mem, disk, counters, out, stop, clock, history>>

(* The task's own budget does not run during a pause; the deadline does. *)
TimePasses ==
  /\ Undecided
  /\ \/ clock # "task" /\ at # "paused" /\ clock' = "task"
     \/ clock = "left" /\ clock' = "deadline"
  /\ UNCHANGED <<at, mem, disk, counters, out, stop, over, history>>

Die ==
  /\ Alive /\ Forget /\ deaths' = deaths + 1
  /\ UNCHANGED <<disk, boots, sent, ran, overlapped>>

-----------------------------------------------------------------------------
AgentEvent == CallStarts \/ CallRunsInline \/ CallReturns \/ CallRefused \/ BackendFails
                \/ StreamEnds \/ TurnCrashes
Loop == StopBeforeAgent \/ StartSession \/ DecideStop \/ StartTurn \/ Send \/ AfterEvent
          \/ CutShort \/ LimitEnds \/ LimitWaits \/ PauseEnds \/ PauseInterrupted
          \/ ErrorTurn \/ OkTurn \/ SaveVerdict \/ Teardown \/ SaveMetrics \/ CloseTask
Watch == WatchInterrupt \/ WatchWalltime
Next == Boot \/ Loop \/ Watch \/ AgentEvent \/ RequestStop \/ ProtocolStops \/ TimePasses \/ Die

Spec == Init /\ [][Next]_vars

(* The event loop runs what is ready: the loop's own steps and its two
   watchers.  Nothing is assumed of the agent, the operator or the clock.   *)
FairSpec == Spec /\ WF_vars(Loop) /\ WF_vars(Watch)

-----------------------------------------------------------------------------
Points == {"off", "prepare", "decide", "send", "turn", "event", "outcome", "paused",
           "verdict", "teardown", "metrics", "close"}
Reasons == FinalReasons \cup ResumableReasons \cup {"absent", "none"}
Clocks == {"left", "deadline", "task"}
States == [turn : Nat, calls : Int, waits : Nat, elapsed : Clocks, exit : Reasons]
Outcomes == [tools : BOOLEAN, error : {"none", "api", "limit"}, crashed : BOOLEAN, pending : Nat]
Stories == Seq([kind : {"ok", "error", "pause"}, tools : BOOLEAN])

Types ==
  /\ at \in Points /\ mem \in States /\ disk \in States
  /\ turns \in Nat /\ errorTurns \in Nat /\ noToolTurns \in Nat
  /\ out \in Outcomes
  /\ stop \in 0..2 /\ over \in BOOLEAN /\ clock \in Clocks
  /\ boots \in Nat /\ sent \in Nat /\ ran \in Int /\ overlapped \in Nat /\ deaths \in Nat
  /\ story \in Stories

(* Memory has an exit reason from the verdict on and never before, whatever a
   resume found on disk, and no hook or close() runs before it is saved.    *)
ExitRecorded ==
  /\ mem.exit = "absent" <=> at = "off"
  /\ mem.exit = "none" <=> Undecided
  /\ at \in {"teardown", "metrics", "close"} => disk.exit = mem.exit

(* Types, in particular a saved reason is one that Resumable classifies; and
   where the reason is recorded.                                            *)
TypeOK == Types /\ ExitRecorded

(* max_turns_per_task is a budget of the task: over all its processes, deaths
   in the middle of a turn, error turns and pauses included, the agent is
   never sent more messages.                                                *)
TurnBudget == sent <= MaxTurns

(* max_tool_calls is "total tool calls across the whole run": it is exceeded
   only by calls that overlap another one, and by the one call a dying
   process had counted and not yet saved.                                   *)
CallBudget == ran <= MaxCalls + overlapped + deaths

Ended(n) == SubSeq(story, Len(story) - n + 1, Len(story))

(* "Only a wall of them means the backend is really gone": the session ends
   with the backend's error exactly when its last three turns failed and
   nothing but the first of them had made a tool call.                      *)
Wall ==
  /\ Len(story) >= ErrorWall
  /\ \A i \in 1..ErrorWall : Ended(ErrorWall)[i].kind = "error"
  /\ \A i \in 2..ErrorWall : ~ Ended(ErrorWall)[i].tools
WallEnds ==
  /\ at = "verdict" /\ mem.exit = "agent_api" => Wall
  /\ at = "decide" => ~ Wall

(* A final exit reason on disk is the task's verdict: no teardown, no death
   and no later process changes it, sends a message or makes a call.        *)
VerdictKept ==
  [][disk.exit \in FinalReasons =>
       disk'.exit = disk.exit /\ sent' = sent /\ ran' = ran]_vars

(* "A second interrupt explicitly forces cancellation of outstanding work",
   and a time budget that is used up ends the task: whatever the agent does
   or does not do, the process ends.                                        *)
EndsWhenTold == Alive /\ (stop = 2 \/ TimeUp) ~> ~ Alive
=============================================================================
