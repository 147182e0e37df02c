--------------------------- MODULE AgentLoop_proofs ---------------------------
(***************************************************************************)
(* For every budget, every agent and every number of processes: the types, *)
(* the turn budget, the tool-call budget, the wall of errors and the       *)
(* permanence of a verdict.                                                *)
(***************************************************************************)
EXTENDS AgentLoop, TLAPS

InTurn == {"turn", "event", "outcome", "paused"}
Leaving == {"verdict", "teardown", "metrics", "close"}

(* A turn is on disk before its message is sent, so the number of messages
   is the saved turn, whatever dies.                                        *)
TurnInv ==
  /\ sent = disk.turn /\ sent <= MaxTurns
  /\ at \in {"prepare", "decide"} \cup Leaving \cup InTurn => mem.turn = sent
  /\ at \in {"decide", "send"} => turns = sent
  /\ at = "send" => mem.turn = sent + 1 /\ sent < MaxTurns
  /\ at \in InTurn => turns + 1 = sent

(* The calls counted in memory are at most one ahead of the saved ones, and
   then an event or the end of the session is being handled.  With nothing
   running, the agent is only let go on below its budget.                   *)
CallInv ==
  /\ at = "off" => ran <= disk.calls + deaths
  /\ at # "off" => ran <= mem.calls + deaths /\ mem.calls <= disk.calls + 1
  /\ at # "off" => mem.calls <= MaxCalls + overlapped
  /\ disk.calls <= MaxCalls + overlapped
  /\ at \in {"prepare", "decide", "send", "turn", "paused"} => mem.calls <= disk.calls
  /\ at = "outcome" /\ stop = 0 /\ ~ TimeUp /\ ~ out.crashed => mem.calls <= disk.calls
  /\ at \in {"off", "prepare", "decide", "send"} => out.pending = 0
  /\ at \in {"send", "turn"} /\ out.pending = 0 => mem.calls < MaxCalls

(* A final reason is on disk only once the loop has been left for it. *)
VerdictInv ==
  /\ disk.exit \in FinalReasons => at \in {"off", "teardown", "metrics", "close"}
  /\ disk.exit \in FinalReasons /\ at # "off" => mem.exit = disk.exit
  /\ at \in {"prepare", "decide", "send"} \cup InTurn => mem.exit = "none"

LoopInv == Types /\ ExitRecorded /\ TurnInv /\ CallInv /\ VerdictInv

(* Updates of one field of a state keep its type and the other fields. *)
LEMMA StateFields ==
  ASSUME NEW s \in States
  PROVE  /\ s.turn \in Nat /\ s.calls \in Int /\ s.waits \in Nat /\ s.elapsed \in Clocks
         /\ s.exit \in Reasons
BY DEF States

LEMMA SetTurn ==
  ASSUME NEW s \in States, NEW x \in Nat
  PROVE  LET t == [s EXCEPT !.turn = x]
         IN  t \in States /\ t.turn = x /\ t.calls = s.calls /\ t.exit = s.exit
BY DEF States

LEMMA SetCalls ==
  ASSUME NEW s \in States, NEW x \in Int
  PROVE  LET t == [s EXCEPT !.calls = x]
         IN  t \in States /\ t.calls = x /\ t.turn = s.turn /\ t.exit = s.exit
BY DEF States

LEMMA SetWaits ==
  ASSUME NEW s \in States, NEW x \in Nat
  PROVE  LET t == [s EXCEPT !.waits = x]
         IN  t \in States /\ t.calls = s.calls /\ t.turn = s.turn /\ t.exit = s.exit
BY DEF States

LEMMA SetExit ==
  ASSUME NEW s \in States, NEW x \in Reasons
  PROVE  LET t == [s EXCEPT !.exit = x]
         IN  t \in States /\ t.calls = s.calls /\ t.turn = s.turn /\ t.exit = x
BY DEF States

LEMMA SetElapsed ==
  ASSUME NEW s \in States, NEW x \in Clocks
  PROVE  LET t == [s EXCEPT !.elapsed = x]
         IN  t \in States /\ t.calls = s.calls /\ t.turn = s.turn /\ t.exit = s.exit
BY DEF States

LEMMA SetPending ==
  ASSUME NEW o \in Outcomes, NEW x \in Nat
  PROVE  [o EXCEPT !.pending = x] \in Outcomes
BY DEF Outcomes

(* The reason a session may leave with is one that a resume classifies. *)
LEMMA LeaveReasons ==
  ASSUME Types,
         NEW r \in {"interrupted", "protocol", "loop_limit", "tool_call_limit", "walltime_limit",
                    "loop_crash", "usage_limit", "agent_api", "no_tool_progress"},
         Leave(r)
  PROVE  /\ mem' \in States /\ mem'.turn = mem.turn /\ mem'.calls = mem.calls
         /\ mem'.exit = ExitReason(r)
<1>1. ExitReason(r) \in Reasons
  BY DEF ExitReason, Reasons, FinalReasons, ResumableReasons
<1>2. mem \in States
  BY DEF Types
<1>3. QED
  BY <1>1, <1>2, SetExit DEF Leave

(* What a step makes of the state in memory. *)
MemKept == mem' \in States /\ mem'.turn = mem.turn /\ mem'.calls = mem.calls
Saved == MemKept /\ mem'.exit = mem.exit /\ disk' = mem'

LeavesOrGoesOn == DecideStop \/ CutShort \/ LimitEnds \/ PauseInterrupted \/ ErrorTurn \/ OkTurn

LEMMA MemUpdates ==
  ASSUME Types
  PROVE  /\ Boot => /\ mem' \in States /\ mem'.turn = disk.turn /\ mem'.calls = disk.calls
                    /\ mem'.exit = "none"
         /\ StopBeforeAgent => MemKept /\ mem'.exit \in {"interrupted", "protocol"}
         /\ SaveState => Saved
         /\ StartTurn => /\ mem' \in States /\ mem'.turn = turns + 1 /\ mem'.calls = mem.calls
                         /\ mem'.exit = mem.exit
         /\ CallStarts \/ CallRunsInline =>
              /\ mem' \in States /\ mem'.turn = mem.turn /\ mem'.calls = mem.calls + 1
              /\ mem'.exit = mem.exit
         /\ CallRefused => /\ mem' \in States /\ mem'.turn = mem.turn
                           /\ mem'.calls = mem.calls - 1 /\ mem'.exit = mem.exit
         /\ PauseEnds => MemKept /\ mem'.exit = mem.exit
         /\ LeavesOrGoesOn => MemKept
<1>1. mem \in States /\ disk \in States /\ turns \in Nat
  BY DEF Types
<1>2. /\ {"none", "interrupted", "protocol"} \subseteq Reasons
      /\ Elapsed \in Clocks
  BY DEF Reasons, FinalReasons, ResumableReasons, Elapsed, Clocks
<1>3. Boot => /\ mem' \in States /\ mem'.turn = disk.turn /\ mem'.calls = disk.calls
              /\ mem'.exit = "none"
  BY <1>1, <1>2, SetExit DEF Boot
<1>4. StopBeforeAgent => MemKept /\ mem'.exit \in {"interrupted", "protocol"}
  BY <1>1, <1>2, SetExit DEF StopBeforeAgent, MemKept
<1>5. SaveState => Saved
  BY <1>1, <1>2, SetElapsed DEF SaveState, Saved, MemKept
<1>6. StartTurn => /\ mem' \in States /\ mem'.turn = turns + 1 /\ mem'.calls = mem.calls
                   /\ mem'.exit = mem.exit
  BY <1>1, SetTurn DEF StartTurn
<1>7. CallStarts \/ CallRunsInline =>
        /\ mem' \in States /\ mem'.turn = mem.turn /\ mem'.calls = mem.calls + 1
        /\ mem'.exit = mem.exit
  <2> DEFINE t == [mem EXCEPT !.calls = mem.calls + 1]
  <2>1. mem.calls + 1 \in Int
    BY <1>1, StateFields
  <2>2. CallStarts \/ CallRunsInline => mem' = t
    BY DEF CallStarts, CallRunsInline
  <2>3. t \in States /\ t.calls = mem.calls + 1 /\ t.turn = mem.turn /\ t.exit = mem.exit
    BY <1>1, <2>1 DEF States
  <2> HIDE DEF t
  <2>4. QED
    BY <2>2, <2>3
<1>8. CallRefused => /\ mem' \in States /\ mem'.turn = mem.turn
                     /\ mem'.calls = mem.calls - 1 /\ mem'.exit = mem.exit
  <2> DEFINE t == [mem EXCEPT !.calls = mem.calls - 1]
  <2>1. mem.calls - 1 \in Int
    BY <1>1, StateFields
  <2>2. CallRefused => mem' = t
    BY DEF CallRefused
  <2>3. t \in States /\ t.calls = mem.calls - 1 /\ t.turn = mem.turn /\ t.exit = mem.exit
    BY <1>1, <2>1 DEF States
  <2> HIDE DEF t
  <2>4. QED
    BY <2>2, <2>3
<1>9. PauseEnds => MemKept /\ mem'.exit = mem.exit
  <2>1. mem.waits + 1 \in Nat
    BY <1>1, StateFields
  <2>2. PauseEnds => mem' = [mem EXCEPT !.waits = mem.waits + 1]
    BY DEF PauseEnds
  <2>3. QED
    BY <1>1, <2>1, <2>2, SetWaits DEF MemKept
<1>10. LeavesOrGoesOn => MemKept
  <2>1. DecideStop => MemKept
    <3>1. StopReason # "none" => StopReason \in {"interrupted", "protocol", "loop_limit",
                                                 "tool_call_limit", "walltime_limit"}
      BY DEF StopReason
    <3>2. QED
      BY <3>1, LeaveReasons DEF DecideStop, MemKept
  <2>2. CutShort => MemKept
    BY LeaveReasons DEF CutShort, MemKept
  <2>3. LimitEnds => MemKept
    BY LeaveReasons DEF LimitEnds, MemKept
  <2>4. PauseInterrupted => MemKept
    BY LeaveReasons DEF PauseInterrupted, MemKept
  <2>5. ErrorTurn => MemKept
    BY <1>1, LeaveReasons DEF ErrorTurn, MemKept
  <2>6. OkTurn => MemKept
    BY <1>1, LeaveReasons DEF OkTurn, MemKept
  <2>7. QED
    BY <2>1, <2>2, <2>3, <2>4, <2>5, <2>6 DEF LeavesOrGoesOn
<1>11. QED
  BY <1>3, <1>4, <1>5, <1>6, <1>7, <1>8, <1>9, <1>10

(* What a step makes of the turn's outcome. *)
LEMMA OutUpdates ==
  ASSUME Types
  PROVE  /\ out.pending \in Nat /\ NoOutcome \in Outcomes /\ NoOutcome.pending = 0
         /\ CallStarts => out' \in Outcomes
         /\ CallRunsInline => out' \in Outcomes
         /\ CallReturns \/ CallRefused => out' \in Outcomes
         /\ BackendFails => out' \in Outcomes
         /\ TurnCrashes => out' \in Outcomes /\ out'.crashed
<1>1. out \in Outcomes
  BY DEF Types
<1>2. /\ out.pending \in Nat /\ NoOutcome \in Outcomes /\ NoOutcome.pending = 0
      /\ out.pending + 1 \in Nat
  BY <1>1 DEF Outcomes, NoOutcome
<1>3. CallStarts => out' \in Outcomes
  BY <1>1, <1>2 DEF CallStarts, Outcomes
<1>4. CallRunsInline => out' \in Outcomes
  BY <1>1 DEF CallRunsInline, Outcomes
<1>5. CallReturns \/ CallRefused => out' \in Outcomes
  <2>1. out.pending > 0 => out.pending - 1 \in Nat
    BY <1>2
  <2>2. CallReturns \/ CallRefused => out.pending > 0 /\ out' = [out EXCEPT !.pending = out.pending - 1]
    BY DEF CallReturns, CallRefused
  <2>3. QED
    BY <1>1, <2>1, <2>2, SetPending
<1>6. BackendFails => out' \in Outcomes
  BY <1>1 DEF BackendFails, Outcomes
<1>7. TurnCrashes => out' \in Outcomes /\ out'.crashed
  BY <1>1 DEF TurnCrashes, Outcomes
<1>8. QED
  BY <1>2, <1>3, <1>4, <1>5, <1>6, <1>7

(* Types. *)
LEMMA ToldTyped == ASSUME Types, NEW k \in {"ok", "error", "pause"} PROVE Told(k) \in Stories
<1>1. out.tools \in BOOLEAN
  BY DEF Types, Outcomes
<1>2. QED
  BY <1>1 DEF Types, Stories, Told

LEMMA EmptyTyped == <<>> \in Stories /\ NoState \in States
BY DEF Stories, NoState, States, Clocks, Reasons, FinalReasons, ResumableReasons

(* Types are kept. *)
LEMMA TypeStep == Types /\ [Next]_vars => Types'
<1> SUFFICES ASSUME Types, [Next]_vars PROVE Types'
  OBVIOUS
<1> USE LoopAssumption DEF Types, Points, Clocks, outside, counters, history
<1>1. CASE Boot
  BY <1>1, MemUpdates DEF Boot, Resumable, States
<1>2. CASE StopBeforeAgent
  BY <1>2, MemUpdates DEF StopBeforeAgent, MemKept
<1>3. CASE StartSession
  BY <1>3, StateFields DEF StartSession
<1>4. CASE DecideStop
  <2>1. at' \in Points /\ mem' \in States /\ disk' \in States
    BY <1>4, MemUpdates, OutUpdates DEF DecideStop, Leave, StopReason, MemKept, LeavesOrGoesOn
  <2>2. turns' \in Nat /\ errorTurns' \in Nat /\ noToolTurns' \in Nat /\ stop' \in 0..2
    BY <1>4, MemUpdates, OutUpdates DEF DecideStop, Leave, StopReason, MemKept, LeavesOrGoesOn
  <2>3. over' \in BOOLEAN /\ clock' \in Clocks
    BY <1>4, MemUpdates, OutUpdates DEF DecideStop, Leave, StopReason, MemKept, LeavesOrGoesOn
  <2>4. out' \in Outcomes /\ story' \in Stories
    BY <1>4, MemUpdates, OutUpdates DEF DecideStop, Leave, StopReason, MemKept, LeavesOrGoesOn
  <2>5. boots' \in Nat /\ sent' \in Nat /\ ran' \in Int /\ overlapped' \in Nat /\ deaths' \in Nat
    BY <1>4, MemUpdates, OutUpdates DEF DecideStop, Leave, StopReason, MemKept, LeavesOrGoesOn
  <2>6. QED
    BY <2>1, <2>2, <2>3, <2>4, <2>5
<1>5. CASE StartTurn
  BY <1>5, MemUpdates DEF StartTurn, StopReason
<1>6. CASE Send
  BY <1>6, MemUpdates DEF Send, Saved, MemKept
<1>7. CASE AfterEvent
  BY <1>7, MemUpdates DEF AfterEvent, Saved, MemKept, EndsTurn
<1>8. CASE CutShort
  <2>1. at' \in Points /\ mem' \in States /\ disk' \in States
    BY <1>8, MemUpdates, OutUpdates DEF CutShort, Leave, MemKept, LeavesOrGoesOn
  <2>2. turns' \in Nat /\ errorTurns' \in Nat /\ noToolTurns' \in Nat /\ stop' \in 0..2
    BY <1>8, MemUpdates, OutUpdates DEF CutShort, Leave, MemKept, LeavesOrGoesOn
  <2>3. over' \in BOOLEAN /\ clock' \in Clocks
    BY <1>8, MemUpdates, OutUpdates DEF CutShort, Leave, MemKept, LeavesOrGoesOn
  <2>4. out' \in Outcomes /\ story' \in Stories
    BY <1>8, MemUpdates, OutUpdates DEF CutShort, Leave, MemKept, LeavesOrGoesOn
  <2>5. boots' \in Nat /\ sent' \in Nat /\ ran' \in Int /\ overlapped' \in Nat /\ deaths' \in Nat
    BY <1>8, MemUpdates, OutUpdates DEF CutShort, Leave, MemKept, LeavesOrGoesOn
  <2>6. QED
    BY <2>1, <2>2, <2>3, <2>4, <2>5
<1>9. CASE LimitEnds
  BY <1>9, MemUpdates, OutUpdates, ToldTyped DEF LimitEnds, Leave, Completed, MemKept, LeavesOrGoesOn
<1>10. CASE LimitWaits
  BY <1>10 DEF LimitWaits, Completed
<1>11. CASE PauseEnds
  BY <1>11, MemUpdates, OutUpdates, ToldTyped DEF PauseEnds, MemKept
<1>12. CASE PauseInterrupted
  <2>1. at' \in Points /\ mem' \in States /\ disk' \in States
    BY <1>12, MemUpdates, OutUpdates DEF PauseInterrupted, Leave, MemKept, LeavesOrGoesOn
  <2>2. turns' \in Nat /\ errorTurns' \in Nat /\ noToolTurns' \in Nat /\ stop' \in 0..2
    BY <1>12, MemUpdates, OutUpdates DEF PauseInterrupted, Leave, MemKept, LeavesOrGoesOn
  <2>3. over' \in BOOLEAN /\ clock' \in Clocks
    BY <1>12, MemUpdates, OutUpdates DEF PauseInterrupted, Leave, MemKept, LeavesOrGoesOn
  <2>4. out' \in Outcomes /\ story' \in Stories
    BY <1>12, MemUpdates, OutUpdates DEF PauseInterrupted, Leave, MemKept, LeavesOrGoesOn
  <2>5. boots' \in Nat /\ sent' \in Nat /\ ran' \in Int /\ overlapped' \in Nat /\ deaths' \in Nat
    BY <1>12, MemUpdates, OutUpdates DEF PauseInterrupted, Leave, MemKept, LeavesOrGoesOn
  <2>6. QED
    BY <2>1, <2>2, <2>3, <2>4, <2>5
<1>13. CASE ErrorTurn
  <2>1. at' \in Points /\ mem' \in States /\ disk' \in States
    BY <1>13, MemUpdates, OutUpdates, ToldTyped DEF ErrorTurn, Leave, Completed, ErrorCount, ErrorWall, MemKept, LeavesOrGoesOn
  <2>2. turns' \in Nat /\ errorTurns' \in Nat /\ noToolTurns' \in Nat /\ stop' \in 0..2
    BY <1>13, MemUpdates, OutUpdates, ToldTyped DEF ErrorTurn, Leave, Completed, ErrorCount, ErrorWall, MemKept, LeavesOrGoesOn
  <2>3. over' \in BOOLEAN /\ clock' \in Clocks
    BY <1>13, MemUpdates, OutUpdates, ToldTyped DEF ErrorTurn, Leave, Completed, ErrorCount, ErrorWall, MemKept, LeavesOrGoesOn
  <2>4. out' \in Outcomes /\ story' \in Stories
    BY <1>13, MemUpdates, OutUpdates, ToldTyped DEF ErrorTurn, Leave, Completed, ErrorCount, ErrorWall, MemKept, LeavesOrGoesOn
  <2>5. boots' \in Nat /\ sent' \in Nat /\ ran' \in Int /\ overlapped' \in Nat /\ deaths' \in Nat
    BY <1>13, MemUpdates, OutUpdates, ToldTyped DEF ErrorTurn, Leave, Completed, ErrorCount, ErrorWall, MemKept, LeavesOrGoesOn
  <2>6. QED
    BY <2>1, <2>2, <2>3, <2>4, <2>5
<1>14. CASE OkTurn
  <2>1. at' \in Points /\ mem' \in States /\ disk' \in States
    BY <1>14, MemUpdates, OutUpdates, ToldTyped DEF OkTurn, Leave, Completed, NoToolCount, NoProgress, MemKept, LeavesOrGoesOn
  <2>2. turns' \in Nat /\ errorTurns' \in Nat /\ noToolTurns' \in Nat /\ stop' \in 0..2
    BY <1>14, MemUpdates, OutUpdates, ToldTyped DEF OkTurn, Leave, Completed, NoToolCount, NoProgress, MemKept, LeavesOrGoesOn
  <2>3. over' \in BOOLEAN /\ clock' \in Clocks
    BY <1>14, MemUpdates, OutUpdates, ToldTyped DEF OkTurn, Leave, Completed, NoToolCount, NoProgress, MemKept, LeavesOrGoesOn
  <2>4. out' \in Outcomes /\ story' \in Stories
    BY <1>14, MemUpdates, OutUpdates, ToldTyped DEF OkTurn, Leave, Completed, NoToolCount, NoProgress, MemKept, LeavesOrGoesOn
  <2>5. boots' \in Nat /\ sent' \in Nat /\ ran' \in Int /\ overlapped' \in Nat /\ deaths' \in Nat
    BY <1>14, MemUpdates, OutUpdates, ToldTyped DEF OkTurn, Leave, Completed, NoToolCount, NoProgress, MemKept, LeavesOrGoesOn
  <2>6. QED
    BY <2>1, <2>2, <2>3, <2>4, <2>5
<1>15. CASE SaveVerdict
  BY <1>15, MemUpdates, EmptyTyped DEF SaveVerdict, Saved, MemKept
<1>16. CASE Teardown
  BY <1>16 DEF Teardown
<1>17. CASE SaveMetrics
  BY <1>17, MemUpdates DEF SaveMetrics, Saved, MemKept
<1>18. CASE CloseTask
  <2>1. at' \in Points /\ mem' \in States /\ disk' \in States
    BY <1>18, OutUpdates, EmptyTyped DEF CloseTask, Forget
  <2>2. turns' \in Nat /\ errorTurns' \in Nat /\ noToolTurns' \in Nat /\ stop' \in 0..2
    BY <1>18, OutUpdates, EmptyTyped DEF CloseTask, Forget
  <2>3. over' \in BOOLEAN /\ clock' \in Clocks
    BY <1>18, OutUpdates, EmptyTyped DEF CloseTask, Forget
  <2>4. out' \in Outcomes /\ story' \in Stories
    BY <1>18, OutUpdates, EmptyTyped DEF CloseTask, Forget
  <2>5. boots' \in Nat /\ sent' \in Nat /\ ran' \in Int /\ overlapped' \in Nat /\ deaths' \in Nat
    BY <1>18, OutUpdates, EmptyTyped DEF CloseTask, Forget
  <2>6. QED
    BY <2>1, <2>2, <2>3, <2>4, <2>5
<1>19. CASE WatchInterrupt
  BY <1>19 DEF WatchInterrupt
<1>20. CASE WatchWalltime
  BY <1>20 DEF WatchWalltime
<1>21. CASE CallStarts
  BY <1>21, MemUpdates, OutUpdates DEF CallStarts, MayCall, Overlapping
<1>22. CASE CallRunsInline
  BY <1>22, MemUpdates, OutUpdates DEF CallRunsInline, MayCall, Overlapping
<1>23. CASE CallReturns
  BY <1>23, OutUpdates DEF CallReturns
<1>24. CASE CallRefused
  BY <1>24, MemUpdates, OutUpdates DEF CallRefused
<1>25. CASE BackendFails
  BY <1>25, OutUpdates DEF BackendFails
<1>26. CASE StreamEnds
  BY <1>26 DEF StreamEnds
<1>27. CASE TurnCrashes
  BY <1>27, OutUpdates DEF TurnCrashes
<1>28. CASE RequestStop
  BY <1>28 DEF RequestStop, Undecided
<1>29. CASE ProtocolStops
  BY <1>29 DEF ProtocolStops, Undecided
<1>30. CASE TimePasses
  BY <1>30 DEF TimePasses, Undecided
<1>31. CASE Die
  <2>1. at' \in Points /\ mem' \in States /\ disk' \in States
    BY <1>31, OutUpdates, EmptyTyped DEF Die, Forget, Alive
  <2>2. turns' \in Nat /\ errorTurns' \in Nat /\ noToolTurns' \in Nat /\ stop' \in 0..2
    BY <1>31, OutUpdates, EmptyTyped DEF Die, Forget, Alive
  <2>3. over' \in BOOLEAN /\ clock' \in Clocks
    BY <1>31, OutUpdates, EmptyTyped DEF Die, Forget, Alive
  <2>4. out' \in Outcomes /\ story' \in Stories
    BY <1>31, OutUpdates, EmptyTyped DEF Die, Forget, Alive
  <2>5. boots' \in Nat /\ sent' \in Nat /\ ran' \in Int /\ overlapped' \in Nat /\ deaths' \in Nat
    BY <1>31, OutUpdates, EmptyTyped DEF Die, Forget, Alive
  <2>6. QED
    BY <2>1, <2>2, <2>3, <2>4, <2>5
<1>32. CASE UNCHANGED vars
  BY <1>32 DEF vars, counters, outside, history
<1>33. QED
  BY <1>1, <1>2, <1>3, <1>4, <1>5, <1>6, <1>7, <1>8, <1>9, <1>10, <1>11, <1>12, <1>13, <1>14, <1>15, <1>16, <1>17, <1>18, <1>19, <1>20, <1>21, <1>22, <1>23, <1>24, <1>25, <1>26, <1>27, <1>28, <1>29, <1>30, <1>31, <1>32 DEF Next, Loop, Watch, AgentEvent

(* The loop is left with a reason; without, it goes on as before. *)
LEMMA LeavesRecorded ==
  ASSUME Types, LeavesOrGoesOn
  PROVE  \/ at' = "verdict" /\ mem'.exit \notin {"absent", "none"}
         \/ at' = "decide" /\ at = "outcome" /\ mem' = mem
<1>1. ASSUME NEW r \in {"interrupted", "protocol", "loop_limit", "tool_call_limit", "walltime_limit",
                        "loop_crash", "usage_limit", "agent_api", "no_tool_progress"}, Leave(r)
      PROVE  at' = "verdict" /\ mem'.exit \notin {"absent", "none"}
  <2>1. mem'.exit = ExitReason(r) /\ at' = "verdict"
    BY <1>1, LeaveReasons DEF Leave
  <2> QED BY <2>1 DEF ExitReason
<1>2. CASE DecideStop
  BY <1>1, <1>2 DEF DecideStop, StopReason
<1>3. CASE CutShort
  BY <1>1, <1>3 DEF CutShort
<1>4. CASE LimitEnds
  BY <1>1, <1>4 DEF LimitEnds
<1>5. CASE PauseInterrupted
  BY <1>1, <1>5 DEF PauseInterrupted
<1>6. CASE ErrorTurn
  BY <1>1, <1>6 DEF ErrorTurn, Completed
<1>7. CASE OkTurn
  BY <1>1, <1>7 DEF OkTurn, Completed
<1> QED BY <1>2, <1>3, <1>4, <1>5, <1>6, <1>7 DEF LeavesOrGoesOn

(* Where the exit reason is recorded, and that it is saved before the hooks. *)
LEMMA ExitStep == Types /\ ExitRecorded /\ [Next]_vars => ExitRecorded'
<1> SUFFICES ASSUME Types, ExitRecorded, [Next]_vars PROVE ExitRecorded'
  OBVIOUS
<1> USE DEF ExitRecorded, Undecided, counters, outside, history
<1>1. CASE Boot
  BY <1>1, MemUpdates DEF Boot
<1>2. CASE StopBeforeAgent
  BY <1>2, MemUpdates DEF StopBeforeAgent
<1>3. CASE StartSession
  BY <1>3 DEF StartSession
<1>4. CASE LeavesOrGoesOn
  <2>1. at \in {"decide", "outcome", "paused"}
    BY <1>4 DEF LeavesOrGoesOn, DecideStop, CutShort, LimitEnds, PauseInterrupted, ErrorTurn, OkTurn, Completed
  <2> QED BY <1>4, <2>1, LeavesRecorded
<1>5. CASE StartTurn \/ PauseEnds \/ CallStarts \/ CallRunsInline \/ CallRefused
  <2>1. mem'.exit = mem.exit
    BY <1>5, MemUpdates
  <2> QED BY <1>5, <2>1 DEF StartTurn, PauseEnds, CallStarts, CallRunsInline, CallRefused
<1>6. CASE Send \/ AfterEvent \/ SaveVerdict \/ SaveMetrics
  <2>1. mem'.exit = mem.exit /\ disk' = mem'
    BY <1>6, MemUpdates DEF Send, AfterEvent, SaveVerdict, SaveMetrics, Saved
  <2> QED BY <1>6, <2>1 DEF Send, AfterEvent, SaveVerdict, SaveMetrics
<1>7. CASE LimitWaits \/ Teardown \/ Watch \/ CallReturns \/ BackendFails \/ StreamEnds \/ TurnCrashes
  BY <1>7 DEF LimitWaits, Completed, Teardown, Watch, WatchInterrupt, WatchWalltime, CallReturns,
     BackendFails, StreamEnds, TurnCrashes
<1>8. CASE CloseTask \/ Die
  BY <1>8 DEF CloseTask, Die, Forget, NoState
<1>9. CASE RequestStop \/ ProtocolStops \/ TimePasses \/ UNCHANGED vars
  BY <1>9 DEF RequestStop, ProtocolStops, TimePasses, vars
<1> QED BY <1>1, <1>2, <1>3, <1>4, <1>5, <1>6, <1>7, <1>8, <1>9
        DEF Next, Loop, AgentEvent, LeavesOrGoesOn

(* The messages sent are the turns saved. *)
LEMMA TurnStep == Types /\ TurnInv /\ [Next]_vars => TurnInv'
<1> SUFFICES ASSUME Types /\ TurnInv, [Next]_vars PROVE TurnInv'
  OBVIOUS
<1> USE LoopAssumption DEF Types, TurnInv, InTurn, Leaving, outside, counters, history
<1>1. CASE Boot
  BY <1>1, MemUpdates, StateFields DEF Boot, Resumable
<1>2. CASE StopBeforeAgent
  BY <1>2, MemUpdates, StateFields DEF StopBeforeAgent, MemKept
<1>3. CASE StartSession
  BY <1>3, StateFields DEF StartSession
<1>4. CASE DecideStop
  BY <1>4, MemUpdates, StateFields DEF DecideStop, Leave, StopReason, MemKept, LeavesOrGoesOn
<1>5. CASE StartTurn
  BY <1>5, MemUpdates, StateFields DEF StartTurn, StopReason
<1>6. CASE Send
  BY <1>6, MemUpdates, StateFields DEF Send, Saved, MemKept
<1>7. CASE AfterEvent
  BY <1>7, MemUpdates, StateFields DEF AfterEvent, Saved, MemKept, EndsTurn
<1>8. CASE CutShort
  BY <1>8, MemUpdates, StateFields DEF CutShort, Leave, MemKept, LeavesOrGoesOn
<1>9. CASE LimitEnds
  BY <1>9, MemUpdates, StateFields DEF LimitEnds, Leave, Completed, MemKept, LeavesOrGoesOn
<1>10. CASE LimitWaits
  BY <1>10, StateFields DEF LimitWaits, Completed
<1>11. CASE PauseEnds
  BY <1>11, MemUpdates, StateFields DEF PauseEnds, MemKept
<1>12. CASE PauseInterrupted
  BY <1>12, MemUpdates, StateFields DEF PauseInterrupted, Leave, MemKept, LeavesOrGoesOn
<1>13. CASE ErrorTurn
  BY <1>13, MemUpdates, StateFields DEF ErrorTurn, Leave, Completed, ErrorCount, ErrorWall, MemKept, LeavesOrGoesOn
<1>14. CASE OkTurn
  BY <1>14, MemUpdates, StateFields DEF OkTurn, Leave, Completed, NoToolCount, NoProgress, MemKept, LeavesOrGoesOn
<1>15. CASE SaveVerdict
  BY <1>15, MemUpdates, StateFields DEF SaveVerdict, Saved, MemKept
<1>16. CASE Teardown
  BY <1>16, StateFields DEF Teardown
<1>17. CASE SaveMetrics
  BY <1>17, MemUpdates, StateFields DEF SaveMetrics, Saved, MemKept
<1>18. CASE CloseTask
  BY <1>18, StateFields DEF CloseTask, Forget
<1>19. CASE WatchInterrupt
  BY <1>19, StateFields DEF WatchInterrupt
<1>20. CASE WatchWalltime
  BY <1>20, StateFields DEF WatchWalltime
<1>21. CASE CallStarts
  BY <1>21, MemUpdates, StateFields DEF CallStarts, MayCall, Overlapping
<1>22. CASE CallRunsInline
  BY <1>22, MemUpdates, StateFields DEF CallRunsInline, MayCall, Overlapping
<1>23. CASE CallReturns
  BY <1>23, StateFields DEF CallReturns
<1>24. CASE CallRefused
  BY <1>24, MemUpdates, StateFields DEF CallRefused
<1>25. CASE BackendFails
  BY <1>25, StateFields DEF BackendFails
<1>26. CASE StreamEnds
  BY <1>26, StateFields DEF StreamEnds
<1>27. CASE TurnCrashes
  BY <1>27, StateFields DEF TurnCrashes
<1>28. CASE RequestStop
  BY <1>28, StateFields DEF RequestStop, Undecided
<1>29. CASE ProtocolStops
  BY <1>29, StateFields DEF ProtocolStops, Undecided
<1>30. CASE TimePasses
  BY <1>30, StateFields DEF TimePasses, Undecided
<1>31. CASE Die
  BY <1>31, StateFields DEF Die, Forget, Alive
<1>32. CASE UNCHANGED vars
  BY <1>32 DEF vars, counters, outside, history
<1>33. QED
  BY <1>1, <1>2, <1>3, <1>4, <1>5, <1>6, <1>7, <1>8, <1>9, <1>10, <1>11, <1>12, <1>13, <1>14, <1>15, <1>16, <1>17, <1>18, <1>19, <1>20, <1>21, <1>22, <1>23, <1>24, <1>25, <1>26, <1>27, <1>28, <1>29, <1>30, <1>31, <1>32 DEF Next, Loop, Watch, AgentEvent

(* The calls counted are within the budget, but for the two exceptions. *)
LEMMA CallStep == Types /\ CallInv /\ [Next]_vars => CallInv'
<1> SUFFICES ASSUME Types /\ CallInv, [Next]_vars PROVE CallInv'
  OBVIOUS
<1> USE LoopAssumption DEF Types, CallInv, outside, counters, history
<1>1. CASE Boot
  BY <1>1, MemUpdates, StateFields DEF Boot, Resumable
<1>2. CASE StopBeforeAgent
  BY <1>2, MemUpdates, StateFields DEF StopBeforeAgent, MemKept
<1>3. CASE StartSession
  BY <1>3, StateFields DEF StartSession
<1>4. CASE DecideStop
  BY <1>4, MemUpdates, StateFields, OutUpdates DEF DecideStop, Leave, StopReason, MemKept, LeavesOrGoesOn
<1>5. CASE StartTurn
  BY <1>5, MemUpdates, StateFields DEF StartTurn, StopReason, TimeUp
<1>6. CASE Send
  BY <1>6, MemUpdates, StateFields DEF Send, Saved, MemKept
<1>7. CASE AfterEvent
  BY <1>7, MemUpdates, StateFields DEF AfterEvent, Saved, MemKept, EndsTurn
<1>8. CASE CutShort
  BY <1>8, MemUpdates, StateFields, OutUpdates DEF CutShort, Leave, MemKept, LeavesOrGoesOn, TimeUp
<1>9. CASE LimitEnds
  BY <1>9, MemUpdates, StateFields, OutUpdates DEF LimitEnds, Leave, Completed, MemKept, LeavesOrGoesOn, TimeUp
<1>10. CASE LimitWaits
  BY <1>10, StateFields DEF LimitWaits, Completed, TimeUp
<1>11. CASE PauseEnds
  BY <1>11, MemUpdates, StateFields, OutUpdates DEF PauseEnds, MemKept, TimeUp
<1>12. CASE PauseInterrupted
  BY <1>12, MemUpdates, StateFields, OutUpdates DEF PauseInterrupted, Leave, MemKept, LeavesOrGoesOn
<1>13. CASE ErrorTurn
  BY <1>13, MemUpdates, StateFields, OutUpdates DEF ErrorTurn, Leave, Completed, ErrorCount, ErrorWall, MemKept, LeavesOrGoesOn, TimeUp
<1>14. CASE OkTurn
  BY <1>14, MemUpdates, StateFields, OutUpdates DEF OkTurn, Leave, Completed, NoToolCount, NoProgress, MemKept, LeavesOrGoesOn, TimeUp
<1>15. CASE SaveVerdict
  BY <1>15, MemUpdates, StateFields DEF SaveVerdict, Saved, MemKept
<1>16. CASE Teardown
  BY <1>16, StateFields DEF Teardown
<1>17. CASE SaveMetrics
  BY <1>17, MemUpdates, StateFields DEF SaveMetrics, Saved, MemKept
<1>18. CASE CloseTask
  BY <1>18, StateFields, OutUpdates DEF CloseTask, Forget
<1>19. CASE WatchInterrupt
  BY <1>19, StateFields DEF WatchInterrupt
<1>20. CASE WatchWalltime
  BY <1>20, StateFields DEF WatchWalltime, TimeUp
<1>21. CASE CallStarts
  BY <1>21, MemUpdates, StateFields, OutUpdates DEF CallStarts, MayCall, Overlapping
<1>22. CASE CallRunsInline
  BY <1>22, MemUpdates, StateFields, OutUpdates DEF CallRunsInline, MayCall, Overlapping
<1>23. CASE CallReturns
  BY <1>23, StateFields, OutUpdates DEF CallReturns
<1>24. CASE CallRefused
  BY <1>24, MemUpdates, StateFields, OutUpdates DEF CallRefused
<1>25. CASE BackendFails
  BY <1>25, StateFields, OutUpdates DEF BackendFails
<1>26. CASE StreamEnds
  BY <1>26, StateFields DEF StreamEnds
<1>27. CASE TurnCrashes
  BY <1>27, StateFields, OutUpdates DEF TurnCrashes
<1>28. CASE RequestStop
  BY <1>28, StateFields DEF RequestStop, Undecided, TimeUp
<1>29. CASE ProtocolStops
  BY <1>29, StateFields DEF ProtocolStops, Undecided, TimeUp
<1>30. CASE TimePasses
  BY <1>30, StateFields DEF TimePasses, Undecided, TimeUp
<1>31. CASE Die
  BY <1>31, StateFields, OutUpdates DEF Die, Forget, Alive
<1>32. CASE UNCHANGED vars
  BY <1>32 DEF TimeUp, vars, counters, outside, history
<1>33. QED
  BY <1>1, <1>2, <1>3, <1>4, <1>5, <1>6, <1>7, <1>8, <1>9, <1>10, <1>11, <1>12, <1>13, <1>14, <1>15, <1>16, <1>17, <1>18, <1>19, <1>20, <1>21, <1>22, <1>23, <1>24, <1>25, <1>26, <1>27, <1>28, <1>29, <1>30, <1>31, <1>32 DEF Next, Loop, Watch, AgentEvent

(* A final reason on disk is the one in memory, and the loop has been left. *)
LEMMA VerdictStep == Types /\ VerdictInv /\ [Next]_vars => VerdictInv'
<1> SUFFICES ASSUME Types /\ VerdictInv, [Next]_vars PROVE VerdictInv'
  OBVIOUS
<1> USE LoopAssumption DEF Types, VerdictInv, InTurn, FinalReasons, ResumableReasons, outside, counters, history
<1>1. CASE Boot
  BY <1>1, MemUpdates DEF Boot, Resumable
<1>2. CASE StopBeforeAgent
  BY <1>2, MemUpdates DEF StopBeforeAgent, MemKept
<1>3. CASE StartSession
  BY <1>3 DEF StartSession
<1>4. CASE DecideStop
  BY <1>4, MemUpdates DEF DecideStop, Leave, StopReason, MemKept, LeavesOrGoesOn
<1>5. CASE StartTurn
  BY <1>5, MemUpdates DEF StartTurn, StopReason
<1>6. CASE Send
  BY <1>6, MemUpdates DEF Send, Saved, MemKept
<1>7. CASE AfterEvent
  BY <1>7, MemUpdates DEF AfterEvent, Saved, MemKept, EndsTurn
<1>8. CASE CutShort
  BY <1>8, MemUpdates DEF CutShort, Leave, MemKept, LeavesOrGoesOn
<1>9. CASE LimitEnds
  BY <1>9, MemUpdates DEF LimitEnds, Leave, Completed, MemKept, LeavesOrGoesOn
<1>10. CASE LimitWaits
  BY <1>10 DEF LimitWaits, Completed
<1>11. CASE PauseEnds
  BY <1>11, MemUpdates DEF PauseEnds, MemKept
<1>12. CASE PauseInterrupted
  BY <1>12, MemUpdates DEF PauseInterrupted, Leave, MemKept, LeavesOrGoesOn
<1>13. CASE ErrorTurn
  BY <1>13, MemUpdates DEF ErrorTurn, Leave, Completed, ErrorCount, ErrorWall, MemKept, LeavesOrGoesOn
<1>14. CASE OkTurn
  BY <1>14, MemUpdates DEF OkTurn, Leave, Completed, NoToolCount, NoProgress, MemKept, LeavesOrGoesOn
<1>15. CASE SaveVerdict
  BY <1>15, MemUpdates DEF SaveVerdict, Saved, MemKept
<1>16. CASE Teardown
  BY <1>16 DEF Teardown
<1>17. CASE SaveMetrics
  BY <1>17, MemUpdates DEF SaveMetrics, Saved, MemKept
<1>18. CASE CloseTask
  BY <1>18 DEF CloseTask, Forget
<1>19. CASE WatchInterrupt
  BY <1>19 DEF WatchInterrupt
<1>20. CASE WatchWalltime
  BY <1>20 DEF WatchWalltime
<1>21. CASE CallStarts
  BY <1>21, MemUpdates DEF CallStarts, MayCall, Overlapping
<1>22. CASE CallRunsInline
  BY <1>22, MemUpdates DEF CallRunsInline, MayCall, Overlapping
<1>23. CASE CallReturns
  BY <1>23 DEF CallReturns
<1>24. CASE CallRefused
  BY <1>24, MemUpdates DEF CallRefused
<1>25. CASE BackendFails
  BY <1>25 DEF BackendFails
<1>26. CASE StreamEnds
  BY <1>26 DEF StreamEnds
<1>27. CASE TurnCrashes
  BY <1>27 DEF TurnCrashes
<1>28. CASE RequestStop
  BY <1>28 DEF RequestStop, Undecided
<1>29. CASE ProtocolStops
  BY <1>29 DEF ProtocolStops, Undecided
<1>30. CASE TimePasses
  BY <1>30 DEF TimePasses, Undecided
<1>31. CASE Die
  BY <1>31 DEF Die, Forget, Alive
<1>32. CASE UNCHANGED vars
  BY <1>32 DEF vars, counters, outside, history
<1>33. QED
  BY <1>1, <1>2, <1>3, <1>4, <1>5, <1>6, <1>7, <1>8, <1>9, <1>10, <1>11, <1>12, <1>13, <1>14, <1>15, <1>16, <1>17, <1>18, <1>19, <1>20, <1>21, <1>22, <1>23, <1>24, <1>25, <1>26, <1>27, <1>28, <1>29, <1>30, <1>31, <1>32 DEF Next, Loop, Watch, AgentEvent

(* The inductive invariant. *)
THEOREM LoopHolds == Spec => []LoopInv
<1>1. Init => LoopInv
  <2> SUFFICES ASSUME Init PROVE LoopInv
    OBVIOUS
  <2>1. NoState \in States /\ NoOutcome \in Outcomes /\ <<>> \in Stories
    BY EmptyTyped DEF Outcomes, NoOutcome
  <2>2. Types
    <3>1. over \in BOOLEAN /\ at \in Points /\ clock \in Clocks
      BY DEF Init, Points, Clocks
    <3>2. mem \in States /\ disk \in States /\ out \in Outcomes /\ story \in Stories
      BY <2>1 DEF Init
    <3>3. /\ turns \in Nat /\ errorTurns \in Nat /\ noToolTurns \in Nat /\ stop \in 0..2
          /\ boots \in Nat /\ sent \in Nat /\ ran \in Int /\ overlapped \in Nat /\ deaths \in Nat
      BY DEF Init
    <3>4. QED
      BY <3>1, <3>2, <3>3 DEF Types
  <2>3. NoState.turn = 0 /\ NoState.calls = 0 /\ NoState.exit = "absent" /\ NoOutcome.pending = 0
    BY DEF NoState, NoOutcome
  <2>4. ExitRecorded /\ TurnInv /\ CallInv /\ VerdictInv
    BY <2>3, LoopAssumption DEF Init, ExitRecorded, Undecided, TurnInv, CallInv, VerdictInv, InTurn, Leaving,
       FinalReasons
  <2>5. QED
    BY <2>2, <2>4 DEF LoopInv
<1>2. LoopInv /\ [Next]_vars => LoopInv'
  BY TypeStep, ExitStep, TurnStep, CallStep, VerdictStep DEF LoopInv
<1>3. QED
  BY <1>1, <1>2, PTL DEF Spec

(* Every value stays in its type, a reason saved for a resume is classified,
   and a reason is recorded from the verdict on, on disk before any hook.   *)
THEOREM TypeCorrect == Spec => []TypeOK
<1>1. LoopInv => TypeOK
  BY DEF LoopInv, TypeOK
<1>2. QED
  BY <1>1, LoopHolds, PTL

(* The agent is never sent more than max_turns_per_task messages. *)
THEOREM TurnsHold == Spec => []TurnBudget
<1>1. LoopInv => TurnBudget
  BY DEF LoopInv, TurnInv, TurnBudget
<1>2. QED
  BY <1>1, LoopHolds, PTL

(* max_tool_calls is exceeded only by overlapping calls and by one call per
   death.                                                                   *)
THEOREM CallsHold == Spec => []CallBudget
<1>1. LoopInv => CallBudget
  BY StateFields, LoopAssumption DEF LoopInv, Types, CallInv, CallBudget
<1>2. QED
  BY <1>1, LoopHolds, PTL

(* No step undoes a verdict that is on disk. *)
LEMMA KeptStep ==
  ASSUME LoopInv, [Next]_vars, disk.exit \in FinalReasons
  PROVE  disk'.exit = disk.exit /\ sent' = sent /\ ran' = ran
<1>1. at \in {"off", "teardown", "metrics", "close"} /\ (at # "off" => mem.exit = disk.exit)
  BY DEF LoopInv, VerdictInv
<1>2. Types
  BY DEF LoopInv
<1>3. CASE at = "off"
  <2>1. ~ Resumable(disk)
    BY DEF Resumable, FinalReasons, ResumableReasons
  <2>2. CASE UNCHANGED vars
    BY <2>2 DEF vars, history
  <2>3. QED
    BY <1>3, <2>1, <2>2 DEF Next, Boot, Loop, Watch, AgentEvent, StopBeforeAgent, StartSession,
       DecideStop, StartTurn, Send, AfterEvent, CutShort, LimitEnds, LimitWaits, Completed, PauseEnds,
       PauseInterrupted, ErrorTurn, OkTurn, SaveVerdict, Teardown, SaveMetrics, CloseTask,
       WatchInterrupt, WatchWalltime, CallStarts, CallRunsInline, CallReturns, CallRefused,
       BackendFails, StreamEnds, TurnCrashes, RequestStop, ProtocolStops, TimePasses, Undecided,
       Die, Alive
<1>4. CASE at \in {"teardown", "metrics", "close"}
  <2>1. CASE Teardown
    BY <2>1 DEF Teardown, history
  <2>2. CASE SaveMetrics
    BY <1>1, <1>2, <1>4, <2>2, MemUpdates DEF SaveMetrics, Saved, history
  <2>3. CASE CloseTask
    BY <1>1, <1>4, <2>3 DEF CloseTask
  <2>4. CASE Die
    BY <2>4 DEF Die
  <2>5. CASE UNCHANGED vars
    BY <2>5 DEF vars, history
  <2>6. QED
    BY <1>4, <2>1, <2>2, <2>3, <2>4, <2>5 DEF Next, Boot, Loop, Watch, AgentEvent, StopBeforeAgent,
       StartSession, DecideStop, StartTurn, Send, AfterEvent, CutShort, LimitEnds, LimitWaits,
       Completed, PauseEnds, PauseInterrupted, ErrorTurn, OkTurn, SaveVerdict, WatchInterrupt,
       WatchWalltime, CallStarts, CallRunsInline, CallReturns, CallRefused, BackendFails,
       StreamEnds, TurnCrashes, RequestStop, ProtocolStops, TimePasses, Undecided
<1>5. QED
  BY <1>1, <1>3, <1>4

(* A final exit reason on disk is never changed, and nothing more is done. *)
THEOREM VerdictHolds == Spec => VerdictKept
<1>1. LoopInv /\ [Next]_vars =>
        [disk.exit \in FinalReasons => disk'.exit = disk.exit /\ sent' = sent /\ ran' = ran]_vars
  BY KeptStep
<1>2. QED
  BY <1>1, LoopHolds, PTL DEF Spec, VerdictKept
-----------------------------------------------------------------------------
(* The wall of errors. *)

(* The last n turns failed, and none after the first of them called a tool;
   no longer run of turns did.                                              *)
Failing(n) ==
  \A i \in 1..Len(story) : i > Len(story) - n =>
    story[i].kind = "error" /\ (i > Len(story) - n + 1 => ~ story[i].tools)
NoLonger(n) ==
  n < Len(story) => \/ story[Len(story) - n].kind # "error"
                    \/ n > 0 /\ story[Len(story) - n + 1].tools

(* `errorTurns' counts just these, and the loop is left before it is a wall. *)
Session == {"decide", "send"} \cup InTurn
ErrorsInv ==
  /\ at \in {"off", "prepare"} => story = <<>>
  /\ at \in Session => /\ errorTurns < ErrorWall /\ errorTurns <= Len(story)
                       /\ Failing(errorTurns) /\ NoLonger(errorTurns)
  /\ at = "verdict" /\ mem.exit = "agent_api" => Wall

LEMMA StoryFacts ==
  ASSUME Types
  PROVE  /\ Len(story) \in Nat /\ errorTurns \in Nat
         /\ \A i \in 1..Len(story) : story[i].kind \in {"ok", "error", "pause"} /\ story[i].tools \in BOOLEAN
<1> DEFINE Turns == [kind : {"ok", "error", "pause"}, tools : BOOLEAN]
<1>1. \A turn \in Turns : turn.kind \in {"ok", "error", "pause"} /\ turn.tools \in BOOLEAN
  OBVIOUS
<1>2. story \in Seq(Turns) /\ errorTurns \in Nat
  BY DEF Types, Stories
<1> HIDE DEF Turns
<1>3. Len(story) \in Nat /\ \A i \in 1..Len(story) : story[i] \in Turns
  BY <1>2
<1>4. QED
  BY <1>1, <1>2, <1>3

LEMMA WallSpelled ==
  ASSUME NEW s \in Seq([kind : {"ok", "error", "pause"}, tools : BOOLEAN]), Len(s) >= ErrorWall, NEW i \in 1..ErrorWall
  PROVE  SubSeq(s, Len(s) - ErrorWall + 1, Len(s))[i] = s[Len(s) - ErrorWall + i]
BY DEF ErrorWall

(* A count that is below the wall and cannot be longer is no wall. *)
LEMMA NoWall ==
  ASSUME Types, errorTurns < ErrorWall, errorTurns <= Len(story), NoLonger(errorTurns)
  PROVE  ~ Wall
<1>1. SUFFICES ASSUME Wall PROVE FALSE
  OBVIOUS
<1>2. Len(story) \in Nat /\ errorTurns \in Nat /\ Len(story) >= 3
  BY <1>1, StoryFacts DEF Wall, ErrorWall
<1>3. \A i \in 1..3 : Ended(3)[i] = story[Len(story) - 3 + i]
  BY <1>2, WallSpelled DEF Ended, ErrorWall, Types, Stories
<1>4. /\ \A i \in 1..3 : story[Len(story) - 3 + i].kind = "error"
      /\ \A i \in 2..3 : ~ story[Len(story) - 3 + i].tools
  BY <1>1, <1>3 DEF Wall, ErrorWall
<1>5. errorTurns \in 0..2 /\ errorTurns < Len(story)
  BY <1>2 DEF ErrorWall
<1>6. 3 - errorTurns \in 1..3 /\ Len(story) - 3 + (3 - errorTurns) = Len(story) - errorTurns
  BY <1>2, <1>5
<1>7. story[Len(story) - errorTurns].kind = "error"
  BY <1>4, <1>6
<1>8. errorTurns > 0 /\ story[Len(story) - errorTurns + 1].tools
  BY <1>5, <1>7 DEF NoLonger
<1>9. 4 - errorTurns \in 2..3 /\ Len(story) - 3 + (4 - errorTurns) = Len(story) - errorTurns + 1
  BY <1>2, <1>5, <1>8
<1>10. QED
  BY <1>4, <1>8, <1>9

(* What one more turn adds to the story. *)
LEMMA ToldFacts ==
  ASSUME Types, NEW k \in {"ok", "error", "pause"}, story' = Told(k)
  PROVE  /\ Len(story') = Len(story) + 1 /\ Len(story) \in Nat
         /\ \A i \in 1..Len(story) : story'[i] = story[i]
         /\ story'[Len(story) + 1].kind = k /\ story'[Len(story) + 1].tools = out.tools
<1> DEFINE turn == [kind |-> k, tools |-> out.tools]
<1>1. out.tools \in BOOLEAN
  BY DEF Types, Outcomes
<1>2. turn \in [kind : {"ok", "error", "pause"}, tools : BOOLEAN] /\ turn.kind = k /\ turn.tools = out.tools
  BY <1>1
<1>3. story' = Append(story, turn) /\ story \in Seq([kind : {"ok", "error", "pause"}, tools : BOOLEAN])
  BY DEF Told, Types, Stories
<1> HIDE DEF turn
<1>4. QED
  BY <1>2, <1>3

(* An error turn that does not end the session. *)
LEMMA ErrorCounted ==
  ASSUME Types, errorTurns <= Len(story), Failing(errorTurns), NoLonger(errorTurns), story' = Told("error")
  PROVE  /\ ErrorCount \in Nat /\ ErrorCount <= Len(story')
         /\ ErrorCount = IF out.tools THEN 1 ELSE errorTurns + 1
         /\ \A i \in 1..Len(story') : i > Len(story') - ErrorCount =>
              story'[i].kind = "error" /\ (i > Len(story') - ErrorCount + 1 => ~ story'[i].tools)
         /\ ErrorCount < Len(story') =>
              \/ story'[Len(story') - ErrorCount].kind # "error"
              \/ ErrorCount > 0 /\ story'[Len(story') - ErrorCount + 1].tools
<1>1. /\ Len(story') = Len(story) + 1 /\ Len(story) \in Nat /\ errorTurns \in Nat
      /\ \A i \in 1..Len(story) : story'[i] = story[i]
      /\ story'[Len(story) + 1].kind = "error" /\ story'[Len(story) + 1].tools = out.tools
  BY ToldFacts, StoryFacts
<1>2. CASE out.tools
  <2>1. ErrorCount = 1 /\ Len(story') - ErrorCount + 1 = Len(story) + 1
    BY <1>1, <1>2 DEF ErrorCount
  <2>2. story'[Len(story) + 1].tools
    BY <1>1, <1>2, Zenon
  <2>3. \A i \in 1..Len(story') : i > Len(story') - 1 => i = Len(story) + 1
    BY <1>1
  <2>4. QED
    BY <1>1, <1>2, <2>1, <2>2, <2>3
<1>3. CASE ~ out.tools
  <2>1. ErrorCount = errorTurns + 1 /\ Len(story') - ErrorCount = Len(story) - errorTurns
    BY <1>1, <1>3 DEF ErrorCount
  <2>2. ASSUME NEW i \in 1..Len(story'), i > Len(story) - errorTurns
        PROVE  story'[i].kind = "error" /\ (i > Len(story) - errorTurns + 1 => ~ story'[i].tools)
    <3>1. CASE i \in 1..Len(story)
      BY <1>1, <2>2, <3>1 DEF Failing
    <3>2. CASE i = Len(story) + 1
      BY <1>1, <1>3, <3>2
    <3>3. QED
      BY <1>1, <3>1, <3>2
  <2>3. ASSUME errorTurns < Len(story)
        PROVE  \/ story'[Len(story) - errorTurns].kind # "error"
               \/ story'[Len(story) - errorTurns + 1].tools
    BY <1>1, <2>3 DEF NoLonger
  <2>4. QED
    BY <1>1, <1>3, <2>1, <2>2, <2>3
<1>4. QED
  BY <1>2, <1>3

(* Steps that leave the count and the story alone. *)
LEMMA ErrorsKept ==
  ASSUME ErrorsInv, at \in Session, at' \in Session, story' = story, errorTurns' = errorTurns
  PROVE  ErrorsInv'
BY DEF ErrorsInv, Session, InTurn, Failing, NoLonger

LEMMA ErrorsLeft ==
  ASSUME at' \in {"verdict", "teardown", "metrics", "close"}, at' = "verdict" => mem'.exit # "agent_api"
  PROVE  ErrorsInv'
BY DEF ErrorsInv, Session, InTurn

(* Turns that are no error start the count again. *)
LEMMA ErrorsReset ==
  ASSUME Types, NEW k \in {"ok", "pause"}, story' = Told(k), errorTurns' = 0, at' = "decide"
  PROVE  ErrorsInv'
<1>1. /\ Len(story') = Len(story) + 1 /\ Len(story) \in Nat /\ story'[Len(story) + 1].kind = k
  BY ToldFacts
<1>2. errorTurns' < ErrorWall /\ errorTurns' <= Len(story') /\ Failing(errorTurns)' /\ NoLonger(errorTurns)'
  BY <1>1 DEF ErrorWall, Failing, NoLonger
<1>3. QED
  BY <1>2 DEF ErrorsInv

(* The errors counted are the failed turns in a row that end the story. *)
LEMMA ErrorsStep == LoopInv /\ ErrorsInv /\ [Next]_vars => ErrorsInv'
<1> SUFFICES ASSUME LoopInv, ErrorsInv, [Next]_vars PROVE ErrorsInv'
  OBVIOUS
<1>0. Types /\ VerdictInv /\ Types'
  BY TypeStep DEF LoopInv
<1>1. CASE Boot \/ StopBeforeAgent
  BY <1>1 DEF Boot, StopBeforeAgent, ErrorsInv, Session, InTurn, history
<1>2. CASE StartSession
  <2>1. story' = <<>> /\ errorTurns' = 0 /\ at' = "decide"
    BY <1>2 DEF StartSession, ErrorsInv, history
  <2>2. QED
    BY <2>1 DEF ErrorsInv, Failing, NoLonger, ErrorWall
<1>3. CASE StartTurn \/ Send \/ AfterEvent \/ LimitWaits
  BY <1>3, ErrorsKept DEF StartTurn, Send, AfterEvent, LimitWaits, Completed, Session, InTurn, counters, history
<1>4. CASE WatchInterrupt \/ WatchWalltime \/ AgentEvent
  BY <1>4, ErrorsKept DEF WatchInterrupt, WatchWalltime, AgentEvent, CallStarts, CallRunsInline, CallReturns,
     CallRefused, BackendFails, StreamEnds, TurnCrashes, Session, InTurn, counters, history
<1>5. CASE DecideStop \/ CutShort \/ LimitEnds \/ PauseInterrupted
  <2>1. \A reason \in {"interrupted", "protocol", "loop_limit", "tool_call_limit", "walltime_limit",
                       "loop_crash", "usage_limit"} : Leave(reason) => mem'.exit # "agent_api" /\ at' = "verdict"
    <3>1. SUFFICES ASSUME NEW reason \in {"interrupted", "protocol", "loop_limit", "tool_call_limit",
                                          "walltime_limit", "loop_crash", "usage_limit"}, Leave(reason)
                   PROVE  mem'.exit # "agent_api" /\ at' = "verdict"
      OBVIOUS
    <3>2. mem'.exit = ExitReason(reason)
      BY <1>0, <3>1, LeaveReasons
    <3>3. QED
      BY <3>1, <3>2 DEF ExitReason, Leave
  <2>2. StopReason \in {"interrupted", "protocol", "loop_limit", "tool_call_limit", "walltime_limit", "none"}
    BY DEF StopReason
  <2>3. QED
    BY <1>5, <2>1, <2>2, ErrorsLeft DEF DecideStop, CutShort, LimitEnds, PauseInterrupted
<1>6. CASE PauseEnds
  BY <1>0, <1>6, ErrorsReset DEF PauseEnds
<1>7. CASE OkTurn
  <2>1. CASE Leave("no_tool_progress")
    <3>1. mem'.exit = ExitReason("no_tool_progress") /\ at' = "verdict"
      BY <1>0, <2>1, LeaveReasons DEF Leave
    <3>2. QED
      BY <3>1, ErrorsLeft DEF ExitReason
  <2>2. CASE errorTurns' = 0 /\ at' = "decide"
    BY <1>0, <1>7, <2>2, ErrorsReset DEF OkTurn
  <2>3. QED
    BY <1>7, <2>1, <2>2 DEF OkTurn
<1>8. CASE ErrorTurn
  <2>1. /\ story' = Told("error") /\ errorTurns <= Len(story) /\ Failing(errorTurns) /\ NoLonger(errorTurns)
        /\ errorTurns < ErrorWall
    BY <1>8 DEF ErrorTurn, Completed, ErrorsInv, Session, InTurn
  <2>2. /\ ErrorCount \in Nat /\ ErrorCount <= Len(story')
        /\ ErrorCount = IF out.tools THEN 1 ELSE errorTurns + 1
        /\ \A i \in 1..Len(story') : i > Len(story') - ErrorCount =>
             story'[i].kind = "error" /\ (i > Len(story') - ErrorCount + 1 => ~ story'[i].tools)
        /\ ErrorCount < Len(story') =>
             \/ story'[Len(story') - ErrorCount].kind # "error"
             \/ ErrorCount > 0 /\ story'[Len(story') - ErrorCount + 1].tools
    BY <1>0, <2>1, ErrorCounted
  <2>3. CASE ErrorCount >= ErrorWall /\ Leave("agent_api")
    <3>1. ErrorCount = 3 /\ Len(story') \in Nat
      BY <1>0, <2>1, <2>2, <2>3, ToldFacts, StoryFacts DEF ErrorWall
    <3>2. \A i \in 1..3 : Ended(3)'[i] = story'[Len(story') - 3 + i]
      BY <1>0, <2>2, <3>1, WallSpelled DEF Ended, ErrorWall, Types, Stories
    <3>3. Wall'
      <4>1. \A i \in 1..3 : Len(story') - 3 + i \in 1..Len(story') /\ Len(story') - 3 + i > Len(story') - 3
        BY <2>2, <3>1
      <4>2. \A i \in 2..3 : Len(story') - 3 + i > Len(story') - 3 + 1
        BY <3>1
      <4>3. QED
        BY <2>2, <3>1, <3>2, <4>1, <4>2 DEF Wall, ErrorWall
    <3>4. QED
      BY <2>3, <3>3 DEF Leave, ErrorsInv, Session, InTurn
  <2>4. CASE ErrorCount < ErrorWall /\ errorTurns' = ErrorCount /\ at' = "decide"
    BY <2>2, <2>4 DEF ErrorsInv, Failing, NoLonger
  <2>5. QED
    BY <1>8, <2>3, <2>4 DEF ErrorTurn
<1>9. CASE SaveVerdict \/ Teardown \/ SaveMetrics
  BY <1>9, ErrorsLeft DEF SaveVerdict, Teardown, SaveMetrics
<1>10. CASE CloseTask \/ Die
  BY <1>10 DEF CloseTask, Die, Forget, ErrorsInv, Session, InTurn
<1>11. CASE RequestStop \/ ProtocolStops \/ TimePasses \/ UNCHANGED vars
  BY <1>11 DEF RequestStop, ProtocolStops, TimePasses, Undecided, ErrorsInv, Session, InTurn, Failing, NoLonger,
     Wall, Ended, vars, counters, history
<1>12. QED
  BY <1>1, <1>2, <1>3, <1>4, <1>5, <1>6, <1>7, <1>8, <1>9, <1>10, <1>11 DEF Next, Loop, Watch

(* The session ends with the backend's error exactly at a wall of error turns:
   the count that _run keeps, which starts again at a turn that worked, at a
   pause and at an error turn with tool calls, is the length of the run of
   failed turns at the end of the session, for any agent and any budgets.     *)
THEOREM WallHolds == Spec => []WallEnds
<1>1. Init => ErrorsInv
  BY DEF Init, ErrorsInv, Session, InTurn
<1>2. LoopInv /\ ErrorsInv => WallEnds
  <2>1. SUFFICES ASSUME LoopInv, ErrorsInv PROVE at = "decide" => ~ Wall
    BY DEF WallEnds, ErrorsInv
  <2>2. QED
    BY <2>1, NoWall DEF LoopInv, ErrorsInv, Session
<1>3. QED
  BY <1>1, <1>2, ErrorsStep, LoopHolds, PTL DEF Spec

=============================================================================
