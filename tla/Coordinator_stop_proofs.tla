----------------------- MODULE Coordinator_stop_proofs -----------------------
(* How a task stops, and where the answers of its requests are, for any set of
   requests, any budget, both lifecycles, both protocols, and any number of
   deaths and faults.                                                       *)
EXTENDS Coordinator, TLAPS

(* The points of a process before it serves, of a command, of the initial
   collection, and of an operation that either may execute.                 *)
Opening == {"down", "first_reset", "restore", "after_restore", "construct", "failed"}
Working == {"reset", "reset_finish", "reset_start", "validate", "adopt", "plan", "failing",
            "begin", "fresh", "loop", "judge", "score", "complete", "final_record", "tail",
            "remember", "answer"}
Gathering == {"collect", "collected_one", "collect_finish", "collect_save"}
Operating == {"act", "record"}

(* The points between the check of the limit and the operation it allows. *)
Cleared == {"begin", "fresh", "act", "reset"}

HolderInv ==
  /\ at \in Working => holder \in Requests
  /\ at \in Gathering => holder = Collector
  /\ at \in Operating => holder \in Requests \cup {Collector}
  /\ at \in Opening \/ holder = Collector =>
       /\ ~ serving /\ stopping = "no"
       /\ at \notin {"collect_finish", "collect_save"} => terminal = "none"

(* After shutdown() there is a reason to stop, and one operation at most has
   run or may still run.                                                    *)
LateInv ==
  /\ late \in Nat
  /\ stopping # "shutdown" => late = 0
  /\ stopping = "shutdown" => terminal # "none" /\ late + (IF at \in Cleared THEN 1 ELSE 0) <= 1

StopInv == HolderInv /\ LateInv

-----------------------------------------------------------------------------
(* Where the answer of an executed request is: lost, in the store, or with the
   command that holds the lock.                                             *)
InHand(r) == at \in (Working \ {"answer"}) \cup Operating /\ holder = r

Settled(r) ==
  \/ call[r] = "lost" \/ ~ HasRid(r)
  \/ db.answered[RidOf[r]] # NoCommand
  \/ InHand(r)

ExecutedInv ==
  /\ executed \subseteq Requests
  /\ call \in [Requests -> {"unsent", "waiting", "answered", "lost"}]
  /\ "answered" \in DOMAIN db /\ db.answered \in [Rids -> CommandNames \cup {NoCommand}]
  /\ at \in Working \cup Operating /\ holder \in Requests => call[holder] = "waiting"
  /\ \A r \in executed : call[r] # "unsent" /\ Settled(r)
  /\ RequestExecutedOnce

-----------------------------------------------------------------------------
(* One step of a process that is up: the holder stays with its command, a
   reason to stop is kept, an operation is cleared only without one, and no
   request is executed or answered.                                         *)
ReasonKept ==
  /\ terminal # "none" => terminal' # "none"
  /\ terminal \in Failures => terminal' \in Failures

Controlled ==
  /\ at # "down" /\ at' # "down" /\ HolderInv' /\ ReasonKept
  /\ UNCHANGED stopping
  /\ \/ late' = late /\ (at' \in Cleared => at \in Cleared \/ terminal = "none")
     \/ at \in Cleared /\ at' \notin Cleared /\ NoteLate

Unexecuted ==
  /\ UNCHANGED <<executed, call>>
  /\ "answered" \in DOMAIN db' /\ db'.answered = db.answered
  /\ \A r \in Requests : InHand(r) => InHand(r)'
  /\ at' \in Working \cup Operating /\ holder' \in Requests =>
       at \in Working \cup Operating /\ holder' = holder

(* Only RememberRequest touches the answers. *)
LEMMA AnswersKept ==
  ASSUME NEW d, "answered" \in DOMAIN d, NEW x, NEW y
  PROVE  /\ "answered" \in DOMAIN FinishEpisode(d, x) /\ FinishEpisode(d, x).answered = d.answered
         /\ "answered" \in DOMAIN AddRecord(d, x) /\ AddRecord(d, x).answered = d.answered
         /\ "answered" \in DOMAIN UpdateRecord(d, x, y)
         /\ UpdateRecord(d, x, y).answered = d.answered
         /\ "answered" \in DOMAIN AcceptRecord(d, x, y)
         /\ AcceptRecord(d, x, y).answered = d.answered
         /\ "answered" \in DOMAIN PhaseChanged(d, x) /\ PhaseChanged(d, x).answered = d.answered
         /\ "answered" \in DOMAIN Reopen(d, x) /\ Reopen(d, x).answered = d.answered
         /\ "answered" \in DOMAIN StartEpisode(d, x) /\ StartEpisode(d, x).answered = d.answered
         /\ "answered" \in DOMAIN RecordStep(d, x) /\ RecordStep(d, x).answered = d.answered
BY DEF FinishEpisode, AddRecord, UpdateRecord, AcceptRecord, PhaseChanged, Reopen, StartEpisode,
       RecordStep

LEMMA LimitNone == Limit = "none" => terminal = "none"
BY DEF Limit

LEMMA LimitKeeps == terminal # "none" => Limit = terminal
BY DEF Limit

LEMMA StartingMoves ==
  ASSUME HolderInv, "answered" \in DOMAIN db, FirstReset \/ RestoreFails \/ Restore \/ AfterRestore \/ Construct
  PROVE  Controlled /\ Unexecuted
<1> USE RequestShape, AnswersKept, LimitNone, LimitKeeps
<1> USE DEF Controlled, Unexecuted, HolderInv, ReasonKept, InHand, Opening, Working, Gathering,
            Operating, Cleared, disk, files, position, model, control, signals, outside, ghosts
<1>1. CASE FirstReset
  BY <1>1 DEF FirstReset
<1>2. CASE RestoreFails
  BY <1>2 DEF RestoreFails
<1>3. CASE Restore
  BY <1>3 DEF Restore
<1>4. CASE AfterRestore
  BY <1>4 DEF AfterRestore
<1>5. CASE Construct
  BY <1>5 DEF Construct
<1> QED BY <1>1, <1>2, <1>3, <1>4, <1>5

LEMMA CollectingMoves ==
  ASSUME HolderInv, "answered" \in DOMAIN db, Collecting
  PROVE  Controlled /\ Unexecuted
<1> USE RequestShape, AnswersKept, LimitNone, LimitKeeps
<1> USE DEF Controlled, Unexecuted, HolderInv, ReasonKept, InHand, Opening, Working, Gathering,
            Operating, Cleared, disk, files, position, model, control, signals, outside, ghosts
<1>1. CASE CollectAct
  BY <1>1 DEF CollectAct, Failures
<1>2. CASE CollectStop
  BY <1>2 DEF CollectStop, Failures
<1>3. CASE CollectFinish
  BY <1>3 DEF CollectFinish
<1>4. CASE CollectSave
  BY <1>4 DEF CollectSave
<1>5. CASE CollectedOne
  BY <1>5 DEF CollectedOne, Failures
<1> QED BY <1>1, <1>2, <1>3, <1>4, <1>5 DEF Collecting

LEMMA ResettingMoves ==
  ASSUME HolderInv, "answered" \in DOMAIN db, Resetting
  PROVE  Controlled /\ Unexecuted
<1> USE RequestShape, AnswersKept, LimitNone, LimitKeeps
<1> USE DEF Controlled, Unexecuted, HolderInv, ReasonKept, InHand, Opening, Working, Gathering,
            Operating, Cleared, disk, files, position, model, control, signals, outside, ghosts
<1>1. CASE Reset
  BY <1>1 DEF Reset
<1>2. CASE ResetFaults
  BY <1>2 DEF ResetFaults, Fault, Failures
<1>3. CASE ResetFinish
  BY <1>3 DEF ResetFinish
<1>4. CASE ResetStart
  BY <1>4 DEF ResetStart
<1>5. CASE ResetStoreFaults
  BY <1>5 DEF ResetStoreFaults, Fault, Failures
<1> QED BY <1>1, <1>2, <1>3, <1>4, <1>5 DEF Resetting

LEMMA ModellingMoves ==
  ASSUME HolderInv, "answered" \in DOMAIN db, Modelling
  PROVE  Controlled /\ Unexecuted
<1> USE RequestShape, AnswersKept, LimitNone, LimitKeeps
<1> USE DEF Controlled, Unexecuted, HolderInv, ReasonKept, InHand, Opening, Working, Gathering,
            Operating, Cleared, disk, files, position, model, control, signals, outside, ghosts
<1>1. CASE Reject
  BY <1>1 DEF Reject
<1>2. CASE Accept
  BY <1>2 DEF Accept
<1>3. CASE Adopt
  BY <1>3 DEF Adopt, ChangePhase
<1>4. CASE CommandFails
  BY <1>4 DEF CommandFails
<1>5. CASE CommandFaults
  BY <1>5 DEF CommandFaults, Fault, Failures
<1>6. CASE FailRecord
  BY <1>6 DEF FailRecord
<1>7. CASE PlanCompletes
  BY <1>7 DEF PlanCompletes
<1>8. CASE PlanStartUnexplained
  BY <1>8 DEF PlanStartUnexplained, ChangePhase
<1> QED BY <1>1, <1>2, <1>3, <1>4, <1>5, <1>6, <1>7, <1>8 DEF Modelling

LEMMA ExploringMoves ==
  ASSUME HolderInv, "answered" \in DOMAIN db, Exploring
  PROVE  Controlled /\ Unexecuted
<1> USE RequestShape, AnswersKept, LimitNone, LimitKeeps
<1> USE DEF Controlled, Unexecuted, HolderInv, ReasonKept, InHand, Opening, Working, Gathering,
            Operating, Cleared, disk, files, position, model, control, signals, outside, ghosts
<1>1. CASE Begin
  BY <1>1 DEF Begin
<1>2. CASE Fresh
  BY <1>2 DEF Fresh, Failures
<1>3. CASE StopExploring
  BY <1>3 DEF StopExploring, Failures
<1>4. CASE ControllerFails
  BY <1>4 DEF ControllerFails, Failures
<1>5. CASE RunFaults
  BY <1>5 DEF RunFaults, Fault, Failures
<1>6. CASE ModelFails
  BY <1>6 DEF ModelFails, ChangePhase
<1>7. CASE ChooseAction
  BY <1>7 DEF ChooseAction
<1>8. CASE Act
  BY <1>8 DEF Act
<1>9. CASE ActInvalid
  BY <1>9 DEF ActInvalid
<1>10. CASE ActFaults
  BY <1>10 DEF ActFaults, Fault, Failures, AfterFailedStep
<1>11. CASE Record
  BY <1>11 DEF Record, AfterFailedStep, Failures
<1>12. CASE RecordFaults
  BY <1>12 DEF RecordFaults, Fault, Failures, AfterFailedStep
<1>13. CASE Judge
  BY <1>13 DEF Judge, ChangePhase
<1>14. CASE Score
  BY <1>14 DEF Score, Failures
<1>15. CASE Complete
  BY <1>15 DEF Complete
<1>16. CASE FinalRecord
  BY <1>16 DEF FinalRecord
<1> QED BY <1>1, <1>2, <1>3, <1>4, <1>5, <1>6, <1>7, <1>8, <1>9, <1>10, <1>11, <1>12, <1>13, <1>14, <1>15, <1>16 DEF Exploring

LEMMA ClosingMoves ==
  ASSUME HolderInv, "answered" \in DOMAIN db, ReadLimit \/ Closing
  PROVE  Controlled /\ Unexecuted
<1> USE RequestShape, AnswersKept, LimitNone, LimitKeeps
<1> USE DEF Controlled, Unexecuted, HolderInv, ReasonKept, InHand, Opening, Working, Gathering,
            Operating, Cleared, disk, files, position, model, control, signals, outside, ghosts
<1>1. CASE ReadLimit
  BY <1>1 DEF ReadLimit, Failures
<1>2. CASE CloseEpisode
  BY <1>2 DEF CloseEpisode
<1>3. CASE Close
  BY <1>3 DEF Close
<1> QED BY <1>1, <1>2, <1>3 DEF Closing

LEMMA AnsweringMoves ==
  ASSUME HolderInv, Answer \/ AnswerFaults
  PROVE  /\ Controlled /\ UNCHANGED <<executed, db>>
         /\ holder \in Requests /\ at \in Working /\ at' = "idle"
         /\ \/ call' = [call EXCEPT ![holder] = "lost"]
            \/ at = "answer" /\ call' = [call EXCEPT ![holder] = "answered"]
<1> USE RequestShape
<1> USE DEF Controlled, HolderInv, ReasonKept, Opening, Working, Gathering, Operating, Cleared,
            disk, files, position, model, control, signals, outside, ghosts
<1>1. CASE Answer
  BY <1>1 DEF Answer
<1>2. CASE AnswerFaults
  BY <1>2 DEF AnswerFaults, Fault
<1> QED BY <1>1, <1>2

LEMMA EnteringMoves ==
  ASSUME HolderInv, "answered" \in DOMAIN db, NEW r \in Requests,
         EnterRefused(r) \/ EnterBadFiles(r) \/ EnterBranch(r)
  PROVE  /\ Controlled /\ at = "idle" /\ holder' = r /\ call[r] = "waiting" /\ UNCHANGED call
         /\ "answered" \in DOMAIN db' /\ db'.answered = db.answered
         /\ \/ UNCHANGED executed
            \/ ~ Known(r) /\ executed' = executed \cup {r} /\ InHand(r)'
<1> USE RequestShape, AnswersKept, LimitNone, LimitKeeps
<1> USE DEF Enter, Controlled, HolderInv, ReasonKept, InHand, Opening, Working,
            Gathering, Operating, Cleared, Failures, disk, files, position, model, control,
            signals, outside, ghosts
<1>1. CASE EnterRefused(r)
  BY <1>1 DEF EnterRefused
<1>2. CASE EnterBadFiles(r)
  BY <1>2 DEF EnterBadFiles
<1>3. CASE EnterBranch(r)
  <2>1. at' \in {"begin", "validate", "plan", "reset"}
    BY <1>3 DEF EnterBranch, FirstStepOf, CommandNames
  <2>2. "answered" \in DOMAIN db' /\ db'.answered = db.answered
    BY <1>3 DEF EnterBranch
  <2> QED BY <1>3, <2>1, <2>2 DEF EnterBranch
<1> QED BY <1>1, <1>2, <1>3

LEMMA RememberMoves ==
  ASSUME HolderInv, ExecutedInv, Remember
  PROVE  /\ Controlled /\ UNCHANGED <<executed, call>> /\ holder \in Requests
         /\ at \in Working /\ holder' = holder
         /\ "answered" \in DOMAIN db'
         /\ db'.answered \in [Rids -> CommandNames \cup {NoCommand}]
         /\ \A q \in Rids : \/ db'.answered[q] = db.answered[q]
                            \/ db'.answered[q] # NoCommand
         /\ RidOf[holder] \in Rids => db'.answered[RidOf[holder]] # NoCommand
<1>1. /\ Controlled /\ UNCHANGED <<executed, call>> /\ holder \in Requests
      /\ at \in Working /\ holder' = holder
  BY RequestShape
     DEF Remember, Controlled, HolderInv, ReasonKept, Opening, Working, Gathering, Operating,
         Cleared, files, position, model, control, signals, outside, ghosts
<1>2. CASE HasRid(holder)
  <2>1. RidOf[holder] \in Rids /\ NameOf[holder] \in CommandNames
    BY <1>1, <1>2, RequestShape DEF HasRid
  <2>2. /\ "answered" \in DOMAIN db'
        /\ db'.answered = [db.answered EXCEPT ![RidOf[holder]] = NameOf[holder]]
    BY <1>2 DEF Remember, RememberRequest, ExecutedInv
  <2> QED BY <1>1, <2>1, <2>2, RequestShape DEF ExecutedInv
<1>3. CASE ~ HasRid(holder)
  <2>1. RidOf[holder] \notin Rids
    BY <1>3, RequestShape DEF HasRid
  <2> QED BY <1>1, <1>3, <2>1 DEF Remember, ExecutedInv
<1> QED BY <1>2, <1>3

(* The clock, the loop and the clients. *)
LEMMA OutsideMoves ==
  ASSUME StopInv, Outside \/ (\E r \in Requests : Send(r) \/ AnswerAtOnce(r)) \/ UNCHANGED vars
  PROVE  /\ StopInv' /\ ReasonKept
         /\ UNCHANGED <<at, holder, db, executed>>
         /\ \/ UNCHANGED call
            \/ \E r \in Requests :
                 \/ call[r] = "unsent" /\ call' = [call EXCEPT ![r] = "waiting"]
                 \/ /\ call[r] = "waiting" /\ at \in {"idle", "closed"}
                    /\ call' = [call EXCEPT ![r] = "answered"]
<1> USE DEF StopInv, HolderInv, LateInv, ReasonKept, vars, disk, files, position, control, signals,
            outside, ghosts, Failures
<1>1. CASE DeadlinePasses \/ PauseClock
  BY <1>1 DEF DeadlinePasses, PauseClock
<1>2. CASE LoopStops
  BY <1>2 DEF LoopStops
<1>3. CASE Shutdown
  <2>1. StopInv'
    BY <1>3 DEF Shutdown
  <2>2. ReasonKept
    BY <1>3 DEF Shutdown
  <2> QED BY <1>3, <2>1, <2>2 DEF Shutdown
<1>4. ASSUME NEW r \in Requests, Send(r) \/ AnswerAtOnce(r)
      PROVE  /\ StopInv' /\ ReasonKept
             /\ UNCHANGED <<at, holder, db, executed>>
             /\ \/ call[r] = "unsent" /\ call' = [call EXCEPT ![r] = "waiting"]
                \/ /\ call[r] = "waiting" /\ at \in {"idle", "closed"}
                   /\ call' = [call EXCEPT ![r] = "answered"]
  BY <1>4 DEF Send, AnswerAtOnce
<1>5. CASE UNCHANGED vars
  BY <1>5
<1> QED BY <1>1, <1>2, <1>3, <1>4, <1>5 DEF Outside

(* A process starts, or ends. *)
LEMMA ProcessMoves ==
  ASSUME StopInv, Boot \/ Die
  PROVE  /\ StopInv' /\ UNCHANGED <<db, executed>>
         /\ \/ at = "down" /\ at' \in Opening /\ at' # "down" /\ ReasonKept /\ UNCHANGED call
            \/ /\ at' = "down"
               /\ call' = [r \in Requests |-> IF call[r] = "waiting" THEN "lost" ELSE call[r]]
<1> USE RequestShape DEF StopInv, HolderInv, LateInv, Opening, Working, Gathering, Operating,
                         Cleared, disk, files
<1>1. CASE Boot
  BY <1>1 DEF Boot, ReasonKept, position, control, signals, ghosts
<1>2. CASE Die
  BY <1>2 DEF Die, FreshMemory
<1> QED BY <1>1, <1>2

-----------------------------------------------------------------------------
(* Every step is one of these. *)
LEMMA Moves ==
  ASSUME StopInv, ExecutedInv, [Next]_vars
  PROVE  \/ Controlled /\ Unexecuted
         \/ \E r \in Requests : EnterRefused(r) \/ EnterBadFiles(r) \/ EnterBranch(r)
         \/ Remember \/ Answer \/ AnswerFaults
         \/ Outside \/ (\E r \in Requests : Send(r) \/ AnswerAtOnce(r)) \/ UNCHANGED vars
         \/ Boot \/ Die
<1>0. HolderInv /\ "answered" \in DOMAIN db
  BY DEF StopInv, ExecutedInv
<1>1. CASE Starting
  BY <1>0, <1>1, StartingMoves, Zenon DEF Starting
<1>2. CASE Collecting \/ Resetting \/ Modelling \/ Exploring
  BY <1>0, <1>2, CollectingMoves, ResettingMoves, ModellingMoves, ExploringMoves, Zenon
<1>3. CASE Entering
  BY <1>3, Zenon DEF Entering
<1>4. CASE Answering \/ Closing
  BY <1>0, <1>4, ClosingMoves, Zenon DEF Answering
<1>5. CASE Outside \/ Die \/ (\E r \in Requests : Send(r) \/ AnswerAtOnce(r)) \/ UNCHANGED vars
  BY <1>5, Zenon
<1> QED BY <1>1, <1>2, <1>3, <1>4, <1>5, Zenon DEF Next

LEMMA ControlledKeeps == StopInv /\ Controlled => StopInv'
<1> SUFFICES ASSUME StopInv, Controlled PROVE StopInv'
  OBVIOUS
<1>1. LateInv'
  <2>1. late' \in Nat /\ (stopping # "shutdown" => late' = 0)
    BY DEF StopInv, LateInv, Controlled, NoteLate
  <2>2. ASSUME stopping = "shutdown"
        PROVE  terminal' # "none" /\ late' + (IF at' \in Cleared THEN 1 ELSE 0) <= 1
    BY <2>2 DEF StopInv, LateInv, Controlled, NoteLate, ReasonKept
  <2> QED BY <2>1, <2>2 DEF LateInv, Controlled
<1> QED BY <1>1 DEF StopInv, Controlled

LEMMA StopStep == StopInv /\ ExecutedInv /\ [Next]_vars => StopInv'
<1> SUFFICES ASSUME StopInv, ExecutedInv, [Next]_vars PROVE StopInv'
  OBVIOUS
<1>1. HolderInv /\ "answered" \in DOMAIN db
  BY DEF StopInv, ExecutedInv
<1>2. ASSUME NEW r \in Requests, EnterRefused(r) \/ EnterBadFiles(r) \/ EnterBranch(r)
      PROVE  Controlled
  BY <1>1, <1>2, EnteringMoves, Zenon
<1>3. Remember \/ Answer \/ AnswerFaults => Controlled
  BY <1>1, RememberMoves, AnsweringMoves, Zenon
<1> QED BY <1>2, <1>3, Moves, ControlledKeeps, OutsideMoves, ProcessMoves, Zenon

LEMMA ReasonStep ==
  StopInv /\ ExecutedInv /\ [Next]_vars => (at # "down" /\ at' # "down" => ReasonKept)
<1> SUFFICES ASSUME StopInv, ExecutedInv, [Next]_vars, at' # "down" PROVE ReasonKept
  OBVIOUS
<1>1. HolderInv /\ "answered" \in DOMAIN db
  BY DEF StopInv, ExecutedInv
<1>2. Controlled => ReasonKept
  BY DEF Controlled
<1>3. ASSUME NEW r \in Requests, EnterRefused(r) \/ EnterBadFiles(r) \/ EnterBranch(r)
      PROVE  Controlled
  BY <1>1, <1>3, EnteringMoves, Zenon
<1>4. Remember \/ Answer \/ AnswerFaults => Controlled
  BY <1>1, RememberMoves, AnsweringMoves, Zenon
<1> QED BY <1>2, <1>3, <1>4, Moves, OutsideMoves, ProcessMoves, Zenon
-----------------------------------------------------------------------------
(* Where the answers are, step by step. *)

LEMMA ExecutedInit == Init => ExecutedInv
BY RequestShape
   DEF Init, EmptyStore, ExecutedInv, RequestExecutedOnce, Working, Operating

(* Steps that execute and answer nothing. *)
LEMMA UnexecutedKeeps ==
  ASSUME ExecutedInv, Unexecuted
  PROVE  ExecutedInv'
<1>1. \A r \in executed : Settled(r) => Settled(r)'
  BY DEF ExecutedInv, Unexecuted, Settled
<1>2. RequestExecutedOnce'
  BY DEF ExecutedInv, Unexecuted, RequestExecutedOnce
<1> QED BY <1>1, <1>2 DEF ExecutedInv, Unexecuted

(* A command that begins: no other one is in hand, so the earlier executions
   of an id that is not in the store are lost.                              *)
LEMMA EnteringKeeps ==
  ASSUME ExecutedInv, NEW r \in Requests, at = "idle", holder' = r, call[r] = "waiting",
         UNCHANGED call, "answered" \in DOMAIN db', db'.answered = db.answered,
         \/ UNCHANGED executed
         \/ ~ Known(r) /\ executed' = executed \cup {r} /\ InHand(r)'
  PROVE  ExecutedInv'
<1>1. \A s \in executed : \/ call[s] = "lost" \/ ~ HasRid(s)
                           \/ db.answered[RidOf[s]] # NoCommand
  BY DEF ExecutedInv, Settled, InHand, Working, Operating
<1>2. \A s \in executed' : call'[s] # "unsent" /\ Settled(s)'
  BY <1>1 DEF ExecutedInv, Settled
<1>3. RequestExecutedOnce'
  <2>1. CASE UNCHANGED executed
    BY <2>1 DEF ExecutedInv, RequestExecutedOnce
  <2>2. CASE ~ Known(r) /\ executed' = executed \cup {r}
    <3>1. \A s \in executed : RidOf[s] = RidOf[r] /\ HasRid(r) => call[s] = "lost"
      BY <1>1, <2>2 DEF Known, HasRid
    <3> QED BY <2>2, <3>1 DEF ExecutedInv, RequestExecutedOnce, HasRid
  <2> QED BY <2>1, <2>2
<1> QED BY <1>2, <1>3 DEF ExecutedInv

LEMMA RememberKeeps ==
  ASSUME StopInv, ExecutedInv, Remember
  PROVE  ExecutedInv'
<1>1. /\ UNCHANGED <<executed, call>> /\ holder \in Requests /\ at \in Working
      /\ holder' = holder /\ "answered" \in DOMAIN db'
      /\ db'.answered \in [Rids -> CommandNames \cup {NoCommand}]
  BY RememberMoves, Zenon DEF StopInv
<1>2. ASSUME NEW q \in Rids, db.answered[q] # NoCommand PROVE db'.answered[q] # NoCommand
  BY <1>2, RememberMoves, Zenon DEF StopInv
<1>3. RidOf[holder] \in Rids => db'.answered[RidOf[holder]] # NoCommand
  BY RememberMoves, Zenon DEF StopInv
<1>4. ASSUME NEW r \in executed PROVE Settled(r)'
  <2>1. r \in Requests /\ (HasRid(r) => RidOf[r] \in Rids)
    BY RequestShape DEF ExecutedInv, HasRid
  <2> QED BY <1>1, <1>2, <1>3, <2>1 DEF ExecutedInv, Settled, InHand
<1>5. RequestExecutedOnce'
  BY <1>1 DEF ExecutedInv, RequestExecutedOnce
<1> QED BY <1>1, <1>4, <1>5 DEF ExecutedInv

(* The answer, or the fault in its place: the holder's call was waiting, so no
   answer that was lost comes back.                                         *)
LEMMA AnsweringKeeps ==
  ASSUME StopInv, ExecutedInv, Answer \/ AnswerFaults
  PROVE  ExecutedInv'
<1>1. /\ UNCHANGED <<executed, db>>
      /\ holder \in Requests /\ at \in Working /\ at' = "idle"
      /\ \/ call' = [call EXCEPT ![holder] = "lost"]
         \/ at = "answer" /\ call' = [call EXCEPT ![holder] = "answered"]
  BY AnsweringMoves, Zenon DEF StopInv
<1>2. call[holder] = "waiting" /\ call' \in [Requests -> {"unsent", "waiting", "answered", "lost"}]
  BY <1>1 DEF ExecutedInv
<1>3. \A r \in Requests : (call'[r] # "lost" => call[r] # "lost")
                           /\ (call'[r] = "unsent" => call[r] = "unsent")
                           /\ (call[r] = "lost" => call'[r] = "lost")
  BY <1>1, <1>2 DEF ExecutedInv
<1>4. ASSUME NEW r \in executed PROVE Settled(r)'
  <2>1. r \in Requests /\ Settled(r)
    BY DEF ExecutedInv
  <2>2. InHand(r) => call'[r] = "lost"
    BY <1>1, <2>1 DEF InHand, ExecutedInv, Operating
  <2> QED BY <1>1, <1>3, <2>1, <2>2 DEF Settled
<1>5. RequestExecutedOnce'
  BY <1>1, <1>3 DEF ExecutedInv, RequestExecutedOnce
<1>6. at' \notin Working \cup Operating
  BY <1>1 DEF Working, Operating
<1> QED BY <1>1, <1>2, <1>3, <1>4, <1>5, <1>6 DEF ExecutedInv

LEMMA OutsideKeeps ==
  ASSUME StopInv, ExecutedInv,
         Outside \/ (\E r \in Requests : Send(r) \/ AnswerAtOnce(r)) \/ UNCHANGED vars
  PROVE  ExecutedInv'
<1>1. UNCHANGED <<at, holder, db, executed>>
  BY OutsideMoves, Zenon
<1>2. \A r \in Requests : InHand(r)' <=> InHand(r)
  BY <1>1 DEF InHand
<1>3. CASE UNCHANGED call
  BY <1>1, <1>2, <1>3 DEF ExecutedInv, RequestExecutedOnce, Settled, InHand
<1>4. ASSUME NEW r \in Requests,
             \/ call[r] = "unsent" /\ call' = [call EXCEPT ![r] = "waiting"]
             \/ /\ call[r] = "waiting" /\ at \in {"idle", "closed"}
                /\ call' = [call EXCEPT ![r] = "answered"]
      PROVE  ExecutedInv'
  <2>1. call' \in [Requests -> {"unsent", "waiting", "answered", "lost"}]
    BY <1>4 DEF ExecutedInv
  <2>2. \A s \in executed : /\ s \in Requests /\ call'[s] # "unsent"
                            /\ call'[s] = "lost" <=> call[s] = "lost"
    BY <1>4 DEF ExecutedInv
  <2>3. \A s \in executed : Settled(s)'
    BY <1>1, <1>2, <2>2 DEF ExecutedInv, Settled
  <2>4. RequestExecutedOnce'
    BY <1>1, <2>2 DEF ExecutedInv, RequestExecutedOnce
  <2>5. at \in Working \cup Operating /\ holder \in Requests => call'[holder] = "waiting"
    BY <1>4 DEF ExecutedInv, Working, Operating
  <2> QED BY <1>1, <2>1, <2>2, <2>3, <2>4, <2>5 DEF ExecutedInv
<1> QED BY <1>3, <1>4, OutsideMoves, Zenon

LEMMA ProcessKeeps ==
  ASSUME StopInv, ExecutedInv, Boot \/ Die
  PROVE  ExecutedInv'
<1>1. UNCHANGED <<db, executed>> /\ at' \notin Working \cup Operating
  BY ProcessMoves DEF Opening, Working, Operating
<1>2. \/ at = "down" /\ UNCHANGED call
      \/ call' = [r \in Requests |-> IF call[r] = "waiting" THEN "lost" ELSE call[r]]
  BY ProcessMoves, Zenon
<1>3. /\ call' \in [Requests -> {"unsent", "waiting", "answered", "lost"}]
      /\ \A r \in Requests : /\ call'[r] # "lost" => call[r] # "lost"
                             /\ call'[r] = "unsent" => call[r] = "unsent"
                             /\ call[r] = "lost" => call'[r] = "lost"
  BY <1>2 DEF ExecutedInv
<1>4. ASSUME NEW r \in executed PROVE Settled(r)'
  <2>1. r \in Requests /\ Settled(r)
    BY DEF ExecutedInv
  <2>2. InHand(r) => call'[r] = "lost"
    BY <1>2, <2>1 DEF InHand, ExecutedInv, Working, Operating
  <2> QED BY <1>1, <1>3, <2>1, <2>2 DEF Settled
<1>5. RequestExecutedOnce'
  BY <1>1, <1>3 DEF ExecutedInv, RequestExecutedOnce
<1> QED BY <1>1, <1>3, <1>4, <1>5 DEF ExecutedInv

LEMMA ExecutedStep == StopInv /\ ExecutedInv /\ [Next]_vars => ExecutedInv'
<1> SUFFICES ASSUME StopInv, ExecutedInv, [Next]_vars PROVE ExecutedInv'
  OBVIOUS
<1>1. CASE Controlled /\ Unexecuted
  BY <1>1, UnexecutedKeeps
<1>2. ASSUME NEW r \in Requests, EnterRefused(r) \/ EnterBadFiles(r) \/ EnterBranch(r)
      PROVE  ExecutedInv'
  <2>1. HolderInv /\ "answered" \in DOMAIN db
    BY DEF StopInv, ExecutedInv
  <2>2. /\ at = "idle" /\ holder' = r /\ call[r] = "waiting" /\ UNCHANGED call
        /\ "answered" \in DOMAIN db' /\ db'.answered = db.answered
        /\ \/ UNCHANGED executed
           \/ ~ Known(r) /\ executed' = executed \cup {r} /\ InHand(r)'
    BY <1>2, <2>1, EnteringMoves, Zenon
  <2> QED BY <2>2, EnteringKeeps
<1> QED BY <1>1, <1>2, RememberKeeps, AnsweringKeeps, OutsideKeeps, ProcessKeeps, Moves, Zenon

-----------------------------------------------------------------------------
LEMMA StopInit == Init => StopInv
BY RequestShape
   DEF Init, StopInv, HolderInv, LateInv, Opening, Working, Gathering, Operating, Cleared

(* Who holds the lock where, when the task is stopping, and where the answer of
   an executed request is, over all processes.                              *)
THEOREM SessionHolds == Spec => [](StopInv /\ ExecutedInv)
BY StopInit, StopStep, ExecutedInit, ExecutedStep, PTL DEF Spec

(* At most one real operation runs after shutdown() has stopped the task. *)
THEOREM LateHolds == Spec => []OneLateAction
<1>1. StopInv => OneLateAction
  BY DEF StopInv, LateInv, OneLateAction
<1> QED BY <1>1, SessionHolds, PTL

(* A request id is executed again only when every earlier answer was lost. *)
THEOREM RequestsHold == Spec => []RequestExecutedOnce
<1>1. ExecutedInv => RequestExecutedOnce
  BY DEF ExecutedInv
<1> QED BY <1>1, SessionHolds, PTL

(* No process clears its reason to stop, or turns a failure into a success. *)
THEOREM ReasonHolds == Spec => StopReasonKept
<1>1. StopInv /\ ExecutedInv /\ [Next]_vars =>
        [at # "down" /\ at' # "down" =>
           /\ terminal # "none" => terminal' # "none"
           /\ terminal \in Failures => terminal' \in Failures]_vars
  BY ReasonStep DEF ReasonKept
<1> QED BY <1>1, SessionHolds, PTL DEF Spec, StopReasonKept
=============================================================================
