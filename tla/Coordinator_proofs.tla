-------------------------- MODULE Coordinator_proofs --------------------------
(* The recorded history of a task, proved for any limit, any set of requests,
   both lifecycles, both protocols, and any number of deaths and faults.    *)
EXTENDS Coordinator, FiniteSetTheorems, TLAPS

(* The points of a process before it has its environment. *)
Bare == {"down", "first_reset", "restore", "failed"}

(* The points between the check of the limit and the commit it allows. *)
Allowed == {"act", "record", "reset"}
Uncommitted == {"reset_finish", "reset_start"}

(* The points that a fault or a stop leads to. *)
Ending == {"tail", "remember", "answer", "idle", "close", "closed", "score", "complete",
           "final_record", "failing", "collect_finish", "collect_save"}

Shape ==
  /\ "log" \in DOMAIN db /\ db.log \in Seq(Entries)
  /\ env \in Seq(Entries) /\ resetActions \in Nat /\ at \in Points

NothingYet ==
  /\ at \in Bare => env = <<>> /\ resetActions = 0
  /\ at \notin Bare => env # <<>> /\ db.log # <<>>
  /\ at # "down" => created
  /\ at = "first_reset" \/ ~ created => db.log = <<>>

InStep ==
  /\ at = "record" => \E obs \in Observations : env = Append(db.log, [op |-> "step", obs |-> obs])
  /\ at \in Uncommitted => env = Append(db.log, [op |-> "reset", obs |-> "play"])
  /\ at \notin Bare \cup Ending \cup Uncommitted \cup {"record"} => env = db.log
  /\ at \in Ending /\ terminal = "none" => env = db.log

Charge(set) == IF at \in set THEN 1 ELSE 0

Charged ==
  /\ at \in Bare => TotalSteps(db) + TotalResets(db) <= MaxActions
  /\ at \notin Bare =>
       /\ TotalResets(db) + Charge(Uncommitted) <= resetActions
       /\ (TotalSteps(db) + resetActions) + Charge(Allowed) <= MaxActions

HistoryInv == Shape /\ NothingYet /\ InStep /\ Charged
-----------------------------------------------------------------------------
(* What the operators of the store do to the log. *)

Added(e, ops) == IF e.op \in ops THEN 1 ELSE 0

(* TaskHistory counts with the same operator. *)
LEMMA SameCardinality == \A S : History!Cardinality(S) = Cardinality(S)
BY Zenon DEF History!Cardinality, Cardinality

(* The counts of a log are finite, and every entry but a start is spent. *)
LEMMA Counts ==
  ASSUME NEW d, d.log \in Seq(Entries)
  PROVE  /\ IsFiniteSet(Steps(d)) /\ TotalSteps(d) \in Nat
         /\ IsFiniteSet(Resets(d)) /\ TotalResets(d) \in Nat
         /\ History!Spent(d.log) = TotalSteps(d) + TotalResets(d)
<1>1. IsFiniteSet(DOMAIN d.log)
  BY FS_Interval
<1>2. Steps(d) \in SUBSET DOMAIN d.log /\ Resets(d) \in SUBSET DOMAIN d.log
  BY DEF Steps, Resets
<1>3. IsFiniteSet(Steps(d)) /\ IsFiniteSet(Resets(d))
  BY <1>1, <1>2, FS_Subset
<1>4. TotalSteps(d) \in Nat /\ TotalResets(d) \in Nat
  BY <1>3, FS_CardinalityType DEF TotalSteps, TotalResets
<1>5. Steps(d) \cap Resets(d) = {}
  BY DEF Steps, Resets
<1>6. Steps(d) \cup Resets(d) = {i \in DOMAIN d.log : d.log[i].op # "start"}
  <2>0. \A i \in DOMAIN d.log : d.log[i] \in Entries
    OBVIOUS
  <2>1. \A i \in DOMAIN d.log : d.log[i].op \in {"start", "reset", "step"}
    BY <2>0 DEF Entries, Operations
  <2> QED BY <2>1 DEF Steps, Resets
<1>7. Cardinality(Steps(d) \cup Resets(d)) = TotalSteps(d) + TotalResets(d) - Cardinality({})
  BY <1>3, <1>5, FS_Union DEF TotalSteps, TotalResets
<1>8. History!Spent(d.log) = Cardinality(Steps(d) \cup Resets(d))
  BY <1>6, SameCardinality, Zenon DEF History!Spent
<1>9. History!Spent(d.log) = TotalSteps(d) + TotalResets(d)
  BY <1>4, <1>7, <1>8, FS_EmptySet
<1> QED BY <1>3, <1>4, <1>9

(* An entry more counts once, as what it is. *)
LEMMA CountsAppend ==
  ASSUME NEW d, NEW c, NEW e \in Entries, d.log \in Seq(Entries), c.log = Append(d.log, e)
  PROVE  /\ c.log \in Seq(Entries)
         /\ TotalSteps(c) = TotalSteps(d) + Added(e, {"step"})
         /\ TotalResets(c) = TotalResets(d) + Added(e, {"reset"})
<1> DEFINE n == Len(d.log) + 1
<1>1. /\ c.log \in Seq(Entries) /\ DOMAIN c.log = DOMAIN d.log \cup {n}
      /\ n \notin DOMAIN d.log /\ c.log[n] = e
      /\ \A i \in DOMAIN d.log : c.log[i] = d.log[i]
  OBVIOUS
<1>2. Steps(c) = IF e.op = "step" THEN Steps(d) \cup {n} ELSE Steps(d)
  BY <1>1 DEF Steps
<1>3. Resets(c) = IF e.op = "reset" THEN Resets(d) \cup {n} ELSE Resets(d)
  BY <1>1 DEF Resets
<1>4. n \notin Steps(d) /\ n \notin Resets(d)
  BY <1>1 DEF Steps, Resets
<1> HIDE DEF n
<1>5. /\ IsFiniteSet(Steps(d)) /\ Cardinality(Steps(d)) \in Nat
      /\ IsFiniteSet(Resets(d)) /\ Cardinality(Resets(d)) \in Nat
  BY Counts, Zenon DEF TotalSteps, TotalResets
<1>6. /\ Cardinality(Steps(d) \cup {n}) = Cardinality(Steps(d)) + 1
      /\ Cardinality(Resets(d) \cup {n}) = Cardinality(Resets(d)) + 1
  BY <1>4, <1>5, FS_AddElement
<1>7. TotalSteps(c) = TotalSteps(d) + Added(e, {"step"})
  BY <1>2, <1>5, <1>6 DEF TotalSteps, Added
<1>8. TotalResets(c) = TotalResets(d) + Added(e, {"reset"})
  BY <1>3, <1>5, <1>6 DEF TotalResets, Added
<1> QED BY <1>1, <1>7, <1>8

(* Every commit but the start of an episode and a step leaves the log alone. *)
LEMMA LogKept ==
  ASSUME NEW d, "log" \in DOMAIN d, NEW x, NEW y, NEW z
  PROVE  /\ "log" \in DOMAIN FinishEpisode(d, x) /\ FinishEpisode(d, x).log = d.log
         /\ "log" \in DOMAIN AddRecord(d, x) /\ AddRecord(d, x).log = d.log
         /\ "log" \in DOMAIN UpdateRecord(d, x, y) /\ UpdateRecord(d, x, y).log = d.log
         /\ "log" \in DOMAIN AcceptRecord(d, x, y) /\ AcceptRecord(d, x, y).log = d.log
         /\ "log" \in DOMAIN PhaseChanged(d, x) /\ PhaseChanged(d, x).log = d.log
         /\ "log" \in DOMAIN RememberRequest(d, x, y) /\ RememberRequest(d, x, y).log = d.log
         /\ "log" \in DOMAIN Reopen(d, x) /\ Reopen(d, x).log = d.log
BY DEF FinishEpisode, AddRecord, UpdateRecord, AcceptRecord, PhaseChanged, RememberRequest, Reopen

LEMMA LogGrows ==
  ASSUME NEW d, "log" \in DOMAIN d, NEW x
  PROVE  /\ "log" \in DOMAIN StartEpisode(d, x)
         /\ StartEpisode(d, x).log = Append(d.log, [op |-> x, obs |-> "play"])
         /\ "log" \in DOMAIN RecordStep(d, x)
         /\ RecordStep(d, x).log = Append(d.log, [op |-> "step", obs |-> x])
BY DEF StartEpisode, RecordStep

-----------------------------------------------------------------------------
(* The inductive invariant. *)

LEMMA HistoryInit == Init => HistoryInv
<1> SUFFICES ASSUME Init PROVE HistoryInv
  OBVIOUS
<1>1. Shape /\ NothingYet /\ InStep
  BY DEF Init, EmptyStore, Shape, NothingYet, InStep, Bare, Ending, Uncommitted, Points
<1>2. TotalSteps(db) = 0 /\ TotalResets(db) = 0
  <2>1. Steps(db) = {} /\ Resets(db) = {}
    BY DEF Init, EmptyStore, Steps, Resets
  <2> QED BY <2>1, FS_EmptySet DEF TotalSteps, TotalResets
<1>3. Charged
  BY <1>2, BudgetPositive DEF Charged, Init, Bare
<1> QED BY <1>1, <1>3 DEF HistoryInv

(* The operations of the clock, the loop and the clients change nothing here. *)
Still ==
  /\ UNCHANGED <<at, db, env, resetActions, created>>
  /\ terminal # "none" => terminal' # "none"

(* A step of a process that executes nothing and commits no entry. *)
Quiet ==
  /\ UNCHANGED <<env, resetActions, created>>
  /\ "log" \in DOMAIN db' /\ db'.log = db.log
  /\ at \notin Bare /\ at' \in Points \ (Bare \cup {"record"})
  /\ at' \in Uncommitted => at \in Uncommitted
  /\ at' \in Allowed => Limit = "none"
  /\ \/ at' \in Uncommitted
     \/ env = db.log
     \/ at' \in Ending /\ terminal' # "none"

LEMMA SameLogSameCounts ==
  ASSUME db'.log = db.log
  PROVE  TotalSteps(db)' = TotalSteps(db) /\ TotalResets(db)' = TotalResets(db)
BY DEF TotalSteps, TotalResets, Steps, Resets

LEMMA StillKeeps == HistoryInv /\ Still => HistoryInv'
<1> SUFFICES ASSUME HistoryInv, Still PROVE HistoryInv'
  OBVIOUS
<1>1. TotalSteps(db)' = TotalSteps(db) /\ TotalResets(db)' = TotalResets(db)
  BY SameLogSameCounts DEF Still
<1>2. Charged'
  BY <1>1 DEF Still, HistoryInv, Charged, Charge
<1>3. Shape' /\ NothingYet' /\ InStep'
  BY DEF Still, HistoryInv, Shape, NothingYet, InStep
<1> QED BY <1>2, <1>3 DEF HistoryInv

(* What the check of the limit has established. *)
LEMMA LimitLeavesRoom ==
  ASSUME HistoryInv, Limit = "none"
  PROVE  terminal = "none" /\ TotalSteps(db) + resetActions < MaxActions
<1>1. TotalSteps(db) \in Nat /\ resetActions \in Nat /\ MaxActions \in Nat
  BY Counts, BudgetPositive DEF HistoryInv, Shape
<1> QED BY <1>1 DEF Limit

LEMMA QuietKeeps == HistoryInv /\ Quiet => HistoryInv'
<1> SUFFICES ASSUME HistoryInv, Quiet PROVE HistoryInv'
  OBVIOUS
<1>0. /\ TotalSteps(db) \in Nat /\ TotalResets(db) \in Nat
      /\ resetActions \in Nat /\ MaxActions \in Nat
  BY Counts, BudgetPositive DEF HistoryInv, Shape
<1>1. TotalSteps(db)' = TotalSteps(db) /\ TotalResets(db)' = TotalResets(db)
  BY SameLogSameCounts DEF Quiet
<1>2. Shape'
  BY DEF Quiet, HistoryInv, Shape
<1>3. NothingYet'
  BY DEF Quiet, HistoryInv, NothingYet, Bare
<1>4. InStep'
  BY DEF Quiet, HistoryInv, InStep, Bare, Ending, Uncommitted
<1>5. Charged'
  <2>1. at \notin Bare /\ at' \notin Bare
    BY DEF Quiet
  <2>2. TotalResets(db) + Charge(Uncommitted)' <= resetActions
    BY <1>0, <2>1 DEF Quiet, HistoryInv, Charged, Charge
  <2>3. (TotalSteps(db) + resetActions) + Charge(Allowed)' <= MaxActions
    <3>1. CASE at' \in Allowed
      BY <1>0, <3>1, LimitLeavesRoom DEF Quiet, Charge
    <3>2. CASE at' \notin Allowed
      BY <1>0, <2>1, <3>2 DEF HistoryInv, Charged, Charge
    <3> QED BY <3>1, <3>2
  <2> QED BY <1>1, <2>1, <2>2, <2>3 DEF Quiet, Charged
<1> QED BY <1>2, <1>3, <1>4, <1>5 DEF HistoryInv

-----------------------------------------------------------------------------
(* The steps of each part of the coordinator that are quiet. *)

LEMMA QuietStarting ==
  ASSUME HistoryInv, AfterRestore \/ Construct
  PROVE  Quiet
<1> USE LogKept DEF Quiet, HistoryInv, Shape, InStep, Bare, Ending, Uncommitted, Allowed, Points
<1> USE DEF disk, files, position, model, control, signals, outside, ghosts
<1>1. CASE AfterRestore
  BY <1>1 DEF AfterRestore
<1>2. CASE Construct
  BY <1>2 DEF Construct
<1> QED BY <1>1, <1>2

LEMMA QuietCollecting ==
  ASSUME HistoryInv, Collecting
  PROVE  Quiet
<1> USE LogKept DEF Quiet, HistoryInv, Shape, InStep, Bare, Ending, Uncommitted, Allowed, Points
<1> USE DEF disk, files, position, model, control, signals, outside, ghosts
<1>1. CASE CollectAct
  BY <1>1 DEF CollectAct
<1>2. CASE CollectStop
  BY <1>2 DEF CollectStop, Limit
<1>3. CASE CollectFinish
  BY <1>3 DEF CollectFinish
<1>4. CASE CollectSave
  BY <1>4 DEF CollectSave
<1>5. CASE CollectedOne
  BY <1>5 DEF CollectedOne
<1> QED BY <1>1, <1>2, <1>3, <1>4, <1>5 DEF Collecting

LEMMA QuietResetting ==
  ASSUME HistoryInv, ResetFinish \/ ResetStoreFaults
  PROVE  Quiet
<1> USE LogKept DEF Quiet, HistoryInv, Shape, InStep, Bare, Ending, Uncommitted, Allowed, Points
<1> USE DEF disk, files, position, model, control, signals, outside, ghosts
<1>1. CASE ResetFinish
  BY <1>1 DEF ResetFinish
<1>2. CASE ResetStoreFaults
  BY <1>2 DEF ResetStoreFaults, Fault
<1> QED BY <1>1, <1>2

LEMMA QuietModelling ==
  ASSUME HistoryInv, Reject \/ Accept \/ Adopt \/ CommandFails
           \/ FailRecord \/ PlanCompletes \/ PlanStartUnexplained
  PROVE  Quiet
<1> USE LogKept DEF Quiet, HistoryInv, Shape, InStep, Bare, Ending, Uncommitted, Allowed, Points
<1> USE DEF disk, files, position, model, control, signals, outside, ghosts
<1>1. CASE Reject
  BY <1>1 DEF Reject
<1>2. CASE Accept
  BY <1>2 DEF Accept
<1>3. CASE Adopt
  BY <1>3 DEF Adopt, ChangePhase
<1>4. CASE CommandFails
  BY <1>4 DEF CommandFails
<1>5. CASE FailRecord
  BY <1>5 DEF FailRecord
<1>6. CASE PlanCompletes
  BY <1>6 DEF PlanCompletes
<1>7. CASE PlanStartUnexplained
  BY <1>7 DEF PlanStartUnexplained, ChangePhase
<1> QED BY <1>1, <1>2, <1>3, <1>4, <1>5, <1>6, <1>7

LEMMA QuietExploring ==
  ASSUME HistoryInv, Begin \/ StopExploring \/ ControllerFails \/ RunFaults \/ ModelFails
           \/ ChooseAction \/ ActInvalid \/ RecordFaults \/ Judge
           \/ Score \/ Complete \/ FinalRecord
  PROVE  Quiet
<1> USE LogKept DEF Quiet, HistoryInv, Shape, InStep, Bare, Ending, Uncommitted, Allowed, Points
<1> USE DEF disk, files, position, model, control, signals, outside, ghosts
<1>1. CASE Begin
  BY <1>1 DEF Begin
<1>2. CASE StopExploring
  BY <1>2 DEF StopExploring, Limit
<1>3. CASE ControllerFails
  BY <1>3 DEF ControllerFails, Limit
<1>4. CASE RunFaults
  BY <1>4 DEF RunFaults, Fault
<1>5. CASE ModelFails
  BY <1>5 DEF ModelFails, ChangePhase
<1>6. CASE ChooseAction
  BY <1>6 DEF ChooseAction
<1>7. CASE ActInvalid
  BY <1>7 DEF ActInvalid
<1>8. CASE RecordFaults
  BY <1>8 DEF RecordFaults, Fault, AfterFailedStep
<1>9. CASE Judge
  BY <1>9 DEF Judge, ChangePhase
<1>10. CASE Score
  BY <1>10 DEF Score, Limit
<1>11. CASE Complete
  BY <1>11 DEF Complete
<1>12. CASE FinalRecord
  BY <1>12 DEF FinalRecord
<1> QED BY <1>1, <1>2, <1>3, <1>4, <1>5, <1>6, <1>7, <1>8, <1>9, <1>10, <1>11, <1>12

LEMMA QuietEnding ==
  ASSUME HistoryInv, Answering \/ Closing
  PROVE  Quiet
<1> USE LogKept DEF Quiet, HistoryInv, Shape, InStep, Bare, Ending, Uncommitted, Allowed, Points
<1> USE DEF disk, files, position, model, control, signals, outside, ghosts
<1>1. CASE ReadLimit
  BY <1>1 DEF ReadLimit, Limit
<1>2. CASE Remember
  BY <1>2 DEF Remember
<1>3. CASE Answer
  BY <1>3 DEF Answer
<1>4. CASE CloseEpisode
  BY <1>4 DEF CloseEpisode
<1>5. CASE Close
  BY <1>5 DEF Close
<1>6. CASE AnswerFaults
  BY <1>6 DEF AnswerFaults, Fault
<1> QED BY <1>1, <1>2, <1>3, <1>4, <1>5, <1>6 DEF Answering, Closing

LEMMA QuietEntering ==
  ASSUME HistoryInv, NEW r \in Requests, EnterRefused(r) \/ EnterBadFiles(r) \/ EnterBranch(r)
  PROVE  Quiet
<1> USE LogKept DEF Quiet, HistoryInv, Shape, InStep, Bare, Ending, Uncommitted, Allowed, Points
<1> USE DEF Enter, disk, files, position, model, control, signals, outside, ghosts
<1>1. CASE EnterRefused(r)
  BY <1>1, LimitLeavesRoom DEF EnterRefused
<1>2. CASE EnterBadFiles(r)
  BY <1>2, LimitLeavesRoom DEF EnterBadFiles
<1>3. CASE EnterBranch(r)
  <2>1. at' \in {"begin", "validate", "plan", "reset"}
    BY <1>3, RequestShape DEF EnterBranch, FirstStepOf, CommandNames
  <2>2. env = db.log
    BY <1>3, LimitLeavesRoom DEF EnterBranch
  <2>3. "log" \in DOMAIN db' /\ db'.log = db.log
    BY <1>3 DEF EnterBranch
  <2> QED BY <1>3, <2>1, <2>2, <2>3 DEF EnterBranch
<1> QED BY <1>1, <1>2, <1>3

-----------------------------------------------------------------------------
(* The steps that execute an operation, commit one, or start or end a process. *)

LEMMA BootKeeps ==
  ASSUME HistoryInv, Boot \/ RestoreFails \/ Die
  PROVE  HistoryInv'
<1>0. /\ TotalSteps(db) \in Nat /\ TotalResets(db) \in Nat
      /\ resetActions \in Nat /\ MaxActions \in Nat
  BY Counts, BudgetPositive DEF HistoryInv, Shape
<1>1. UNCHANGED db
  BY DEF Boot, RestoreFails, Die, disk
<1>2. TotalSteps(db)' = TotalSteps(db) /\ TotalResets(db)' = TotalResets(db)
  BY <1>1, SameLogSameCounts
<1>3. TotalSteps(db) + TotalResets(db) <= MaxActions
  <2>1. CASE at \in Bare
    BY <2>1 DEF HistoryInv, Charged
  <2>2. CASE at \notin Bare
    BY <1>0, <2>2 DEF HistoryInv, Charged, Charge
  <2> QED BY <2>1, <2>2
<1>4. env' = <<>> /\ resetActions' = 0 /\ at' \in Bare
  BY DEF Boot, RestoreFails, Die, FreshMemory, HistoryInv, NothingYet, Bare, disk, position
<1>5. Shape'
  BY <1>1, <1>4 DEF HistoryInv, Shape, Bare, Points
<1>6. NothingYet'
  BY <1>1, <1>4 DEF HistoryInv, NothingYet, Bare, Boot, RestoreFails, Die, disk, files
<1>7. InStep'
  BY <1>4 DEF InStep, Bare, Ending, Uncommitted
<1>8. Charged'
  BY <1>2, <1>3, <1>4 DEF Charged
<1> QED BY <1>5, <1>6, <1>7, <1>8 DEF HistoryInv

LEMMA FirstResetKeeps == HistoryInv /\ FirstReset => HistoryInv'
<1> SUFFICES ASSUME HistoryInv, FirstReset PROVE HistoryInv'
  OBVIOUS
<1> DEFINE start == [op |-> "start", obs |-> "play"]
<1>0. start \in Entries
  BY DEF Entries, Operations, Observations
<1>1. /\ "log" \in DOMAIN db' /\ db'.log = Append(db.log, start) /\ db.log = <<>>
      /\ env' = <<start>> /\ at' = "construct" /\ resetActions' = 0 /\ created'
  BY LogGrows DEF FirstReset, HistoryInv, Shape, NothingYet, Bare, files
<1>2. TotalSteps(db)' = 0 /\ TotalResets(db)' = 0
  <2>1. Steps(db)' = {} /\ Resets(db)' = {}
    BY <1>1 DEF Steps, Resets
  <2> QED BY <2>1, FS_EmptySet DEF TotalSteps, TotalResets
<1>3. Shape'
  BY <1>0, <1>1 DEF Shape, Points, HistoryInv
<1>4. NothingYet' /\ InStep'
  BY <1>1 DEF NothingYet, InStep, Bare, Ending, Uncommitted
<1>5. Charged'
  BY <1>1, <1>2, BudgetPositive DEF Charged, Charge, Bare, Uncommitted, Allowed
<1> QED BY <1>3, <1>4, <1>5 DEF HistoryInv

LEMMA RestoreKeeps == HistoryInv /\ Restore => HistoryInv'
<1> SUFFICES ASSUME HistoryInv, Restore PROVE HistoryInv'
  OBVIOUS
<1>1. /\ "log" \in DOMAIN db' /\ db'.log = db.log /\ db.log # <<>> /\ at = "restore"
      /\ env' = db.log /\ at' = "after_restore" /\ resetActions' = TotalResets(db)
      /\ created' = created
  BY LogKept DEF Restore, HistoryInv, Shape, files
<1>2. /\ TotalSteps(db) \in Nat /\ TotalResets(db) \in Nat /\ MaxActions \in Nat
  BY Counts, BudgetPositive DEF HistoryInv, Shape
<1>3. TotalSteps(db)' = TotalSteps(db) /\ TotalResets(db)' = TotalResets(db)
  BY <1>1, SameLogSameCounts
<1>4. Shape' /\ NothingYet' /\ InStep'
  BY <1>1, <1>2 DEF HistoryInv, Shape, NothingYet, InStep, Bare, Ending, Uncommitted, Points
<1>5. Charged'
  BY <1>1, <1>2, <1>3 DEF HistoryInv, Charged, Charge, Bare, Uncommitted, Allowed
<1> QED BY <1>4, <1>5 DEF HistoryInv

(* An operation runs on the environment, and is not committed yet. *)
LEMMA ExecuteKeeps ==
  ASSUME HistoryInv, Reset \/ ResetFaults \/ Act \/ ActFaults \/ CommandFaults
  PROVE  HistoryInv'
<1>0. /\ TotalSteps(db) \in Nat /\ TotalResets(db) \in Nat
      /\ resetActions \in Nat /\ MaxActions \in Nat
  BY Counts, BudgetPositive DEF HistoryInv, Shape
<1>1. /\ UNCHANGED <<db, created>> /\ at \notin Bare \cup Uncommitted
      /\ at' \in {"reset_finish", "record"} \cup Ending
  BY DEF Reset, ResetFaults, Act, ActFaults, CommandFaults, AfterFailedStep, disk, files,
         Bare, Uncommitted, Ending
<1>2. TotalSteps(db)' = TotalSteps(db) /\ TotalResets(db)' = TotalResets(db)
  BY <1>1, SameLogSameCounts
<1>3. \/ env' = env
      \/ \E obs \in Observations : env' = Append(env, [op |-> "step", obs |-> obs])
      \/ env' = Append(env, [op |-> "reset", obs |-> "play"])
      \/ env' = Append(env, [op |-> "start", obs |-> "play"])
  BY DEF Reset, ResetFaults, Act, ActFaults, CommandFaults
<1>4. env' \in Seq(Entries) /\ env' # <<>>
  <2>1. env \in Seq(Entries) /\ env # <<>>
    BY <1>1 DEF HistoryInv, Shape, NothingYet
  <2>2. \A op \in Operations, obs \in Observations : [op |-> op, obs |-> obs] \in Entries
    BY DEF Entries
  <2>3. \A e \in Entries : Append(env, e) \in Seq(Entries) /\ Append(env, e) # <<>>
    BY <2>1
  <2> QED BY <1>3, <2>1, <2>2, <2>3 DEF Operations, Observations
<1>5. Shape'
  BY <1>0, <1>1, <1>4 DEF HistoryInv, Shape, Points, Ending, Reset, ResetFaults, Act, ActFaults,
                         CommandFaults, position
<1>6. NothingYet'
  BY <1>1, <1>4 DEF HistoryInv, NothingYet, Bare, Ending
<1>7. InStep'
  <2>1. at \in {"act", "reset", "fresh", "plan", "validate"} /\ env = db.log
    BY DEF HistoryInv, InStep, Bare, Ending, Uncommitted, Reset, ResetFaults, Act, ActFaults,
           CommandFaults
  <2>2. CASE Reset
    BY <1>1, <2>1, <2>2 DEF Reset, InStep, Bare, Ending, Uncommitted
  <2>3. CASE Act
    BY <1>1, <2>1, <2>3 DEF Act, InStep, Bare, Ending, Uncommitted
  <2>4. CASE ResetFaults \/ ActFaults \/ CommandFaults
    BY <1>1, <2>4 DEF ResetFaults, ActFaults, CommandFaults, Fault, AfterFailedStep, InStep, Bare,
                     Ending, Uncommitted
  <2> QED BY <2>2, <2>3, <2>4
<1>8. Charged'
  <2>1. /\ TotalResets(db) + 0 <= resetActions
        /\ (TotalSteps(db) + resetActions) + Charge(Allowed) <= MaxActions
    BY <1>1 DEF HistoryInv, Charged, Charge
  <2>2. CASE Reset
    BY <1>0, <1>2, <2>1, <2>2 DEF Reset, Charged, Charge, Bare, Allowed, Uncommitted
  <2>3. CASE ~ Reset
    <3>1. resetActions' = resetActions /\ at' \notin Bare \cup Uncommitted
      BY <2>3 DEF ResetFaults, Act, ActFaults, CommandFaults, AfterFailedStep, position, Bare,
                  Uncommitted
    <3>2. at' \in Allowed => at \in Allowed
      BY <2>3 DEF ResetFaults, Act, ActFaults, CommandFaults, AfterFailedStep, Allowed
    <3> QED BY <1>0, <1>2, <2>1, <3>1, <3>2 DEF Charged, Charge
  <2> QED BY <2>2, <2>3
<1> QED BY <1>5, <1>6, <1>7, <1>8 DEF HistoryInv

(* A commit of what has been executed: a step, a reset, a fresh start. *)
LEMMA CommitKeeps ==
  ASSUME HistoryInv, Record \/ ResetStart \/ Fresh
  PROVE  HistoryInv' /\ env' = db'.log
<1>0. /\ TotalSteps(db) \in Nat /\ TotalResets(db) \in Nat
      /\ resetActions \in Nat /\ MaxActions \in Nat
  BY Counts, BudgetPositive DEF HistoryInv, Shape
<1>1. /\ at \notin Bare /\ at' \notin Bare \cup Uncommitted \cup Allowed /\ at' \in Points
      /\ UNCHANGED <<resetActions, created>>
  BY DEF Record, ResetStart, Fresh, AfterFailedStep, Bare, Uncommitted, Allowed, Points, files,
         position
<1>2. /\ TotalResets(db) + Charge(Uncommitted) <= resetActions
      /\ (TotalSteps(db) + resetActions) + Charge(Allowed) <= MaxActions
  BY <1>1 DEF HistoryInv, Charged
<1>3. PICK e \in Entries :
        /\ "log" \in DOMAIN db' /\ db'.log = Append(db.log, e) /\ env' = Append(db.log, e)
        /\ \/ e.op = "step" /\ at \in Allowed
           \/ e.op = "reset" /\ at \in Uncommitted
           \/ e.op = "start"
  <2>1. CASE Record
    <3>1. PICK obs \in Observations : env = Append(db.log, [op |-> "step", obs |-> obs])
      BY <2>1 DEF Record, HistoryInv, InStep
    <3>2. env[Len(env)] = [op |-> "step", obs |-> obs]
      BY <3>1 DEF HistoryInv, Shape
    <3>3. db' = RecordStep(db, obs) /\ env' = env /\ at = "record"
      BY <2>1, <3>2 DEF Record, position
    <3>4. [op |-> "step", obs |-> obs] \in Entries /\ [op |-> "step", obs |-> obs].op = "step"
      BY DEF Entries, Operations
    <3>5. "log" \in DOMAIN db' /\ db'.log = Append(db.log, [op |-> "step", obs |-> obs])
      BY <3>3, LogGrows DEF HistoryInv, Shape
    <3> QED BY <3>1, <3>3, <3>4, <3>5 DEF Allowed
  <2>2. CASE ResetStart
    <3> DEFINE reset == [op |-> "reset", obs |-> "play"]
    <3>1. reset \in Entries /\ reset.op = "reset"
      BY DEF Entries, Operations, Observations
    <3>2. /\ "log" \in DOMAIN db' /\ db'.log = Append(db.log, reset)
          /\ at \in Uncommitted /\ env' = env /\ env = Append(db.log, reset)
      BY <2>2, LogGrows DEF ResetStart, HistoryInv, Shape, InStep, Uncommitted
    <3> HIDE DEF reset
    <3> QED BY <3>1, <3>2
  <2>3. CASE Fresh
    <3>1. env = db.log
      BY <2>3 DEF Fresh, HistoryInv, InStep, Bare, Ending, Uncommitted
    <3> DEFINE start == [op |-> "start", obs |-> "play"]
    <3>2. start \in Entries /\ start.op = "start"
      BY DEF Entries, Operations, Observations
    <3>3. /\ "log" \in DOMAIN db' /\ db'.log = Append(db.log, start)
          /\ env' = Append(db.log, start)
      BY <2>3, <3>1, LogGrows DEF Fresh, HistoryInv, Shape
    <3> HIDE DEF start
    <3> QED BY <3>2, <3>3
  <2> QED BY <2>1, <2>2, <2>3
<1>4. /\ db'.log \in Seq(Entries) /\ db'.log # <<>>
      /\ TotalSteps(db)' = TotalSteps(db) + Added(e, {"step"})
      /\ TotalResets(db)' = TotalResets(db) + Added(e, {"reset"})
  <2>1. db.log \in Seq(Entries)
    BY DEF HistoryInv, Shape
  <2>2. /\ TotalSteps(db') = TotalSteps(db) + Added(e, {"step"})
        /\ TotalResets(db') = TotalResets(db) + Added(e, {"reset"})
    BY <1>3, <2>1, CountsAppend
  <2>3. TotalSteps(db)' = TotalSteps(db') /\ TotalResets(db)' = TotalResets(db')
    BY DEF TotalSteps, TotalResets, Steps, Resets
  <2>4. db'.log \in Seq(Entries) /\ db'.log # <<>>
    BY <1>3, <2>1
  <2> QED BY <2>2, <2>3, <2>4
<1>5. Shape' /\ NothingYet' /\ InStep'
  <2>1. env' = db'.log
    BY <1>3
  <2>2. at' # "record"
    BY <1>1 DEF Allowed
  <2> QED BY <1>0, <1>1, <1>3, <1>4, <2>1, <2>2
          DEF HistoryInv, Shape, NothingYet, InStep, Bare, Uncommitted
<1>6. Charged'
  BY <1>0, <1>1, <1>2, <1>3, <1>4 DEF Charged, Charge, Added, Allowed, Uncommitted
<1> QED BY <1>3, <1>5, <1>6 DEF HistoryInv

-----------------------------------------------------------------------------
(* Every step is one of five kinds. *)
Kinds ==
  \/ Quiet \/ Still
  \/ Boot \/ RestoreFails \/ Die
  \/ FirstReset \/ Restore
  \/ Reset \/ ResetFaults \/ Act \/ ActFaults \/ CommandFaults
  \/ Record \/ ResetStart \/ Fresh

LEMMA StillSteps ==
  ASSUME Outside \/ (\E r \in Requests : Send(r) \/ AnswerAtOnce(r)) \/ UNCHANGED vars
  PROVE  Still
<1> USE DEF Still, vars, disk, files, position, control, signals
<1>1. CASE DeadlinePasses \/ PauseClock \/ LoopStops \/ Shutdown
  BY <1>1 DEF DeadlinePasses, PauseClock, LoopStops, Shutdown
<1>2. ASSUME NEW r \in Requests, Send(r) \/ AnswerAtOnce(r) PROVE Still
  BY <1>2 DEF Send, AnswerAtOnce
<1>3. CASE UNCHANGED vars
  BY <1>3
<1> QED BY <1>1, <1>2, <1>3 DEF Outside

LEMMA StepKinds == HistoryInv /\ [Next]_vars => Kinds
<1> SUFFICES ASSUME HistoryInv, [Next]_vars PROVE Kinds
  OBVIOUS
<1>1. CASE Starting
  BY <1>1, QuietStarting, Zenon DEF Starting, Kinds
<1>2. CASE Collecting
  BY <1>2, QuietCollecting, Zenon DEF Kinds
<1>3. CASE Entering
  BY <1>3, QuietEntering, Zenon DEF Entering, Kinds
<1>4. CASE Resetting
  BY <1>4, QuietResetting, Zenon DEF Resetting, Kinds
<1>5. CASE Modelling
  BY <1>5, QuietModelling, Zenon DEF Modelling, Kinds
<1>6. CASE Exploring
  BY <1>6, QuietExploring, Zenon DEF Exploring, Kinds
<1>7. CASE Answering \/ Closing
  BY <1>7, QuietEnding, Zenon DEF Kinds
<1>8. CASE Outside \/ (\E r \in Requests : Send(r) \/ AnswerAtOnce(r)) \/ UNCHANGED vars
  BY <1>8, StillSteps, Zenon DEF Kinds
<1>9. CASE Die
  BY <1>9, Zenon DEF Kinds
<1> QED BY <1>1, <1>2, <1>3, <1>4, <1>5, <1>6, <1>7, <1>8, <1>9, Zenon DEF Next

LEMMA HistoryStep == HistoryInv /\ [Next]_vars => HistoryInv'
BY StepKinds, QuietKeeps, StillKeeps, BootKeeps, FirstResetKeeps, RestoreKeeps, ExecuteKeeps,
   CommitKeeps, Zenon DEF Kinds

(* Where the environment, its log and the count of what was spent stand,
   whatever dies and fails.                                                 *)
THEOREM HistoryHolds == Spec => []HistoryInv
BY HistoryInit, HistoryStep, PTL DEF Spec

(* The recorded steps and resets never exceed the task's budget. *)
THEOREM BudgetHolds == Spec => []RecordedWithinBudget
<1>1. HistoryInv => RecordedWithinBudget
  <2> SUFFICES ASSUME HistoryInv PROVE RecordedWithinBudget
    OBVIOUS
  <2>1. /\ TotalSteps(db) \in Nat /\ TotalResets(db) \in Nat
        /\ resetActions \in Nat /\ MaxActions \in Nat
    BY Counts, BudgetPositive DEF HistoryInv, Shape
  <2> QED BY <2>1 DEF HistoryInv, Charged, Charge, RecordedWithinBudget
<1> QED BY <1>1, HistoryHolds, PTL

-----------------------------------------------------------------------------
(* The coordinator implements TaskHistory. *)

(* The environment TaskHistory sees. *)
Seen == IF env = <<>> THEN db.log ELSE env

LEMMA InitRefines == Init => History!Init
BY DEF Init, EmptyStore, History!Init

LEMMA StepRefines ==
  HistoryInv /\ HistoryInv' /\ Kinds => [History!Next]_<<db.log, Seen>>
<1> SUFFICES ASSUME HistoryInv, HistoryInv', Kinds PROVE [History!Next]_<<db.log, Seen>>
  OBVIOUS
<1>1. CASE Quiet \/ Still
  BY <1>1 DEF Quiet, Still, Seen
<1>2. CASE Boot \/ RestoreFails \/ Restore
  <2>1. env = <<>>
    BY <1>2 DEF Boot, RestoreFails, Restore, HistoryInv, NothingYet, Bare
  <2>2. db'.log = db.log /\ env' \in {<<>>, db.log}
    BY <1>2, <2>1, LogKept
       DEF Boot, RestoreFails, Restore, HistoryInv, Shape, disk, position
  <2> QED BY <2>1, <2>2 DEF Seen
<1>3. CASE Die
  <2>1. db' = db /\ env' = <<>>
    BY <1>3 DEF Die, FreshMemory, disk
  <2>2. CASE Seen = db.log
    BY <2>1, <2>2 DEF Seen
  <2>3. CASE Seen # db.log
    <3>1. History!Rebuild
      BY <2>1, <2>3 DEF History!Rebuild, Seen
    <3> QED BY <3>1 DEF History!Next
  <2> QED BY <2>2, <2>3
<1>4. CASE FirstReset \/ Fresh
  <2> DEFINE start == [op |-> "start", obs |-> "play"]
  <2>1. start \in Entries /\ start.op = "start"
    BY DEF Entries, Operations, Observations
  <2>2. Seen = db.log /\ db'.log = Append(db.log, start) /\ Seen' = Append(db.log, start)
    <3>1. CASE FirstReset
      <4>1. env = <<>> /\ db.log = <<>>
        BY <3>1 DEF FirstReset, HistoryInv, NothingYet, Bare
      <4>2. db'.log = Append(db.log, start) /\ env' = <<start>>
        BY <3>1, LogGrows DEF FirstReset, HistoryInv, Shape
      <4> QED BY <4>1, <4>2 DEF Seen
    <3>2. CASE Fresh
      <4>1. env = db.log /\ env # <<>> /\ db.log \in Seq(Entries)
        BY <3>2 DEF Fresh, HistoryInv, Shape, NothingYet, InStep, Bare, Ending, Uncommitted
      <4>2. db'.log = Append(db.log, start) /\ env' = Append(env, start)
        BY <3>2, LogGrows DEF Fresh, HistoryInv, Shape
      <4> HIDE DEF start
      <4> QED BY <2>1, <4>1, <4>2 DEF Seen
    <3> QED BY <1>4, <3>1, <3>2
  <2> HIDE DEF start
  <2>3. History!StartRecorded
    BY <2>1, <2>2 DEF History!StartRecorded, Seen
  <2> QED BY <2>3 DEF History!Next
<1>5. CASE Record \/ ResetStart
  <2>1. env' = env /\ env # <<>> /\ env # db.log /\ db'.log = env
    <3>1. env' = env /\ env # <<>> /\ db'.log = env'
      BY <1>5, CommitKeeps DEF Record, ResetStart, position, HistoryInv, NothingYet, Bare
    <3>2. \E e \in Entries : env = Append(db.log, e)
      BY <1>5 DEF Record, ResetStart, HistoryInv, InStep, Uncommitted, Entries, Operations,
                  Observations
    <3>3. \A e \in Entries : Append(db.log, e) # db.log
      BY DEF HistoryInv, Shape
    <3> QED BY <3>1, <3>2, <3>3
  <2>2. History!Commit
    BY <2>1 DEF History!Commit, Seen
  <2> QED BY <2>2 DEF History!Next
<1>6. CASE Reset \/ ResetFaults \/ Act \/ ActFaults \/ CommandFaults
  <2>1. /\ at \in {"act", "reset", "fresh", "plan", "validate"} /\ env = db.log /\ env # <<>>
        /\ at \notin Bare \cup Uncommitted /\ db' = db
    BY <1>6 DEF HistoryInv, NothingYet, InStep, Bare, Ending, Uncommitted, Reset, ResetFaults, Act,
                ActFaults, CommandFaults, disk
  <2>2. \/ env' = env
        \/ \E e \in Entries : /\ env' = Append(env, e)
                              /\ e.op = "start" \/ at \in Allowed
    <3>1. \A op \in Operations, obs \in Observations :
            [op |-> op, obs |-> obs] \in Entries /\ [op |-> op, obs |-> obs].op = op
      BY DEF Entries
    <3>2. \/ env' = env
          \/ \E op \in Operations, obs \in Observations :
               env' = Append(env, [op |-> op, obs |-> obs]) /\ (op = "start" \/ at \in Allowed)
      BY <1>6 DEF Reset, ResetFaults, Act, ActFaults, CommandFaults, Operations, Observations,
                  Allowed
    <3> QED BY <3>1, <3>2
  <2>3. CASE env' = env
    BY <2>1, <2>3 DEF Seen
  <2>4. ASSUME NEW e \in Entries, env' = Append(env, e), e.op = "start" \/ at \in Allowed
        PROVE  History!Execute
    <3> DEFINE c == [log |-> env']
    <3>1. /\ TotalSteps(db) \in Nat /\ TotalResets(db) \in Nat
          /\ resetActions \in Nat /\ MaxActions \in Nat /\ db.log \in Seq(Entries)
      BY Counts, BudgetPositive DEF HistoryInv, Shape
    <3>2. c.log = Append(db.log, e)
      BY <2>1, <2>4
    <3> HIDE DEF c
    <3>3. /\ c.log \in Seq(Entries)
          /\ TotalSteps(c) = TotalSteps(db) + Added(e, {"step"})
          /\ TotalResets(c) = TotalResets(db) + Added(e, {"reset"})
      BY <3>1, <3>2, CountsAppend
    <3>4. History!Spent(c.log) = TotalSteps(c) + TotalResets(c)
      BY <3>3, Counts
    <3>5. TotalResets(db) + TotalSteps(db) + Charge(Allowed) <= MaxActions
      BY <2>1, <3>1 DEF HistoryInv, Charged, Charge
    <3>6. History!Spent(c.log) <= MaxActions
      BY <2>4, <3>1, <3>3, <3>4, <3>5 DEF Added, Charge
    <3>7. Seen = db.log /\ Seen' = Append(Seen, e) /\ c.log = Seen'
      BY <2>1, <2>4, <3>1, <3>2 DEF Seen
    <3> QED BY <2>1, <3>6, <3>7 DEF History!Execute, Seen
  <2>5. CASE \E e \in Entries : env' = Append(env, e) /\ (e.op = "start" \/ at \in Allowed)
    BY <2>4, <2>5, Zenon DEF History!Next
  <2> QED BY <2>2, <2>3, <2>5
<1> QED BY <1>1, <1>2, <1>3, <1>4, <1>5, <1>6, Zenon DEF Kinds

(* Whatever processes die and resume, the history behaves as TaskHistory
   says: it only grows at its end, what ran unrecorded is never built upon,
   and the budget bounds what runs.                                         *)
THEOREM HistoryRefined == Spec => HistorySpec
<1>1. HistoryInv /\ HistoryInv' /\ [Next]_vars => [History!Next]_<<db.log, Seen>>
  BY StepKinds, StepRefines, Zenon
<1> QED BY <1>1, HistoryHolds, InitRefines, PTL DEF Spec, HistorySpec, History!Spec, Seen
=============================================================================
