---------------------- MODULE Coordinator_restore_proofs ----------------------
(* What a resume recomputes is what the coordinator held between two commands,
   and what rests on it: nothing left in flight, no action under a refuted
   CWM, an initial collection that goes on, and the types.  For any budget
   and any requests, both lifecycles and protocols, and any number of deaths
   and faults.                                                              *)
EXTENDS Coordinator_proofs, Coordinator_stop_proofs

(* The points before the phase and the accepted version are read back. *)
Unread == Bare \cup {"after_restore"}

(* The points at which a command has a record that runs. *)
Recording == {"validate", "plan", "failing", "begin", "fresh", "loop", "judge", "score", "complete"}
InRun == at \in Recording \/ (at \in Operating /\ holder # Collector)
Finished == {"completed", "failed", "rejected", "interrupted"}

Accepted(d) == {i \in DOMAIN d.records : d.records[i].status = "accepted"}
HasLast(d) == Accepted(d) # {} => \E i \in Accepted(d) : \A j \in Accepted(d) : j <= i
RecordsTyped(d) == "records" \in DOMAIN d /\ d.records \in Seq(Records) /\ HasLast(d)

(* At most one record runs, the last, and while its command does; no other
   command rewrites one that was accepted.                                  *)
RecordInv ==
  /\ RecordsTyped(db) /\ active \in Nat /\ accepted \in Nat
  /\ at \in Bare => active = 0
  /\ active # 0 => active = Len(db.records) /\ db.records[active].status = "running"
  /\ active # 0 <=> InRun
  /\ at \notin Bare => \A i \in DOMAIN db.records : db.records[i].status = "running" => i = active
  /\ at = "final_record" =>
       active = 0 /\ db.records # <<>> /\ db.records[Len(db.records)].status # "accepted"

PhaseOf(d) == IF d.phase = "none" THEN InitialPhase ELSE d.phase

(* The phase is the one recorded last, the version the one accepted last; it
   is committed before the phase that needs it.                             *)
ModelInv ==
  /\ phase \in Phases /\ "phase" \in DOMAIN db /\ db.phase \in Phases \cup {"none"}
  /\ at \in Unread => phase = InitialPhase /\ accepted = 0
  /\ at = "first_reset" \/ ~ created => db = EmptyStore
  /\ at \notin Unread => phase = PhaseOf(db)
  /\ UsesModel =>
       /\ at \notin Unread => LastAccepted(db) = accepted + (IF at = "adopt" THEN 1 ELSE 0)
       /\ db.phase = Exploration => LastAccepted(db) # 0
       /\ phase = Exploration => accepted # 0

(* The live episode is the last one started, and unless the task is stopping
   every reset that was made is recorded.                                   *)
EpisodeInv ==
  /\ at = "fresh" => ~ SingleInstance
  /\ SingleInstance /\ at \notin Bare \cup {"close", "closed"} => episode = LastEpisode(db)
  /\ at \notin Bare /\ terminal = "none" =>
       resetActions = TotalResets(db) + Charge(Uncommitted)

(* Of a single instance no other episode is running, and none between the end
   of one and the start of the next, or once the task is closing.           *)
Halted == {"reset_start", "close", "closed"}

RunningInv ==
  /\ "running" \in DOMAIN db
  /\ SingleInstance => db.running \subseteq (IF db.log = <<>> THEN {} ELSE {LastEpisode(db)})
  /\ SingleInstance /\ at \in Halted => db.running = {}

ResumeInv == RecordInv /\ ModelInv /\ EpisodeInv /\ RunningInv
-----------------------------------------------------------------------------
(* What the operators of the store do to the records and the phase. *)

LEMMA RecordsSame ==
  ASSUME NEW d, "records" \in DOMAIN d, NEW x, NEW y
  PROVE  /\ "records" \in DOMAIN FinishEpisode(d, x) /\ FinishEpisode(d, x).records = d.records
         /\ "records" \in DOMAIN StartEpisode(d, x) /\ StartEpisode(d, x).records = d.records
         /\ "records" \in DOMAIN RecordStep(d, x) /\ RecordStep(d, x).records = d.records
         /\ "records" \in DOMAIN PhaseChanged(d, x) /\ PhaseChanged(d, x).records = d.records
         /\ "records" \in DOMAIN RememberRequest(d, x, y)
         /\ RememberRequest(d, x, y).records = d.records
BY DEF FinishEpisode, StartEpisode, RecordStep, PhaseChanged, RememberRequest

LEMMA RunningSame ==
  ASSUME NEW d, "running" \in DOMAIN d, NEW x, NEW y
  PROVE  /\ "running" \in DOMAIN RecordStep(d, x) /\ RecordStep(d, x).running = d.running
         /\ "running" \in DOMAIN PhaseChanged(d, x) /\ PhaseChanged(d, x).running = d.running
         /\ "running" \in DOMAIN AddRecord(d, x) /\ AddRecord(d, x).running = d.running
         /\ "running" \in DOMAIN UpdateRecord(d, x, y) /\ UpdateRecord(d, x, y).running = d.running
         /\ "running" \in DOMAIN AcceptRecord(d, x, y) /\ AcceptRecord(d, x, y).running = d.running
         /\ "running" \in DOMAIN RememberRequest(d, x, y)
         /\ RememberRequest(d, x, y).running = d.running
BY DEF RecordStep, PhaseChanged, AddRecord, UpdateRecord, AcceptRecord, RememberRequest

LEMMA RunningChanged ==
  ASSUME NEW d, "running" \in DOMAIN d, NEW x
  PROVE  /\ "running" \in DOMAIN FinishEpisode(d, x)
         /\ FinishEpisode(d, x).running = d.running \ {x}
         /\ "running" \in DOMAIN StartEpisode(d, x)
         /\ StartEpisode(d, x).running = d.running \cup {Len(d.log) + 1}
         /\ "running" \in DOMAIN Reopen(d, x)
         /\ Reopen(d, x).running = d.running \cup ({x} \ {0})
BY DEF FinishEpisode, StartEpisode, Reopen

LEMMA PhaseSame ==
  ASSUME NEW d, "phase" \in DOMAIN d, NEW x, NEW y
  PROVE  /\ "phase" \in DOMAIN FinishEpisode(d, x) /\ FinishEpisode(d, x).phase = d.phase
         /\ "phase" \in DOMAIN StartEpisode(d, x) /\ StartEpisode(d, x).phase = d.phase
         /\ "phase" \in DOMAIN RecordStep(d, x) /\ RecordStep(d, x).phase = d.phase
         /\ "phase" \in DOMAIN AddRecord(d, x) /\ AddRecord(d, x).phase = d.phase
         /\ "phase" \in DOMAIN UpdateRecord(d, x, y) /\ UpdateRecord(d, x, y).phase = d.phase
         /\ "phase" \in DOMAIN AcceptRecord(d, x, y) /\ AcceptRecord(d, x, y).phase = d.phase
         /\ "phase" \in DOMAIN RememberRequest(d, x, y)
         /\ RememberRequest(d, x, y).phase = d.phase
         /\ "phase" \in DOMAIN Reopen(d, x) /\ Reopen(d, x).phase = d.phase
         /\ "phase" \in DOMAIN PhaseChanged(d, x) /\ PhaseChanged(d, x).phase = x
BY DEF FinishEpisode, StartEpisode, RecordStep, AddRecord, UpdateRecord, AcceptRecord,
       RememberRequest, Reopen, PhaseChanged

(* The last accepted record depends on the accepted ones alone. *)
LEMMA SameAccepted ==
  ASSUME NEW d, NEW e, HasLast(d), Accepted(e) = Accepted(d),
         \A i \in Accepted(d) : e.records[i].version = d.records[i].version
  PROVE  HasLast(e) /\ LastAccepted(e) = LastAccepted(d)
<1>1. HasLast(e)
  BY DEF HasLast
<1> DEFINE last == CHOOSE i \in Accepted(d) : \A j \in Accepted(d) : j <= i
<1>2. Accepted(d) # {} => last \in Accepted(d)
  BY DEF HasLast
<1>3. LastAccepted(d) = IF Accepted(d) = {} THEN 0 ELSE d.records[last].version
  BY DEF LastAccepted, Accepted
<1>4. LastAccepted(e) = IF Accepted(d) = {} THEN 0 ELSE e.records[last].version
  <2>1. LastAccepted(e) =
          IF Accepted(e) = {} THEN 0
          ELSE e.records[CHOOSE i \in Accepted(e) : \A j \in Accepted(e) : j <= i].version
    BY DEF LastAccepted, Accepted
  <2> QED BY <2>1
<1> QED BY <1>1, <1>2, <1>3, <1>4

LEMMA SameRecords ==
  ASSUME NEW d, RecordsTyped(d), NEW e, "records" \in DOMAIN e, e.records = d.records
  PROVE  RecordsTyped(e) /\ LastAccepted(e) = LastAccepted(d)
BY DEF RecordsTyped, HasLast, Accepted, LastAccepted

LEMMA LastAcceptedNat == ASSUME NEW d, RecordsTyped(d) PROVE LastAccepted(d) \in Nat
<1> DEFINE last == CHOOSE i \in Accepted(d) : \A j \in Accepted(d) : j <= i
<1>1. Accepted(d) # {} => last \in DOMAIN d.records /\ d.records[last] \in Records
  BY DEF RecordsTyped, HasLast, Accepted
<1>2. LastAccepted(d) = IF Accepted(d) = {} THEN 0 ELSE d.records[last].version
  BY DEF LastAccepted, Accepted
<1> QED BY <1>1, <1>2 DEF Records

LEMMA UpdateKeeps ==
  ASSUME NEW d, RecordsTyped(d), NEW n \in DOMAIN d.records, d.records[n].status # "accepted",
         NEW status \in RecordStatuses \ {"accepted"}
  PROVE  LET e == UpdateRecord(d, n, status)
         IN  /\ RecordsTyped(e) /\ LastAccepted(e) = LastAccepted(d)
             /\ Len(e.records) = Len(d.records) /\ DOMAIN e.records = DOMAIN d.records
             /\ \A i \in DOMAIN d.records :
                  e.records[i].status = IF i = n THEN status ELSE d.records[i].status
<1> DEFINE e == UpdateRecord(d, n, status)
<1>1. "records" \in DOMAIN e /\ e.records = [d.records EXCEPT ![n].status = status]
  BY DEF UpdateRecord, RecordsTyped
<1>2. /\ e.records \in Seq(Records) /\ Len(e.records) = Len(d.records)
      /\ DOMAIN e.records = DOMAIN d.records
      /\ \A i \in DOMAIN d.records :
           /\ e.records[i].version = d.records[i].version
           /\ e.records[i].status = IF i = n THEN status ELSE d.records[i].status
  <2>1. \A i \in DOMAIN d.records : d.records[i] \in Records
    BY DEF RecordsTyped
  <2>2. [d.records[n] EXCEPT !.status = status] \in Records
    BY <2>1 DEF Records
  <2>3. e.records \in Seq(Records) /\ Len(e.records) = Len(d.records)
    BY <1>1, <2>2 DEF RecordsTyped
  <2> HIDE DEF e
  <2>4. ASSUME NEW i \in DOMAIN d.records
        PROVE  /\ e.records[i].version = d.records[i].version
               /\ e.records[i].status = IF i = n THEN status ELSE d.records[i].status
    BY <1>1, <2>1, <2>4 DEF Records, RecordsTyped
  <2> QED BY <1>1, <2>3, <2>4 DEF RecordsTyped
<1> HIDE DEF e
<1>3. Accepted(e) = Accepted(d)
  BY <1>2 DEF Accepted
<1>4. HasLast(e) /\ LastAccepted(e) = LastAccepted(d)
  BY <1>2, <1>3, SameAccepted DEF RecordsTyped, Accepted
<1> QED BY <1>1, <1>2, <1>4 DEF RecordsTyped, e

LEMMA AddKeeps ==
  ASSUME NEW d, RecordsTyped(d), NEW kind \in RecordKinds
  PROVE  LET e == AddRecord(d, kind)
         IN  /\ RecordsTyped(e) /\ LastAccepted(e) = LastAccepted(d)
             /\ Len(e.records) = Len(d.records) + 1
             /\ e.records[Len(e.records)].status = "running"
             /\ DOMAIN e.records = DOMAIN d.records \cup {Len(d.records) + 1}
             /\ \A i \in DOMAIN d.records : e.records[i] = d.records[i]
<1> DEFINE e == AddRecord(d, kind)
           record == [kind |-> kind, status |-> "running", version |-> 0]
<1>1. "records" \in DOMAIN e /\ e.records = Append(d.records, record) /\ record \in Records
  BY DEF AddRecord, RecordsTyped, Records, RecordStatuses
<1>2. record.status = "running"
  OBVIOUS
<1> HIDE DEF e, record
<1>3. /\ e.records \in Seq(Records) /\ Len(e.records) = Len(d.records) + 1
      /\ DOMAIN e.records = DOMAIN d.records \cup {Len(d.records) + 1}
      /\ e.records[Len(d.records) + 1] = record
      /\ \A i \in DOMAIN d.records : e.records[i] = d.records[i]
  BY <1>1 DEF RecordsTyped
<1>4. Accepted(e) = Accepted(d)
  BY <1>2, <1>3 DEF Accepted, RecordsTyped
<1>5. HasLast(e) /\ LastAccepted(e) = LastAccepted(d)
  BY <1>3, <1>4, SameAccepted DEF RecordsTyped, Accepted
<1> QED BY <1>1, <1>2, <1>3, <1>5 DEF RecordsTyped, e

LEMMA AcceptKeeps ==
  ASSUME NEW d, RecordsTyped(d), Len(d.records) # 0, NEW version \in Nat
  PROVE  LET e == AcceptRecord(d, Len(d.records), version)
         IN  /\ RecordsTyped(e) /\ LastAccepted(e) = version
             /\ DOMAIN e.records = DOMAIN d.records
             /\ \A i \in DOMAIN d.records : e.records[i].status =
                  IF i = Len(d.records) THEN "accepted" ELSE d.records[i].status
<1> DEFINE n == Len(d.records)
           e == AcceptRecord(d, n, version)
<1>0. n \in DOMAIN d.records /\ \A i \in DOMAIN d.records : i <= n /\ i \in Nat
  BY DEF RecordsTyped
<1>1. /\ "records" \in DOMAIN e
      /\ e.records = [d.records EXCEPT ![n] = [[d.records[n] EXCEPT !.status = "accepted"]
                                                 EXCEPT !.version = version]]
  BY DEF AcceptRecord, RecordsTyped
<1> HIDE DEF e, n
<1>2. /\ e.records \in Seq(Records) /\ DOMAIN e.records = DOMAIN d.records
      /\ e.records[n].status = "accepted" /\ e.records[n].version = version
      /\ \A i \in DOMAIN d.records : i # n => e.records[i] = d.records[i]
  <2> DEFINE record == [[d.records[n] EXCEPT !.status = "accepted"] EXCEPT !.version = version]
  <2>1. d.records[n] \in Records
    BY <1>0 DEF RecordsTyped
  <2>2. record \in Records /\ record.status = "accepted" /\ record.version = version
    BY <2>1 DEF Records, RecordStatuses
  <2> HIDE DEF record
  <2>3. e.records = [d.records EXCEPT ![n] = record]
    BY <1>1 DEF record
  <2> QED BY <1>0, <2>2, <2>3 DEF RecordsTyped
<1>3. n \in Accepted(e) /\ \A i \in Accepted(e) : i <= n /\ i \in Nat
  BY <1>0, <1>2 DEF Accepted
<1>4. (CHOOSE i \in Accepted(e) : \A j \in Accepted(e) : j <= i) = n
  BY <1>3
<1>5. LastAccepted(e) = version
  BY <1>2, <1>3, <1>4 DEF LastAccepted, Accepted
<1>6. HasLast(e)
  BY <1>3 DEF HasLast
<1> QED BY <1>1, <1>2, <1>5, <1>6 DEF RecordsTyped, e, n

LEMMA ReopenKeeps ==
  ASSUME NEW d, RecordsTyped(d), NEW live
  PROVE  LET e == Reopen(d, live)
         IN  /\ RecordsTyped(e) /\ LastAccepted(e) = LastAccepted(d)
             /\ \A i \in DOMAIN e.records : e.records[i].status # "running"
<1> DEFINE e == Reopen(d, live)
<1>1. /\ "records" \in DOMAIN e
      /\ e.records = [i \in DOMAIN d.records |->
                        IF d.records[i].status = "running"
                          THEN [d.records[i] EXCEPT !.status = "interrupted"] ELSE d.records[i]]
  BY DEF Reopen, RecordsTyped
<1> HIDE DEF e
<1>2. /\ e.records \in Seq(Records) /\ DOMAIN e.records = DOMAIN d.records
      /\ \A i \in DOMAIN d.records :
           /\ e.records[i].version = d.records[i].version
           /\ e.records[i].status = "accepted" <=> d.records[i].status = "accepted"
           /\ e.records[i].status # "running"
  <2>1. \A i \in DOMAIN d.records : d.records[i] \in Records
    BY DEF RecordsTyped
  <2>2. \A i \in DOMAIN d.records : e.records[i] \in Records
    BY <1>1, <2>1 DEF Records, RecordStatuses
  <2>3. e.records \in Seq(Records)
    BY <1>1, <2>2 DEF RecordsTyped
  <2> QED BY <1>1, <2>1, <2>3 DEF Records
<1>3. Accepted(e) = Accepted(d)
  BY <1>2 DEF Accepted
<1>4. HasLast(e) /\ LastAccepted(e) = LastAccepted(d)
  BY <1>2, <1>3, SameAccepted DEF RecordsTyped, Accepted
<1> QED BY <1>1, <1>2, <1>4 DEF RecordsTyped, e
-----------------------------------------------------------------------------
(* The operators are of the store alone. *)
LEMMA Primed ==
  /\ LastAccepted(db)' = LastAccepted(db')
  /\ RecordsTyped(db)' <=> RecordsTyped(db')
BY DEF LastAccepted, RecordsTyped, HasLast, Accepted

(* The records stay, or the one that runs is written once more, or added. *)
RecordsMoved ==
  \/ /\ "records" \in DOMAIN db' /\ db'.records = db.records /\ active' = active
     /\ at' # "final_record" /\ (InRun' <=> InRun)
  \/ /\ active # 0 /\ active' = 0 /\ ~ InRun'
     /\ \E status \in Finished : db' = UpdateRecord(db, active, status)
  \/ /\ at = "final_record" /\ active' = active /\ ~ InRun' /\ at' # "final_record"
     /\ \E status \in Finished : db' = UpdateRecord(db, Len(db.records), status)
  \/ /\ active' = Len(db.records) + 1 /\ at' # "final_record" /\ ~ InRun /\ InRun'
     /\ \E kind \in RecordKinds : db' = AddRecord(db, kind)

LEMMA RecordsMovedKeeps ==
  ASSUME RecordInv, RecordsMoved, at \notin Bare, at' \notin Bare, accepted' \in Nat
  PROVE  RecordInv' /\ LastAccepted(db)' = LastAccepted(db)
<1>0. RecordsTyped(db) /\ db.records \in Seq(Records) /\ active \in Nat
  BY DEF RecordInv, RecordsTyped
<1>1. CASE /\ "records" \in DOMAIN db' /\ db'.records = db.records /\ active' = active
           /\ at' # "final_record" /\ (InRun' <=> InRun)
  <2>1. RecordsTyped(db') /\ LastAccepted(db') = LastAccepted(db)
    BY <1>0, <1>1, SameRecords
  <2> QED BY <1>1, <2>1, Primed DEF RecordInv
<1>2. CASE /\ active # 0 /\ active' = 0 /\ ~ InRun'
           /\ \E status \in Finished : db' = UpdateRecord(db, active, status)
  <2>1. PICK status \in Finished : db' = UpdateRecord(db, active, status)
    BY <1>2
  <2>2. active = Len(db.records) /\ active \in DOMAIN db.records
        /\ db.records[active].status # "accepted"
    BY <1>0, <1>2 DEF RecordInv
  <2>3. status \in RecordStatuses \ {"accepted"} /\ status # "running"
    BY DEF Finished, RecordStatuses
  <2>4. /\ RecordsTyped(db') /\ LastAccepted(db') = LastAccepted(db)
        /\ Len(db'.records) = Len(db.records) /\ DOMAIN db'.records = DOMAIN db.records
        /\ \A i \in DOMAIN db.records :
             db'.records[i].status = IF i = active THEN status ELSE db.records[i].status
    BY <1>0, <2>1, <2>2, <2>3, UpdateKeeps
  <2>5. db'.records # <<>>
    BY <1>2, <2>2, <2>4 DEF RecordsTyped
  <2> QED BY <1>2, <2>2, <2>3, <2>4, <2>5, Primed DEF RecordInv
<1>3. CASE /\ at = "final_record" /\ active' = active /\ ~ InRun' /\ at' # "final_record"
           /\ \E status \in Finished : db' = UpdateRecord(db, Len(db.records), status)
  <2>1. PICK status \in Finished : db' = UpdateRecord(db, Len(db.records), status)
    BY <1>3
  <2>2. Len(db.records) \in DOMAIN db.records
        /\ db.records[Len(db.records)].status # "accepted"
    BY <1>0, <1>3 DEF RecordInv
  <2>3. status \in RecordStatuses \ {"accepted"} /\ status # "running"
    BY DEF Finished, RecordStatuses
  <2>4. /\ RecordsTyped(db') /\ LastAccepted(db') = LastAccepted(db)
        /\ Len(db'.records) = Len(db.records) /\ DOMAIN db'.records = DOMAIN db.records
        /\ \A i \in DOMAIN db.records :
             db'.records[i].status = IF i = Len(db.records) THEN status ELSE db.records[i].status
    BY <1>0, <2>1, <2>2, <2>3, UpdateKeeps
  <2> QED BY <1>3, <2>3, <2>4, Primed DEF RecordInv
<1>4. CASE /\ active' = Len(db.records) + 1 /\ at' # "final_record" /\ ~ InRun /\ InRun'
           /\ \E kind \in RecordKinds : db' = AddRecord(db, kind)
  <2>1. PICK kind \in RecordKinds : db' = AddRecord(db, kind)
    BY <1>4
  <2>2. /\ RecordsTyped(db') /\ LastAccepted(db') = LastAccepted(db)
        /\ Len(db'.records) = Len(db.records) + 1
        /\ db'.records[Len(db'.records)].status = "running"
        /\ DOMAIN db'.records = DOMAIN db.records \cup {Len(db.records) + 1}
        /\ \A i \in DOMAIN db.records : db'.records[i] = db.records[i]
    BY <1>0, <2>1, AddKeeps
  <2>3. active' \in Nat \ {0} /\ active = 0
    BY <1>0, <1>4 DEF RecordInv
  <2>4. \A i \in DOMAIN db.records : db.records[i].status # "running"
    BY <1>0, <2>3 DEF RecordInv
  <2> QED BY <1>4, <2>2, <2>3, <2>4, Primed DEF RecordInv
<1> QED BY <1>1, <1>2, <1>3, <1>4 DEF RecordsMoved
-----------------------------------------------------------------------------
(* The records, action by action: every step but Accept keeps what was
   accepted.                                                                *)
AcceptedKept == RecordInv' /\ LastAccepted(db)' = LastAccepted(db)

LEMMA StartRecords ==
  ASSUME HistoryInv, StopInv, RecordInv, ModelInv,
         Boot \/ Die \/ RestoreFails \/ FirstReset \/ Restore \/ AfterRestore \/ Construct
  PROVE  AcceptedKept
<1> USE RecordsSame, Primed
    DEF RecordInv, ModelInv, StopInv, HolderInv, Bare, Unread, Recording, InRun, Operating,
        Opening, AcceptedKept, disk, files, position, model, control, signals, outside, ghosts
<1>1. CASE Boot \/ Die \/ RestoreFails
  BY <1>1 DEF Boot, Die, RestoreFails, FreshMemory, HistoryInv, NothingYet
<1>2. CASE FirstReset
  <2>1. db'.records = db.records /\ "records" \in DOMAIN db' /\ db.records = <<>>
    BY <1>2 DEF FirstReset, RecordsTyped, EmptyStore
  <2>2. RecordsTyped(db') /\ LastAccepted(db') = LastAccepted(db)
    BY <2>1, SameRecords
  <2> QED BY <1>2, <2>1, <2>2 DEF FirstReset
<1>3. CASE Restore
  <2>1. /\ RecordsTyped(db') /\ LastAccepted(db') = LastAccepted(db)
        /\ \A i \in DOMAIN db'.records : db'.records[i].status # "running"
    BY <1>3, ReopenKeeps DEF Restore
  <2> QED BY <1>3, <2>1 DEF Restore
<1>4. CASE AfterRestore
  BY <1>4, LastAcceptedNat DEF AfterRestore
<1>5. CASE Construct
  BY <1>5 DEF Construct
<1> QED BY <1>1, <1>2, <1>3, <1>4, <1>5
LEMMA CollectingRecords ==
  ASSUME HolderInv, RecordInv, Collecting
  PROVE  RecordsMoved /\ at \notin Bare /\ at' \notin Bare /\ accepted' \in Nat
<1> USE RequestShape, RecordsSame
    DEF RecordInv, RecordsTyped, RecordsMoved, HolderInv, Bare, Recording, InRun, Operating,
        Opening, Working, Gathering, Finished, disk, files, position, model, control, signals,
        outside, ghosts
<1>1. CASE CollectAct
  BY <1>1 DEF CollectAct
<1>2. CASE CollectStop
  BY <1>2 DEF CollectStop
<1>3. CASE CollectFinish
  BY <1>3 DEF CollectFinish
<1>4. CASE CollectSave
  BY <1>4 DEF CollectSave
<1>5. CASE CollectedOne
  BY <1>5 DEF CollectedOne
<1> QED BY <1>1, <1>2, <1>3, <1>4, <1>5 DEF Collecting

LEMMA ResettingRecords ==
  ASSUME HolderInv, RecordInv, Resetting
  PROVE  RecordsMoved /\ at \notin Bare /\ at' \notin Bare /\ accepted' \in Nat
<1> USE RequestShape, RecordsSame
    DEF RecordInv, RecordsTyped, RecordsMoved, HolderInv, Bare, Recording, InRun, Operating,
        Opening, Working, Gathering, Finished, disk, files, position, model, control, signals,
        outside, ghosts
<1>1. CASE Reset
  BY <1>1 DEF Reset
<1>2. CASE ResetFaults
  BY <1>2 DEF ResetFaults
<1>3. CASE ResetFinish
  BY <1>3 DEF ResetFinish
<1>4. CASE ResetStart
  BY <1>4 DEF ResetStart
<1>5. CASE ResetStoreFaults
  BY <1>5 DEF ResetStoreFaults
<1> QED BY <1>1, <1>2, <1>3, <1>4, <1>5 DEF Resetting

LEMMA ModellingRecords ==
  ASSUME HolderInv, RecordInv, Modelling, ~ Accept
  PROVE  RecordsMoved /\ at \notin Bare /\ at' \notin Bare /\ accepted' \in Nat
<1> USE RequestShape, RecordsSame
    DEF RecordInv, RecordsTyped, RecordsMoved, HolderInv, Bare, Recording, InRun, Operating,
        Opening, Working, Gathering, Finished, disk, files, position, model, control, signals,
        outside, ghosts
<1>1. CASE Reject
  BY <1>1 DEF Reject
<1>2. CASE Adopt
  BY <1>2 DEF Adopt, ChangePhase
<1>3. CASE CommandFails
  BY <1>3 DEF CommandFails
<1>4. CASE CommandFaults
  BY <1>4 DEF CommandFaults
<1>5. CASE FailRecord
  BY <1>5 DEF FailRecord
<1>6. CASE PlanCompletes
  BY <1>6 DEF PlanCompletes
<1>7. CASE PlanStartUnexplained
  BY <1>7 DEF PlanStartUnexplained, ChangePhase
<1> QED BY <1>1, <1>2, <1>3, <1>4, <1>5, <1>6, <1>7 DEF Modelling

LEMMA ExploringRecords ==
  ASSUME HolderInv, RecordInv, Exploring
  PROVE  RecordsMoved /\ at \notin Bare /\ at' \notin Bare /\ accepted' \in Nat
<1> USE RequestShape, RecordsSame
    DEF RecordInv, RecordsTyped, RecordsMoved, HolderInv, Bare, Recording, InRun, Operating,
        Opening, Working, Gathering, Finished, disk, files, position, model, control, signals,
        outside, ghosts
<1>1. CASE Begin
  BY <1>1 DEF Begin
<1>2. CASE Fresh
  BY <1>2 DEF Fresh
<1>3. CASE StopExploring
  BY <1>3 DEF StopExploring
<1>4. CASE ControllerFails
  BY <1>4 DEF ControllerFails
<1>5. CASE RunFaults
  BY <1>5 DEF RunFaults
<1>6. CASE ModelFails
  BY <1>6 DEF ModelFails, ChangePhase
<1>7. CASE ChooseAction
  BY <1>7 DEF ChooseAction
<1>8. CASE Act
  BY <1>8 DEF Act
<1>9. CASE ActInvalid
  BY <1>9 DEF ActInvalid
<1>10. CASE ActFaults
  BY <1>10 DEF ActFaults, AfterFailedStep
<1>11. CASE Record
  BY <1>11 DEF Record, AfterFailedStep
<1>12. CASE RecordFaults
  BY <1>12 DEF RecordFaults, AfterFailedStep
<1>13. CASE Judge
  BY <1>13 DEF Judge, ChangePhase
<1>14. CASE Score
  BY <1>14 DEF Score
<1>15. CASE Complete
  BY <1>15 DEF Complete
<1>16. CASE FinalRecord
  BY <1>16 DEF FinalRecord
<1> QED BY <1>1, <1>2, <1>3, <1>4, <1>5, <1>6, <1>7, <1>8, <1>9, <1>10, <1>11, <1>12, <1>13, <1>14,
           <1>15, <1>16 DEF Exploring

LEMMA EndingRecords ==
  ASSUME HolderInv, RecordInv, Answering \/ Closing
  PROVE  RecordsMoved /\ at \notin Bare /\ at' \notin Bare /\ accepted' \in Nat
<1> USE RequestShape, RecordsSame
    DEF RecordInv, RecordsTyped, RecordsMoved, HolderInv, Bare, Recording, InRun, Operating,
        Opening, Working, Gathering, Finished, disk, files, position, model, control, signals,
        outside, ghosts
<1>1. CASE ReadLimit
  BY <1>1 DEF ReadLimit
<1>2. CASE Remember
  BY <1>2 DEF Remember
<1>3. CASE Answer
  BY <1>3 DEF Answer
<1>4. CASE CloseEpisode
  BY <1>4 DEF CloseEpisode
<1>5. CASE Close
  BY <1>5 DEF Close
<1>6. CASE AnswerFaults
  BY <1>6 DEF AnswerFaults, Fault
<1> QED BY <1>1, <1>2, <1>3, <1>4, <1>5, <1>6 DEF Answering, Closing

LEMMA EnteringRecords ==
  ASSUME HolderInv, RecordInv, NEW r \in Requests,
         EnterRefused(r) \/ EnterBadFiles(r) \/ EnterBranch(r)
  PROVE  RecordsMoved /\ at \notin Bare /\ at' \notin Bare /\ accepted' \in Nat
<1> USE RequestShape
    DEF Enter, RecordInv, RecordsTyped, RecordsMoved, HolderInv, Bare, Recording, InRun,
        Operating, disk, files, position, model, control, signals, outside, ghosts
<1>1. CASE EnterRefused(r) \/ EnterBadFiles(r)
  BY <1>1 DEF EnterRefused, EnterBadFiles
<1>2. CASE EnterBranch(r) /\ NameOf[r] = "Reset"
  BY <1>2 DEF EnterBranch, FirstStepOf
<1>3. CASE EnterBranch(r) /\ NameOf[r] # "Reset"
  <2>1. NameOf[r] \in CommandNames \ {"Reset"}
    BY <1>3
  <2>2. RecordKindOf(NameOf[r]) \in RecordKinds
    BY <2>1 DEF RecordKindOf, RecordKinds, CommandNames
  <2>3. at' \in {"begin", "validate", "plan"}
    BY <1>3, <2>1 DEF EnterBranch, FirstStepOf, CommandNames
  <2> QED BY <1>3, <2>2, <2>3 DEF EnterBranch
<1> QED BY <1>1, <1>2, <1>3
LEMMA AcceptRecords ==
  ASSUME RecordInv, Accept
  PROVE  RecordInv' /\ LastAccepted(db)' = accepted + 1
<1>1. /\ at = "validate" /\ at' = "adopt" /\ active' = 0 /\ accepted' = accepted
      /\ active = Len(db.records) /\ Len(db.records) # 0
      /\ db' = AcceptRecord(db, Len(db.records), accepted + 1)
  BY DEF Accept, RecordInv, InRun, Recording, model
<1>2. /\ RecordsTyped(db') /\ LastAccepted(db') = accepted + 1
      /\ DOMAIN db'.records = DOMAIN db.records
      /\ \A i \in DOMAIN db.records : db'.records[i].status =
           IF i = Len(db.records) THEN "accepted" ELSE db.records[i].status
  <2>1. accepted + 1 \in Nat /\ RecordsTyped(db)
    BY DEF RecordInv
  <2> QED BY <1>1, <2>1, AcceptKeeps
<1> QED BY <1>1, <1>2, Primed DEF RecordInv, Bare, InRun, Recording, Operating

-----------------------------------------------------------------------------
(* The phase stays, in memory and on disk, or goes back to modelling. *)
PhaseMoved ==
  /\ at \notin Unread /\ at' \notin Unread /\ at # "adopt" /\ at' # "adopt"
  /\ accepted' = accepted /\ created' = created /\ "phase" \in DOMAIN db'
  /\ \/ phase' = phase /\ db'.phase = db.phase
     \/ phase' = Modeling /\ db'.phase = IF phase = Modeling THEN db.phase ELSE Modeling

LEMMA PhaseMovedKeeps ==
  ASSUME HistoryInv, ModelInv, PhaseMoved, LastAccepted(db)' = LastAccepted(db)
  PROVE  ModelInv'
<1>1. created /\ at' # "first_reset"
  BY DEF PhaseMoved, Unread, Bare, HistoryInv, NothingYet
<1> QED BY <1>1 DEF ModelInv, PhaseMoved, PhaseOf, Phases, Modeling, Exploration, InitialPhase

(* The log and its resets stay, the live episode too unless close() ends it;
   an operation that was to be committed is, or the task is stopping.       *)
EpisodeMoved ==
  /\ at \notin Bare /\ at' \notin Bare
  /\ "log" \in DOMAIN db' /\ db'.log = db.log /\ resetActions' = resetActions
  /\ (at \in Uncommitted <=> at' \in Uncommitted) \/ terminal' # "none"
  /\ at' = "fresh" => ~ SingleInstance
  /\ episode' = episode \/ at' \in {"close", "closed"}
  /\ at \in {"close", "closed"} => at' \in {"close", "closed"}
  /\ terminal # "none" => terminal' # "none"

LEMMA SameLogSameEpisode ==
  ASSUME db'.log = db.log
  PROVE  LastEpisode(db)' = LastEpisode(db)
BY DEF LastEpisode, Episodes, Steps

LEMMA EpisodeMovedKeeps ==
  ASSUME EpisodeInv, EpisodeMoved
  PROVE  EpisodeInv'
<1>1. /\ TotalResets(db)' = TotalResets(db)
      /\ LastEpisode(db)' = LastEpisode(db)
  BY SameLogSameCounts, SameLogSameEpisode DEF EpisodeMoved
<1> QED BY <1>1 DEF EpisodeInv, EpisodeMoved, Charge

LEMMA CollectingSteady ==
  ASSUME HolderInv, ModelInv, EpisodeInv, "log" \in DOMAIN db, Collecting
  PROVE  /\ PhaseMoved \/ Accept \/ Adopt
         /\ EpisodeMoved \/ Reset \/ ResetStart \/ Fresh \/ Record
<1> USE PhaseSame, LogKept, RequestShape, LimitKeeps
    DEF ModelInv, EpisodeInv, PhaseMoved, EpisodeMoved, HolderInv, Bare, Unread, Uncommitted,
        Opening, Working, Gathering, Operating, disk, files, position, model, control, signals,
        outside, ghosts
<1>1. CASE CollectAct
  BY <1>1 DEF CollectAct
<1>2. CASE CollectStop
  BY <1>2 DEF CollectStop
<1>3. CASE CollectFinish
  BY <1>3 DEF CollectFinish
<1>4. CASE CollectSave
  BY <1>4 DEF CollectSave
<1>5. CASE CollectedOne
  BY <1>5 DEF CollectedOne
<1> QED BY <1>1, <1>2, <1>3, <1>4, <1>5 DEF Collecting

LEMMA ResettingSteady ==
  ASSUME HolderInv, ModelInv, EpisodeInv, "log" \in DOMAIN db, Resetting
  PROVE  /\ PhaseMoved \/ Accept \/ Adopt
         /\ EpisodeMoved \/ Reset \/ ResetStart \/ Fresh \/ Record
<1> USE PhaseSame, LogKept, RequestShape, LimitKeeps
    DEF ModelInv, EpisodeInv, PhaseMoved, EpisodeMoved, HolderInv, Bare, Unread, Uncommitted,
        Opening, Working, Gathering, Operating, disk, files, position, model, control, signals,
        outside, ghosts
<1>1. CASE Reset
  BY <1>1 DEF Reset
<1>2. CASE ResetFaults
  BY <1>2 DEF ResetFaults, Fault
<1>3. CASE ResetFinish
  BY <1>3 DEF ResetFinish
<1>4. CASE ResetStart
  BY <1>4 DEF ResetStart
<1>5. CASE ResetStoreFaults
  BY <1>5 DEF ResetStoreFaults, Fault
<1> QED BY <1>1, <1>2, <1>3, <1>4, <1>5 DEF Resetting

LEMMA ModellingSteady ==
  ASSUME HolderInv, ModelInv, EpisodeInv, "log" \in DOMAIN db, Modelling
  PROVE  /\ PhaseMoved \/ Accept \/ Adopt
         /\ EpisodeMoved \/ Reset \/ ResetStart \/ Fresh \/ Record
<1> USE PhaseSame, LogKept, RequestShape, LimitKeeps
    DEF ModelInv, EpisodeInv, PhaseMoved, EpisodeMoved, HolderInv, Bare, Unread, Uncommitted,
        Opening, Working, Gathering, Operating, disk, files, position, model, control, signals,
        outside, ghosts
<1>1. CASE Reject
  BY <1>1 DEF Reject
<1>2. CASE Accept
  BY <1>2 DEF Accept
<1>3. CASE Adopt
  BY <1>3 DEF Adopt, ChangePhase
<1>4. CASE CommandFails
  BY <1>4 DEF CommandFails
<1>5. CASE CommandFaults
  BY <1>5 DEF CommandFaults, Fault
<1>6. CASE FailRecord
  BY <1>6 DEF FailRecord
<1>7. CASE PlanCompletes
  BY <1>7 DEF PlanCompletes
<1>8. CASE PlanStartUnexplained
  BY <1>8 DEF PlanStartUnexplained, ChangePhase
<1> QED BY <1>1, <1>2, <1>3, <1>4, <1>5, <1>6, <1>7, <1>8 DEF Modelling

LEMMA ExploringSteady ==
  ASSUME HolderInv, ModelInv, EpisodeInv, "log" \in DOMAIN db, Exploring
  PROVE  /\ PhaseMoved \/ Accept \/ Adopt
         /\ EpisodeMoved \/ Reset \/ ResetStart \/ Fresh \/ Record
<1> USE PhaseSame, LogKept, RequestShape, LimitKeeps
    DEF ModelInv, EpisodeInv, PhaseMoved, EpisodeMoved, HolderInv, Bare, Unread, Uncommitted,
        Opening, Working, Gathering, Operating, disk, files, position, model, control, signals,
        outside, ghosts
<1>1. CASE Begin
  BY <1>1 DEF Begin
<1>2. CASE Fresh
  BY <1>2 DEF Fresh
<1>3. CASE StopExploring
  BY <1>3 DEF StopExploring
<1>4. CASE ControllerFails
  BY <1>4 DEF ControllerFails
<1>5. CASE RunFaults
  BY <1>5 DEF RunFaults, Fault
<1>6. CASE ModelFails
  BY <1>6 DEF ModelFails, ChangePhase
<1>7. CASE ChooseAction
  BY <1>7 DEF ChooseAction
<1>8. CASE Act
  BY <1>8 DEF Act
<1>9. CASE ActInvalid
  BY <1>9 DEF ActInvalid
<1>10. CASE ActFaults
  BY <1>10 DEF ActFaults, AfterFailedStep, Fault
<1>11. CASE Record
  BY <1>11 DEF Record, AfterFailedStep
<1>12. CASE RecordFaults
  BY <1>12 DEF RecordFaults, AfterFailedStep, Fault
<1>13. CASE Judge
  BY <1>13 DEF Judge, ChangePhase
<1>14. CASE Score
  BY <1>14 DEF Score
<1>15. CASE Complete
  BY <1>15 DEF Complete
<1>16. CASE FinalRecord
  BY <1>16 DEF FinalRecord
<1> QED BY <1>1, <1>2, <1>3, <1>4, <1>5, <1>6, <1>7, <1>8, <1>9, <1>10, <1>11, <1>12, <1>13, <1>14,
           <1>15, <1>16 DEF Exploring

LEMMA EndingSteady ==
  ASSUME HolderInv, ModelInv, EpisodeInv, "log" \in DOMAIN db, Answering \/ Closing
  PROVE  /\ PhaseMoved \/ Accept \/ Adopt
         /\ EpisodeMoved \/ Reset \/ ResetStart \/ Fresh \/ Record
<1> USE PhaseSame, LogKept, RequestShape, LimitKeeps
    DEF ModelInv, EpisodeInv, PhaseMoved, EpisodeMoved, HolderInv, Bare, Unread, Uncommitted,
        Opening, Working, Gathering, Operating, disk, files, position, model, control, signals,
        outside, ghosts
<1>1. CASE ReadLimit
  BY <1>1 DEF ReadLimit
<1>2. CASE Remember
  BY <1>2 DEF Remember
<1>3. CASE Answer
  BY <1>3 DEF Answer
<1>4. CASE CloseEpisode
  BY <1>4 DEF CloseEpisode
<1>5. CASE Close
  BY <1>5 DEF Close
<1>6. CASE AnswerFaults
  BY <1>6 DEF AnswerFaults, Fault
<1> QED BY <1>1, <1>2, <1>3, <1>4, <1>5, <1>6 DEF Answering, Closing

LEMMA EnteringSteady ==
  ASSUME HolderInv, ModelInv, EpisodeInv, "log" \in DOMAIN db, NEW r \in Requests,
         EnterRefused(r) \/ EnterBadFiles(r) \/ EnterBranch(r)
  PROVE  PhaseMoved /\ EpisodeMoved
<1> USE PhaseSame, LogKept, RequestShape, LimitKeeps
    DEF Enter, ModelInv, EpisodeInv, PhaseMoved, EpisodeMoved, HolderInv, Bare, Unread, Uncommitted,
        disk, files, position, model, control, signals, outside, ghosts
<1>1. CASE EnterRefused(r) \/ EnterBadFiles(r)
  BY <1>1 DEF EnterRefused, EnterBadFiles
<1>2. CASE EnterBranch(r)
  <2>1. at' \in {"begin", "validate", "plan", "reset"}
    BY <1>2 DEF EnterBranch, FirstStepOf, CommandNames
  <2>2. /\ "log" \in DOMAIN db' /\ db'.log = db.log
        /\ "phase" \in DOMAIN db' /\ db'.phase = db.phase
    BY <1>2 DEF EnterBranch
  <2> QED BY <1>2, <2>1, <2>2 DEF EnterBranch
<1> QED BY <1>1, <1>2
-----------------------------------------------------------------------------
(* The steps that move a version or a phase, and those that start a process. *)

LEMMA VersionKeeps ==
  ASSUME HistoryInv, RecordInv, ModelInv, Accept \/ Adopt
  PROVE  ModelInv'
<1> USE PhaseSame
    DEF ModelInv, RecordInv, Unread, Bare, PhaseOf, Phases, Modeling, Exploration, InitialPhase,
        files, model
<1>0. created
  BY DEF Accept, Adopt, HistoryInv, NothingYet, Bare
<1>1. CASE Accept
  BY <1>0, <1>1, AcceptRecords DEF Accept
<1>2. CASE Adopt
  <2>1. db'.records = db.records /\ "records" \in DOMAIN db'
    BY <1>2, RecordsSame DEF Adopt, ChangePhase, RecordsTyped
  <2>2. LastAccepted(db)' = LastAccepted(db)
    BY <2>1, SameRecords, Primed
  <2> QED BY <1>0, <1>2, <2>2 DEF Adopt, ChangePhase
<1> QED BY <1>1, <1>2

LEMMA StartModel ==
  ASSUME HistoryInv, RecordInv, ModelInv,
         Boot \/ Die \/ RestoreFails \/ FirstReset \/ Restore \/ AfterRestore \/ Construct,
         LastAccepted(db)' = LastAccepted(db)
  PROVE  ModelInv'
<1> USE PhaseSame
    DEF ModelInv, Unread, Bare, PhaseOf, Phases, Modeling, Exploration, InitialPhase, disk, files,
        position, model
<1>1. CASE Boot
  BY <1>1 DEF Boot, HistoryInv, NothingYet
<1>2. CASE Die
  BY <1>2 DEF Die, FreshMemory, HistoryInv, NothingYet
<1>3. CASE RestoreFails
  BY <1>3 DEF RestoreFails, HistoryInv, NothingYet
<1>4. CASE FirstReset
  <2>1. db = EmptyStore /\ db.phase = "none" /\ LastAccepted(db) = 0
    BY <1>4 DEF FirstReset, EmptyStore, LastAccepted
  <2> QED BY <1>4, <2>1 DEF FirstReset, HistoryInv, NothingYet
<1>5. CASE Restore
  BY <1>5 DEF Restore, HistoryInv, NothingYet
<1>6. CASE AfterRestore
  <2>1. /\ db' = db /\ at' = "construct" /\ created /\ created' = created
        /\ accepted' = IF UsesModel THEN LastAccepted(db) ELSE 0
    BY <1>6 DEF AfterRestore, HistoryInv, NothingYet
  <2>2. phase' = PhaseOf(db)
    BY <1>6 DEF AfterRestore
  <2>3. phase' \in Phases
    BY <2>2
  <2>4. UsesModel /\ phase' = Exploration => accepted' # 0
    BY <2>1, <2>2
  <2>5. PhaseOf(db)' = PhaseOf(db)
    BY <2>1
  <2>6. LastAccepted(db) \in Nat
    BY LastAcceptedNat DEF RecordInv
  <2> QED BY <2>1, <2>2, <2>3, <2>4, <2>5, <2>6
<1>7. CASE Construct
  BY <1>7 DEF Construct, HistoryInv, NothingYet
<1> QED BY <1>1, <1>2, <1>3, <1>4, <1>5, <1>6, <1>7

-----------------------------------------------------------------------------
(* The episode a start or a reset begins is the last; a step begins none. *)
LEMMA StartIsLast ==
  ASSUME NEW d, "log" \in DOMAIN d, d.log \in Seq(Entries), NEW op \in {"start", "reset"}
  PROVE  LastEpisode(StartEpisode(d, op)) = Len(d.log) + 1
<1> DEFINE e == StartEpisode(d, op)
           n == Len(d.log) + 1
<1>1. e.log = Append(d.log, [op |-> op, obs |-> "play"])
  BY LogGrows
<1>2. /\ DOMAIN e.log = 1..n /\ n \in Nat /\ e.log[n].op = op
  BY <1>1
<1> HIDE DEF e
<1>3. n \in Episodes(e) /\ \A f \in Episodes(e) : f \in Nat /\ f <= n
  BY <1>2 DEF Episodes, Steps
<1> HIDE DEF n
<1>4. LastEpisode(e) = CHOOSE f \in Episodes(e) : \A g \in Episodes(e) : g <= f
  BY DEF LastEpisode
<1>5. LastEpisode(e) = n
  BY <1>3, <1>4
<1> QED BY <1>5 DEF e, n

LEMMA StepIsNoStart ==
  ASSUME NEW d, "log" \in DOMAIN d, d.log \in Seq(Entries), NEW obs
  PROVE  LastEpisode(RecordStep(d, obs)) = LastEpisode(d)
<1> DEFINE e == RecordStep(d, obs)
           n == Len(d.log) + 1
<1>1. e.log = Append(d.log, [op |-> "step", obs |-> obs])
  BY LogGrows
<1>2. /\ DOMAIN e.log = 1..n /\ DOMAIN d.log = 1..(n - 1) /\ n \in Nat /\ e.log[n].op = "step"
      /\ \A i \in 1..(n - 1) : e.log[i] = d.log[i]
  BY <1>1
<1> HIDE DEF e, n
<1>3. Episodes(e) = Episodes(d)
  BY <1>2 DEF Episodes, Steps
<1> QED BY <1>3 DEF LastEpisode, e

(* Only a reset adds to the resets. *)
LEMMA ResetCounts ==
  ASSUME NEW d, "log" \in DOMAIN d, d.log \in Seq(Entries)
  PROVE  /\ TotalResets(StartEpisode(d, "reset")) = TotalResets(d) + 1
         /\ TotalResets(StartEpisode(d, "start")) = TotalResets(d)
         /\ \A obs \in Observations : TotalResets(RecordStep(d, obs)) = TotalResets(d)
<1>1. TotalResets(d) \in Nat
  BY Counts
<1>2. ASSUME NEW op \in Operations, NEW obs \in Observations, NEW c,
             c.log = Append(d.log, [op |-> op, obs |-> obs])
      PROVE  TotalResets(c) = TotalResets(d) + (IF op = "reset" THEN 1 ELSE 0)
  <2> DEFINE e == [op |-> op, obs |-> obs]
  <2>1. e \in Entries /\ e.op = op /\ c.log = Append(d.log, e)
    BY <1>2 DEF Entries
  <2> HIDE DEF e
  <2>2. TotalResets(c) = TotalResets(d) + Added(e, {"reset"})
    BY <2>1, CountsAppend
  <2> QED BY <2>1, <2>2 DEF Added
<1>3. "play" \in Observations /\ {"start", "reset", "step"} \subseteq Operations
  BY DEF Observations, Operations
<1>4. /\ TotalResets(StartEpisode(d, "reset")) = TotalResets(d) + 1
      /\ TotalResets(StartEpisode(d, "start")) = TotalResets(d) + 0
  BY <1>2, <1>3, LogGrows
<1>5. \A obs \in Observations : TotalResets(RecordStep(d, obs)) = TotalResets(d) + 0
  BY <1>2, <1>3, LogGrows
<1> QED BY <1>1, <1>4, <1>5

LEMMA EpisodePrimed ==
  LastEpisode(db)' = LastEpisode(db') /\ TotalResets(db)' = TotalResets(db')
BY DEF LastEpisode, Episodes, Steps, TotalResets, Resets

LEMMA OperationEpisode ==
  ASSUME HistoryInv, HistoryInv', StopInv, EpisodeInv, Reset \/ ResetStart \/ Fresh \/ Record
  PROVE  EpisodeInv'
<1>0. /\ "log" \in DOMAIN db /\ db.log \in Seq(Entries) /\ env \in Seq(Entries)
      /\ TotalResets(db) \in Nat /\ resetActions \in Nat
  BY Counts DEF HistoryInv, Shape
<1> USE DEF EpisodeInv, Bare, Uncommitted, Charge
<1>1. CASE Reset
  <2>1. UNCHANGED <<db, episode, terminal>>
    BY <1>1 DEF Reset, disk, control
  <2>2. TotalResets(db)' = TotalResets(db) /\ LastEpisode(db)' = LastEpisode(db)
    BY <2>1, SameLogSameCounts, SameLogSameEpisode
  <2> QED BY <1>0, <1>1, <2>1, <2>2 DEF Reset
<1>2. CASE ResetStart
  <2>1. /\ db' = StartEpisode(db, "reset") /\ episode' = Len(db.log) + 1
        /\ at = "reset_start" /\ at' = "tail" /\ UNCHANGED <<terminal, resetActions>>
    BY <1>2 DEF ResetStart, control
  <2>2. LastEpisode(db)' = episode'
    BY <1>0, <2>1, StartIsLast, EpisodePrimed
  <2>3. TotalResets(db)' = TotalResets(db) + 1
    BY <1>0, <2>1, ResetCounts, EpisodePrimed
  <2> QED BY <1>0, <2>1, <2>2, <2>3
<1>3. CASE Fresh
  <2>1. /\ db' = StartEpisode(db, "start") /\ ~ SingleInstance
        /\ at = "fresh" /\ at' \in {"loop", "score"} /\ UNCHANGED resetActions
        /\ terminal' = terminal \/ terminal' # "none"
    BY <1>3 DEF Fresh
  <2>2. TotalResets(db)' = TotalResets(db)
    BY <1>0, <2>1, ResetCounts, EpisodePrimed
  <2> QED BY <2>1, <2>2
<1>4. CASE Record
  <2>1. PICK obs \in Observations : db' = RecordStep(db, obs)
    <3>1. PICK obs \in Observations : env = Append(db.log, [op |-> "step", obs |-> obs])
      BY <1>4 DEF Record, HistoryInv, InStep
    <3>2. env[Len(env)].obs = obs
      BY <1>0, <3>1
    <3> QED BY <1>4, <3>2 DEF Record
  <2>2. /\ at = "record" /\ UNCHANGED <<resetActions, episode>>
        /\ at' \in {"collect_finish", "score", "collected_one", "judge", "loop"}
        /\ terminal' = terminal \/ terminal' # "none"
    BY <1>4 DEF Record, AfterFailedStep, position
  <2>3. LastEpisode(db)' = LastEpisode(db)
    BY <1>0, <2>1, StepIsNoStart, EpisodePrimed
  <2>4. TotalResets(db)' = TotalResets(db)
    BY <1>0, <2>1, ResetCounts, EpisodePrimed
  <2> QED BY <2>2, <2>3, <2>4
<1> QED BY <1>1, <1>2, <1>3, <1>4

LEMMA StartEpisodes ==
  ASSUME HistoryInv, StopInv, EpisodeInv,
         Boot \/ Die \/ RestoreFails \/ FirstReset \/ Restore \/ AfterRestore \/ Construct
  PROVE  EpisodeInv'
<1>0. /\ "log" \in DOMAIN db /\ db.log \in Seq(Entries)
      /\ TotalResets(db) \in Nat /\ resetActions \in Nat
  BY Counts DEF HistoryInv, Shape
<1> USE DEF EpisodeInv, Bare, Uncommitted, Charge
<1>1. CASE Boot \/ Die \/ RestoreFails
  BY <1>1 DEF Boot, Die, RestoreFails, HistoryInv, NothingYet
<1>2. CASE FirstReset
  <2>1. /\ db' = StartEpisode(db, "start") /\ db.log = <<>> /\ episode' = 1
        /\ at = "first_reset" /\ at' = "construct" /\ UNCHANGED resetActions /\ resetActions = 0
    BY <1>2 DEF FirstReset, HistoryInv, NothingYet
  <2>2. LastEpisode(db)' = episode'
    <3>1. Len(db.log) + 1 = episode'
      BY <2>1
    <3> QED BY <1>0, <2>1, <3>1, StartIsLast, EpisodePrimed
  <2>3. TotalResets(db)' = TotalResets(db)
    BY <1>0, <2>1, ResetCounts, EpisodePrimed
  <2>4. TotalResets(db) = 0
    <3>1. Resets(db) = {}
      BY <2>1 DEF Resets
    <3> QED BY <3>1, FS_EmptySet DEF TotalResets
  <2> QED BY <2>1, <2>2, <2>3, <2>4
<1>3. CASE Restore
  <2>1. /\ db'.log = db.log /\ resetActions' = TotalResets(db) /\ at' = "after_restore"
        /\ SingleInstance => episode' = LastEpisode(db)
    BY <1>0, <1>3, LogKept DEF Restore
  <2>2. TotalResets(db)' = TotalResets(db) /\ LastEpisode(db)' = LastEpisode(db)
    BY <2>1, SameLogSameCounts, SameLogSameEpisode
  <2> QED BY <1>0, <2>1, <2>2
<1>4. CASE AfterRestore \/ Construct
  <2>1. UNCHANGED <<db, episode, resetActions, terminal>>
    BY <1>4 DEF AfterRestore, Construct, disk, control
  <2>2. TotalResets(db)' = TotalResets(db) /\ LastEpisode(db)' = LastEpisode(db)
    BY <2>1, SameLogSameCounts, SameLogSameEpisode
  <2>3. at \in {"after_restore", "construct"} /\ at' \in {"construct", "idle", "collect"}
    BY <1>4 DEF AfterRestore, Construct
  <2> QED BY <2>1, <2>2, <2>3
<1> QED BY <1>1, <1>2, <1>3, <1>4

-----------------------------------------------------------------------------
(* The running episodes: none is added but by a start, and the live one ends
   before the next, and before the task closes.                             *)
RunningMoved ==
  /\ "running" \in DOMAIN db' /\ db'.running \subseteq db.running
  /\ at' \in Halted => at \in Halted \/ db'.running = db.running \ {episode}

LEMMA RunningMoves ==
  ASSUME "running" \in DOMAIN db,
         Collecting \/ Resetting \/ Modelling \/ Exploring \/ Answering \/ Closing
  PROVE  RunningMoved \/ ResetStart \/ Fresh
<1> USE RunningSame, RunningChanged
    DEF RunningMoved, Halted, disk, files
<1>1. CASE CollectAct \/ CollectStop \/ CollectFinish \/ CollectSave \/ CollectedOne
  BY <1>1 DEF CollectAct, CollectStop, CollectFinish, CollectSave, CollectedOne
<1>2. CASE Reset \/ ResetFaults \/ ResetFinish \/ ResetStoreFaults
  BY <1>2 DEF Reset, ResetFaults, ResetFinish, ResetStoreFaults
<1>3. CASE Reject \/ Accept \/ Adopt \/ CommandFails \/ CommandFaults \/ FailRecord
  BY <1>3 DEF Reject, Accept, Adopt, ChangePhase, CommandFails, CommandFaults, FailRecord
<1>4. CASE PlanCompletes \/ PlanStartUnexplained
  BY <1>4 DEF PlanCompletes, PlanStartUnexplained, ChangePhase
<1>5. CASE Begin \/ StopExploring \/ ControllerFails \/ RunFaults \/ ModelFails \/ ChooseAction
  BY <1>5 DEF Begin, StopExploring, ControllerFails, RunFaults, ModelFails, ChangePhase, ChooseAction
<1>6. CASE Act \/ ActInvalid \/ ActFaults \/ Record \/ RecordFaults
  BY <1>6 DEF Act, ActInvalid, ActFaults, Record, RecordFaults, AfterFailedStep
<1>7. CASE Judge \/ Score \/ Complete \/ FinalRecord
  BY <1>7 DEF Judge, ChangePhase, Score, Complete, FinalRecord
<1>8. CASE ReadLimit \/ Remember \/ Answer \/ AnswerFaults \/ CloseEpisode \/ Close
  BY <1>8 DEF ReadLimit, Remember, Answer, AnswerFaults, CloseEpisode, Close
<1> QED BY <1>1, <1>2, <1>3, <1>4, <1>5, <1>6, <1>7, <1>8
        DEF Collecting, Resetting, Modelling, Exploring, Answering, Closing

LEMMA EnteringRunning ==
  ASSUME "running" \in DOMAIN db, NEW r \in Requests,
         EnterRefused(r) \/ EnterBadFiles(r) \/ EnterBranch(r)
  PROVE  RunningMoved
<1> USE RunningSame
    DEF RunningMoved, Halted
<1>1. CASE EnterRefused(r) \/ EnterBadFiles(r)
  BY <1>1 DEF EnterRefused, EnterBadFiles
<1>2. CASE EnterBranch(r)
  <2>1. at' \in {"begin", "validate", "plan", "reset"}
    BY <1>2 DEF EnterBranch, FirstStepOf, CommandNames, Enter, Commands
  <2> QED BY <1>2, <2>1 DEF EnterBranch
<1> QED BY <1>1, <1>2

LEMMA RunningMovedKeeps ==
  ASSUME HistoryInv, EpisodeInv, RunningInv, RunningMoved,
         EpisodeMoved \/ Reset \/ Record
  PROVE  RunningInv'
<1>1. /\ LastEpisode(db)' = LastEpisode(db) /\ at \notin Bare /\ db.log # <<>>
      /\ "log" \in DOMAIN db /\ db.log \in Seq(Entries)
  <2>1. "log" \in DOMAIN db /\ db.log \in Seq(Entries)
    BY DEF HistoryInv, Shape
  <2>2. CASE EpisodeMoved
    BY <2>1, <2>2, SameLogSameEpisode DEF EpisodeMoved, HistoryInv, NothingYet
  <2>3. CASE Reset
    BY <2>1, <2>3, SameLogSameEpisode DEF Reset, disk, HistoryInv, NothingYet, Bare
  <2>4. CASE Record
    BY <2>1, <2>4, StepIsNoStart, EpisodePrimed DEF Record, HistoryInv, NothingYet, Bare
  <2> QED BY <2>2, <2>3, <2>4
<1>2. db'.log # <<>>
  <2>1. CASE EpisodeMoved \/ Reset
    BY <1>1, <2>1 DEF EpisodeMoved, Reset, disk
  <2>2. CASE Record
    <3>1. db'.log = Append(db.log, [op |-> "step", obs |-> env[Len(env)].obs])
      BY <1>1, <2>2, LogGrows DEF Record
    <3>2. Len(db'.log) = Len(db.log) + 1
      BY <1>1, <3>1
    <3> QED BY <1>1, <3>2
  <2> QED BY <2>1, <2>2
<1>3. SingleInstance /\ at \notin Halted => db.running \ {episode} = {}
  BY <1>1 DEF EpisodeInv, RunningInv, Halted
<1> QED BY <1>1, <1>2, <1>3 DEF RunningInv, RunningMoved

LEMMA StartRunning ==
  ASSUME HistoryInv, EpisodeInv, RunningInv,
         \/ Boot \/ Die \/ RestoreFails \/ FirstReset \/ Restore \/ AfterRestore \/ Construct
         \/ ResetStart \/ Fresh
  PROVE  RunningInv'
<1>0. "log" \in DOMAIN db /\ db.log \in Seq(Entries)
  BY DEF HistoryInv, Shape
<1> USE RunningSame, RunningChanged DEF RunningInv, Halted
<1>1. CASE Boot \/ Die \/ RestoreFails \/ AfterRestore \/ Construct
  <2>1. db' = db /\ at' \notin Halted
    BY <1>1 DEF Boot, Die, RestoreFails, AfterRestore, Construct, disk
  <2> QED BY <2>1, SameLogSameEpisode
<1>2. CASE FirstReset \/ ResetStart
  <2>1. PICK op \in {"start", "reset"} : db' = StartEpisode(db, op)
    BY <1>2 DEF FirstReset, ResetStart
  <2>2. SingleInstance => db.running = {}
    BY <1>2 DEF FirstReset, ResetStart, HistoryInv, NothingYet
  <2>3. at' \notin Halted
    BY <1>2 DEF FirstReset, ResetStart
  <2>4. LastEpisode(db)' = Len(db.log) + 1
    BY <1>0, <2>1, StartIsLast, EpisodePrimed
  <2>5. db'.log # <<>>
    <3>1. db'.log = Append(db.log, [op |-> op, obs |-> "play"])
      BY <1>0, <2>1, LogGrows
    <3>2. Len(db'.log) = Len(db.log) + 1
      BY <1>0, <3>1
    <3> QED BY <1>0, <3>2
  <2> QED BY <1>0, <2>1, <2>2, <2>3, <2>4, <2>5
<1>3. CASE Fresh
  BY <1>3 DEF Fresh, EpisodeInv
<1>4. CASE Restore
  <2>1. /\ db' = Reopen(db, episode') /\ db'.log = db.log /\ db.log # <<>>
        /\ at' = "after_restore" /\ (SingleInstance => episode' = LastEpisode(db))
    BY <1>0, <1>4, LogKept DEF Restore
  <2> QED BY <2>1, SameLogSameEpisode
<1> QED BY <1>1, <1>2, <1>3, <1>4

(* The clock, the loop and the clients. *)
LEMMA OutsideResume ==
  ASSUME HistoryInv, StopInv, ResumeInv,
         Outside \/ (\E r \in Requests : Send(r) \/ AnswerAtOnce(r)) \/ UNCHANGED vars
  PROVE  ResumeInv'
<1>1. /\ UNCHANGED <<at, holder, db, phase, created, active, accepted, episode, resetActions>>
      /\ terminal # "none" => terminal' # "none"
  <2> USE DEF vars, disk, files, position, model, control, signals
  <2>1. CASE Outside
    BY <2>1 DEF Outside, DeadlinePasses, PauseClock, LoopStops, Shutdown
  <2>2. ASSUME NEW r \in Requests, Send(r) \/ AnswerAtOnce(r)
        PROVE  /\ UNCHANGED <<at, holder, db, phase, created, active, accepted, episode, resetActions>>
               /\ UNCHANGED terminal
    BY <2>2 DEF Send, AnswerAtOnce
  <2>3. CASE UNCHANGED vars
    BY <2>3
  <2> QED BY <2>1, <2>2, <2>3
<1>2. /\ TotalResets(db)' = TotalResets(db) /\ LastEpisode(db)' = LastEpisode(db)
      /\ LastAccepted(db)' = LastAccepted(db) /\ (RecordsTyped(db)' <=> RecordsTyped(db))
  BY <1>1, SameLogSameCounts, SameLogSameEpisode, Primed
<1>3. RecordInv'
  BY <1>1, <1>2 DEF ResumeInv, RecordInv, InRun
<1>4. ModelInv'
  BY <1>1, <1>2 DEF ResumeInv, ModelInv, PhaseOf
<1>5. EpisodeInv'
  BY <1>1, <1>2 DEF ResumeInv, EpisodeInv, Charge
<1>6. RunningInv'
  BY <1>1, <1>2 DEF ResumeInv, RunningInv
<1> QED BY <1>3, <1>4, <1>5, <1>6 DEF ResumeInv

-----------------------------------------------------------------------------
LEMMA ResumeInit == Init => ResumeInv
<1> SUFFICES ASSUME Init PROVE ResumeInv
  OBVIOUS
<1>1. db = EmptyStore /\ at = "down" /\ active = 0 /\ accepted = 0 /\ phase = InitialPhase
  BY DEF Init
<1>2. /\ "records" \in DOMAIN db /\ db.records = <<>> /\ db.log = <<>>
      /\ "running" \in DOMAIN db /\ db.running = {}
      /\ "phase" \in DOMAIN db /\ db.phase = "none"
  BY <1>1 DEF EmptyStore
<1>3. RecordsTyped(db)
  BY <1>2 DEF RecordsTyped, HasLast, Accepted
<1>4. RecordInv
  BY <1>1, <1>3 DEF RecordInv, InRun, Bare, Recording, Operating
<1>5. ModelInv
  BY <1>1, <1>2 DEF ModelInv, Unread, Bare, Phases, InitialPhase, Modeling, Exploration
<1>6. EpisodeInv
  BY <1>1 DEF EpisodeInv, Bare
<1>7. RunningInv
  BY <1>1, <1>2 DEF RunningInv, Halted
<1> QED BY <1>4, <1>5, <1>6, <1>7 DEF ResumeInv

(* A process that is up either moves the records, the phase and the episode
   as above, or takes one of the steps that have a lemma of their own.      *)
LEMMA UpKeeps ==
  ASSUME HistoryInv, HistoryInv', StopInv, ResumeInv,
         RecordInv', LastAccepted(db)' = LastAccepted(db) \/ Accept,
         PhaseMoved \/ Accept \/ Adopt,
         EpisodeMoved \/ Reset \/ ResetStart \/ Fresh \/ Record,
         RunningMoved \/ ResetStart \/ Fresh
  PROVE  ResumeInv'
<1>1. ModelInv'
  <2>1. ~ (PhaseMoved /\ Accept)
    BY DEF PhaseMoved, Accept
  <2> QED BY <2>1, PhaseMovedKeeps, VersionKeeps DEF ResumeInv
<1>2. EpisodeInv'
  BY EpisodeMovedKeeps, OperationEpisode DEF ResumeInv
<1>3. RunningInv'
  BY RunningMovedKeeps, StartRunning DEF ResumeInv
<1> QED BY <1>1, <1>2, <1>3 DEF ResumeInv

LEMMA ResumeStep ==
  HistoryInv /\ HistoryInv' /\ StopInv /\ ResumeInv /\ [Next]_vars => ResumeInv'
<1> SUFFICES ASSUME HistoryInv, HistoryInv', StopInv, ResumeInv, [Next]_vars PROVE ResumeInv'
  OBVIOUS
<1>0. /\ RecordInv /\ ModelInv /\ EpisodeInv /\ RunningInv /\ HolderInv
      /\ "log" \in DOMAIN db /\ "running" \in DOMAIN db
  BY DEF ResumeInv, RunningInv, StopInv, HistoryInv, Shape
<1>1. CASE Boot \/ Die \/ RestoreFails \/ FirstReset \/ Restore \/ AfterRestore \/ Construct
  BY <1>0, <1>1, StartRecords, StartModel, StartEpisodes, StartRunning,
     Zenon DEF AcceptedKept, ResumeInv
<1>2. ASSUME RecordsMoved /\ at \notin Bare /\ at' \notin Bare /\ accepted' \in Nat,
             PhaseMoved \/ Accept \/ Adopt,
             EpisodeMoved \/ Reset \/ ResetStart \/ Fresh \/ Record,
             RunningMoved \/ ResetStart \/ Fresh
      PROVE  ResumeInv'
  BY <1>0, <1>2, RecordsMovedKeeps, UpKeeps
<1>3. CASE Collecting
  BY <1>0, <1>2, <1>3, CollectingRecords, CollectingSteady, RunningMoves, Zenon
<1>4. CASE Resetting
  BY <1>0, <1>2, <1>4, ResettingRecords, ResettingSteady, RunningMoves, Zenon
<1>5. CASE Exploring
  BY <1>0, <1>2, <1>5, ExploringRecords, ExploringSteady, RunningMoves, Zenon
<1>6. CASE Answering \/ Closing
  BY <1>0, <1>2, <1>6, EndingRecords, EndingSteady, RunningMoves, Zenon
<1>7. CASE Entering
  BY <1>0, <1>2, <1>7, EnteringRecords, EnteringSteady, EnteringRunning, Zenon DEF Entering
<1>8. CASE Modelling /\ ~ Accept
  BY <1>0, <1>2, <1>8, ModellingRecords, ModellingSteady, RunningMoves, Zenon
<1>9. CASE Accept
  BY <1>0, <1>9, AcceptRecords, ModellingSteady, RunningMoves, UpKeeps DEF Modelling
<1>10. CASE Outside \/ (\E r \in Requests : Send(r) \/ AnswerAtOnce(r)) \/ UNCHANGED vars
  BY <1>10, OutsideResume
<1> QED BY <1>1, <1>3, <1>4, <1>5, <1>6, <1>7, <1>8, <1>9, <1>10, Zenon DEF Next, Starting

(* The phase, the accepted version, the running record, the live episode and
   the resets, in memory and on disk, over all processes.                   *)
THEOREM ResumeHolds == Spec => []ResumeInv
BY ResumeInit, ResumeStep, HistoryHolds, SessionHolds, PTL DEF Spec

(* A death between two commands of a task that goes on loses nothing: what
   _restore and the constructor recompute is what the process held.         *)
THEOREM RestorableHolds == Spec => []RestorableWhenIdle
<1>1. HistoryInv /\ ResumeInv => RestorableWhenIdle
  <2> SUFFICES ASSUME HistoryInv, ResumeInv, at = "idle", terminal = "none"
               PROVE  /\ env = db.log
                      /\ resetActions = TotalResets(db)
                      /\ SingleInstance => episode = LastEpisode(db)
                      /\ UsesModel => accepted = LastAccepted(db)
                      /\ phase = (IF db.phase = "none" THEN InitialPhase ELSE db.phase)
    BY DEF RestorableWhenIdle
  <2>1. env = db.log
    BY DEF HistoryInv, InStep, Ending
  <2>2. TotalResets(db) \in Nat /\ accepted \in Nat
    BY Counts DEF HistoryInv, Shape, ResumeInv, RecordInv
  <2>3. resetActions = TotalResets(db) /\ (SingleInstance => episode = LastEpisode(db))
    BY <2>2 DEF ResumeInv, EpisodeInv, Bare, Charge, Uncommitted
  <2>4. /\ UsesModel => accepted = LastAccepted(db)
        /\ phase = PhaseOf(db)
    BY <2>2 DEF ResumeInv, ModelInv, Unread, Bare
  <2> QED BY <2>1, <2>3, <2>4 DEF PhaseOf
<1> QED BY <1>1, HistoryHolds, ResumeHolds, PTL

(* A CWM task is never in the exploration phase without an accepted version,
   in whichever order its processes die and its versions are committed.     *)
THEOREM ExploresHolds == Spec => []ExploresWithModel
<1>1. ResumeInv => ExploresWithModel
  BY DEF ResumeInv, ModelInv, ExploresWithModel
<1> QED BY <1>1, ResumeHolds, PTL

(* Between commands, and after close(), a single instance has no running record
   and no running episode but the live one.                                 *)
THEOREM FlightHolds == Spec => [](SingleInstance => NothingInFlight)
<1>1. HistoryInv /\ ResumeInv => (SingleInstance => NothingInFlight)
  <2> SUFFICES ASSUME HistoryInv, ResumeInv, SingleInstance, at \in {"idle", "closed"}
               PROVE  /\ \A i \in DOMAIN db.records : db.records[i].status # "running"
                      /\ db.running \subseteq {episode}
    BY DEF NothingInFlight
  <2>1. active = 0 /\ db.records \in Seq(Records) /\ at \notin Bare
    BY DEF ResumeInv, RecordInv, InRun, RecordsTyped, Recording, Operating, Bare
  <2>2. \A i \in DOMAIN db.records : db.records[i].status # "running"
    BY <2>1 DEF ResumeInv, RecordInv
  <2>3. at = "idle" => episode = LastEpisode(db)
    BY <2>1 DEF ResumeInv, EpisodeInv
  <2> QED BY <2>2, <2>3 DEF ResumeInv, RunningInv, Halted
<1> QED BY <1>1, HistoryHolds, ResumeHolds, PTL

-----------------------------------------------------------------------------
(* The initial collection, and the steps the accepted CWM refutes. *)

Collects == at \in Gathering \/ (at \in Operating /\ holder = Collector)
Serves == at \notin Opening /\ ~ Collects

(* The task serves once its initial collection is saved, and no CWM is
   accepted before; the live episode of a single instance is a recorded one. *)
CollectInv ==
  /\ Collects => ~ collected
  /\ Serves => collected
  /\ ~ collected /\ UsesModel => LastAccepted(db) = 0 /\ refuted = {}
  /\ db.log # <<>> => LastEpisode(db) \in DOMAIN db.log
  /\ SingleInstance => CollectionContinues

(* One episode for the whole task: every refuted step is in the live one. *)
OneEpisode == SingleInstance /\ UsesModel /\ \A r \in Requests : NameOf[r] # "Reset"

(* A State that is current after a refuted step is one of a task that stops;
   the step just recorded is judged before the next is chosen.              *)
RefutedSteps ==
  /\ db.log # <<>> => LastEpisode(db) = 1
  /\ \A p \in refuted : p \in Nat /\ p > 1
  /\ at \notin {"reset", "reset_finish", "reset_start"}
  /\ at \in {"act", "record", "adopt"} => refuted = {}
  /\ at = "judge" => refuted \subseteq {Len(db.log)}
  /\ at # "judge" /\ terminal = "none" /\ liveState = "current" => refuted = {}

RefutedInv == OneEpisode => RefutedSteps

LEMMA VersionMoved ==
  ASSUME HistoryInv, StopInv, ResumeInv, [Next]_vars
  PROVE  LastAccepted(db)' = LastAccepted(db) \/ Accept
<1>0. RecordInv /\ ModelInv /\ EpisodeInv /\ HolderInv /\ "log" \in DOMAIN db
  BY DEF ResumeInv, StopInv, HistoryInv, Shape
<1>1. CASE Boot \/ Die \/ RestoreFails \/ FirstReset \/ Restore \/ AfterRestore \/ Construct
  BY <1>0, <1>1, StartRecords DEF AcceptedKept
<1>2. CASE Collecting
  BY <1>0, <1>2, CollectingRecords, RecordsMovedKeeps
<1>3. CASE Resetting
  BY <1>0, <1>3, ResettingRecords, RecordsMovedKeeps
<1>4. CASE Exploring
  BY <1>0, <1>4, ExploringRecords, RecordsMovedKeeps
<1>5. CASE Answering \/ Closing
  BY <1>0, <1>5, EndingRecords, RecordsMovedKeeps
<1>6. CASE Entering
  BY <1>0, <1>6, EnteringRecords, RecordsMovedKeeps DEF Entering
<1>7. CASE Modelling
  BY <1>0, <1>7, ModellingRecords, RecordsMovedKeeps
<1>8. CASE Outside \/ (\E r \in Requests : Send(r) \/ AnswerAtOnce(r)) \/ UNCHANGED vars
  <2>1. db' = db
    BY <1>8 DEF Outside, DeadlinePasses, PauseClock, LoopStops, Shutdown, Send, AnswerAtOnce,
                vars, disk
  <2> QED BY <2>1, Primed
<1> QED BY <1>1, <1>2, <1>3, <1>4, <1>5, <1>6, <1>7, <1>8, Zenon DEF Next, Starting

(* The live episode of every log is a position of it. *)
LogMoved ==
  \/ db'.log = db.log
  \/ \E op \in {"start", "reset"} :
       db' = StartEpisode(db, op) /\ (db.log = <<>> \/ at \in {"fresh", "reset_start"})
  \/ \E obs \in Observations : db' = RecordStep(db, obs) /\ db.log # <<>>

LEMMA LogMoves ==
  ASSUME HistoryInv, StopInv, ResumeInv, [Next]_vars
  PROVE  LogMoved
<1>0. /\ HolderInv /\ ModelInv /\ EpisodeInv /\ "log" \in DOMAIN db /\ db.log \in Seq(Entries)
      /\ env \in Seq(Entries)
  BY DEF ResumeInv, StopInv, HistoryInv, Shape
<1>1. CASE EpisodeMoved
  BY <1>1 DEF EpisodeMoved, LogMoved
<1>2. CASE Reset \/ Boot \/ Die \/ RestoreFails \/ AfterRestore \/ Construct
  BY <1>2 DEF Reset, Boot, Die, RestoreFails, AfterRestore, Construct, LogMoved, disk
<1>3. CASE Restore
  BY <1>0, <1>3, LogKept DEF Restore, LogMoved
<1>4. CASE FirstReset \/ ResetStart \/ Fresh
  BY <1>4 DEF FirstReset, ResetStart, Fresh, LogMoved, HistoryInv, NothingYet
<1>5. CASE Record
  <2>1. PICK obs \in Observations : env = Append(db.log, [op |-> "step", obs |-> obs])
    BY <1>5 DEF Record, HistoryInv, InStep
  <2>2. env[Len(env)].obs = obs
    BY <1>0, <2>1
  <2>3. db' = RecordStep(db, obs)
    BY <1>5, <2>2 DEF Record
  <2>4. db.log # <<>>
    BY <1>5 DEF Record, HistoryInv, NothingYet, Bare
  <2> QED BY <2>3, <2>4 DEF LogMoved
<1>6. CASE Collecting
  BY <1>0, <1>1, <1>2, <1>4, <1>5, <1>6, CollectingSteady, Zenon
<1>7. CASE Resetting
  BY <1>0, <1>1, <1>2, <1>4, <1>5, <1>7, ResettingSteady, Zenon
<1>8. CASE Exploring
  BY <1>0, <1>1, <1>2, <1>4, <1>5, <1>8, ExploringSteady, Zenon
<1>9. CASE Answering \/ Closing
  BY <1>0, <1>1, <1>2, <1>4, <1>5, <1>9, EndingSteady, Zenon
<1>10. CASE Entering
  BY <1>0, <1>1, <1>2, <1>4, <1>5, <1>10, EnteringSteady, Zenon DEF Entering
<1>11. CASE Modelling
  BY <1>0, <1>1, <1>2, <1>4, <1>5, <1>11, ModellingSteady, Zenon
<1>12. CASE Outside \/ (\E r \in Requests : Send(r) \/ AnswerAtOnce(r)) \/ UNCHANGED vars
  BY <1>12 DEF Outside, DeadlinePasses, PauseClock, LoopStops, Shutdown, Send, AnswerAtOnce,
               vars, disk, LogMoved
<1> QED BY <1>2, <1>3, <1>4, <1>6, <1>7, <1>8, <1>9, <1>10, <1>11, <1>12, Zenon DEF Next, Starting

LEMMA LastKept ==
  ASSUME HistoryInv, LogMoved, db.log # <<>> => LastEpisode(db) \in DOMAIN db.log
  PROVE  /\ DOMAIN db.log \subseteq DOMAIN db'.log
         /\ db'.log # <<>> => LastEpisode(db)' \in DOMAIN db'.log
<1>0. "log" \in DOMAIN db /\ db.log \in Seq(Entries)
  BY DEF HistoryInv, Shape
<1>1. CASE db'.log = db.log
  BY <1>1, SameLogSameEpisode
<1>2. ASSUME NEW op \in {"start", "reset"}, db' = StartEpisode(db, op)
      PROVE  DOMAIN db.log \subseteq DOMAIN db'.log /\ LastEpisode(db)' \in DOMAIN db'.log
  <2>1. LastEpisode(db)' = Len(db.log) + 1
    BY <1>0, <1>2, StartIsLast, EpisodePrimed
  <2>2. db'.log = Append(db.log, [op |-> op, obs |-> "play"])
    BY <1>0, <1>2, LogGrows
  <2>3. DOMAIN db'.log = 1 .. (Len(db.log) + 1)
    BY <1>0, <2>2
  <2> QED BY <1>0, <2>1, <2>3
<1>3. ASSUME NEW obs \in Observations, db' = RecordStep(db, obs), db.log # <<>>
      PROVE  DOMAIN db.log \subseteq DOMAIN db'.log /\ LastEpisode(db)' \in DOMAIN db'.log
  <2>1. LastEpisode(db)' = LastEpisode(db)
    BY <1>0, <1>3, StepIsNoStart, EpisodePrimed
  <2>2. db'.log = Append(db.log, [op |-> "step", obs |-> obs])
    BY <1>0, <1>3, LogGrows
  <2>3. DOMAIN db'.log = 1 .. (Len(db.log) + 1)
    BY <1>0, <2>2
  <2> QED BY <1>0, <1>3, <2>1, <2>3
<1> QED BY <1>1, <1>2, <1>3 DEF LogMoved

(* A step of the collection, or of the service that follows it. *)
CollectMoved ==
  /\ at \notin Opening /\ at' \notin Opening /\ (Collects' <=> Collects)
  /\ UNCHANGED collected
  /\ refuted' \in {refuted, {}} \/ accepted # 0
  /\ SingleInstance /\ CollectionContinues => CollectionContinues'

LEMMA LimitContinues == CollectionContinues => Limit # "initial_collection_failure"
BY DEF CollectionContinues, Limit

LEMMA CollectMoves ==
  ASSUME HolderInv, SingleInstance /\ at = "collect" => episode # 0,
         Collecting \/ Resetting \/ Modelling \/ Exploring \/ Answering \/ Closing
  PROVE  CollectMoved \/ CollectSave
<1> USE LimitContinues, RequestShape
    DEF CollectMoved, CollectionContinues, Collects, HolderInv, Opening, Working, Gathering,
        Operating, Fault, AfterFailedStep, disk, files, position, model, control, signals, outside,
        ghosts
<1>1. CASE CollectAct \/ CollectStop \/ CollectFinish \/ CollectedOne
  BY <1>1 DEF CollectAct, CollectStop, CollectFinish, CollectedOne
<1>2. CASE Resetting
  BY <1>2 DEF Resetting, Reset, ResetFaults, ResetFinish, ResetStart, ResetStoreFaults
<1>3. CASE Reject \/ Accept \/ Adopt \/ CommandFails \/ CommandFaults \/ FailRecord
  BY <1>3 DEF Reject, Accept, Adopt, ChangePhase, CommandFails, CommandFaults, FailRecord
<1>4. CASE PlanCompletes \/ PlanStartUnexplained
  BY <1>4 DEF PlanCompletes, PlanStartUnexplained, ChangePhase
<1>5. CASE Begin \/ Fresh \/ StopExploring \/ ControllerFails \/ RunFaults
  BY <1>5 DEF Begin, Fresh, StopExploring, ControllerFails, RunFaults
<1>6. CASE ModelFails \/ ChooseAction \/ Act \/ ActInvalid
  BY <1>6 DEF ModelFails, ChangePhase, ChooseAction, Act, ActInvalid
<1>7. CASE ActFaults
  BY <1>7 DEF ActFaults
<1>8. CASE Record
  BY <1>8 DEF Record
<1>9. CASE RecordFaults \/ Judge \/ Score \/ Complete \/ FinalRecord
  BY <1>9 DEF RecordFaults, Judge, ChangePhase, Score, Complete, FinalRecord
<1>10. CASE Answering \/ Closing
  BY <1>10 DEF Answering, Closing, ReadLimit, Remember, Answer, AnswerFaults, CloseEpisode, Close
<1> QED BY <1>1, <1>2, <1>3, <1>4, <1>5, <1>6, <1>7, <1>8, <1>9, <1>10
        DEF Collecting, Modelling, Exploring

LEMMA CollectStep ==
  ASSUME HistoryInv, StopInv, ResumeInv, ResumeInv', CollectInv, [Next]_vars
  PROVE  CollectInv'
<1>0. /\ HolderInv /\ RecordInv /\ ModelInv /\ EpisodeInv /\ "log" \in DOMAIN db
  BY DEF ResumeInv, StopInv, HistoryInv, Shape
<1>1. db'.log # <<>> => LastEpisode(db)' \in DOMAIN db'.log
  BY LogMoves, LastKept DEF CollectInv
<1>2. LastAccepted(db)' = LastAccepted(db) \/ Accept
  BY VersionMoved
<1>3. CASE CollectMoved
  <2>1. (Collects' => ~ collected') /\ (Serves' => collected')
    BY <1>3 DEF CollectMoved, CollectInv, Serves
  <2>2. ASSUME ~ collected', UsesModel
        PROVE  LastAccepted(db)' = 0 /\ refuted' = {}
    <3>1. ~ collected /\ Collects
      BY <1>3, <2>2 DEF CollectMoved, CollectInv, Serves
    <3>2. ~ Accept
      BY <3>1 DEF Accept, Collects, Gathering, Operating
    <3>3. LastAccepted(db) = 0 /\ refuted = {} /\ accepted = 0
      <4>1. at \notin Unread /\ at # "adopt" /\ accepted \in Nat
        BY <3>1, <1>0 DEF Collects, Gathering, Operating, Unread, Bare, RecordInv
      <4>2. LastAccepted(db) = 0 /\ refuted = {}
        BY <2>2, <3>1 DEF CollectInv
      <4>3. LastAccepted(db) = accepted + 0
        BY <1>0, <2>2, <4>1 DEF ModelInv
      <4> QED BY <4>1, <4>2, <4>3
    <3> QED BY <1>2, <1>3, <3>2, <3>3 DEF CollectMoved
  <2>3. SingleInstance => CollectionContinues'
    BY <1>3 DEF CollectMoved, CollectInv
  <2> QED BY <1>1, <2>1, <2>2, <2>3 DEF CollectInv
<1>4. CASE CollectSave
  BY <1>1, <1>2, <1>4 DEF CollectSave, Accept, CollectInv, CollectionContinues, Collects, Serves,
     Gathering, Operating, position, ghosts
<1>5. ASSUME at' \in Opening, UNCHANGED <<collected, refuted>>,
             UNCHANGED terminal \/ terminal' = "none", ~ Accept
      PROVE  CollectInv'
  BY <1>1, <1>2, <1>5 DEF CollectInv, CollectionContinues, Collects, Serves, Gathering, Operating,
     Opening
<1>6. CASE Boot \/ Die \/ RestoreFails \/ FirstReset \/ Restore \/ AfterRestore
  <2>1. /\ at' \in Opening /\ UNCHANGED <<collected, refuted>> /\ ~ Accept
        /\ UNCHANGED terminal \/ terminal' = "none"
    BY <1>6 DEF Boot, Die, RestoreFails, FirstReset, Restore, AfterRestore, FreshMemory, Accept,
       Opening, disk, files, control, ghosts, position
  <2> QED BY <1>5, <2>1
<1>7. CASE Construct
  BY <1>1, <1>2, <1>7, RequestShape DEF Construct, Accept, CollectInv, CollectionContinues, Collects,
     Serves, Gathering, Operating, disk, files, ghosts
<1>8. CASE Entering
  <2>1. PICK r \in Requests : EnterRefused(r) \/ EnterBadFiles(r) \/ EnterBranch(r)
    BY <1>8 DEF Entering
  <2>2. /\ at = "idle" /\ holder' = r /\ UNCHANGED <<collected, refuted>> /\ ~ Accept
        /\ terminal' = Limit
    BY <2>1 DEF EnterRefused, EnterBadFiles, EnterBranch, Enter, Accept, files
  <2>3. at' \in Working
    BY <2>1 DEF EnterRefused, EnterBadFiles, EnterBranch, Enter, Commands, FirstStepOf, Working
  <2>4. ~ Collects /\ Serves /\ ~ Collects'
    BY <2>2, <2>3 DEF Collects, Serves, Gathering, Operating, Opening, Working
  <2> QED BY <1>1, <1>2, <2>2, <2>4, LimitContinues DEF CollectInv, CollectionContinues, Serves
<1>9. CASE Outside \/ (\E r \in Requests : Send(r) \/ AnswerAtOnce(r)) \/ UNCHANGED vars
  <2>1. /\ UNCHANGED <<at, holder, collected, refuted>> /\ ~ Accept
        /\ terminal' \in {terminal, "interrupted"}
    BY <1>9 DEF Outside, DeadlinePasses, PauseClock, LoopStops, Shutdown, Send, AnswerAtOnce, Accept,
       vars, disk, files, position, model, control, signals, ghosts
  <2> QED BY <1>1, <1>2, <2>1 DEF CollectInv, CollectionContinues, Collects, Serves
<1>10. CASE Collecting \/ Resetting \/ Modelling \/ Exploring \/ Answering \/ Closing
  <2>1. SingleInstance /\ at = "collect" => episode # 0
    BY <1>0 DEF EpisodeInv, HistoryInv, Shape, NothingYet, CollectInv, Bare
  <2> QED BY <1>0, <1>3, <1>4, <1>10, <2>1, CollectMoves
<1> QED BY <1>6, <1>7, <1>8, <1>9, <1>10, Zenon DEF Next, Starting

(* A step that refutes nothing, makes no State current, and is none of the
   steps between the choice of an action and its judgement.                 *)
RefutedSame ==
  /\ refuted' = refuted /\ (liveState' = "current" => liveState = "current")
  /\ terminal' = "none" => terminal = "none"
  /\ at' \notin {"act", "record", "adopt", "judge", "reset", "reset_finish", "reset_start"}
  /\ at = "judge" => liveState' # "current"

LEMMA RefutedMoves ==
  ASSUME OneEpisode, EpisodeInv,
         at \notin {"reset", "reset_finish", "reset_start"},
         Collecting \/ Resetting \/ Modelling \/ Exploring \/ Answering \/ Closing
  PROVE  \/ RefutedSame \/ CollectAct \/ Accept \/ Adopt \/ PlanCompletes \/ ChooseAction \/ Act
         \/ Record \/ Judge
<1> USE LimitKeeps
    DEF RefutedSame, Fault, AfterFailedStep, disk, files, position, model, control, signals, outside,
        ghosts
<1>1. CASE CollectStop \/ CollectFinish \/ CollectSave \/ CollectedOne
  BY <1>1 DEF CollectStop, CollectFinish, CollectSave, CollectedOne
<1>2. CASE Resetting
  BY <1>2 DEF Resetting, Reset, ResetFaults, ResetFinish, ResetStart, ResetStoreFaults
<1>3. CASE Reject \/ CommandFails \/ CommandFaults \/ FailRecord \/ PlanStartUnexplained
  BY <1>3 DEF Reject, ChangePhase, CommandFails, CommandFaults, FailRecord, PlanStartUnexplained
<1>4. CASE Begin \/ StopExploring \/ ControllerFails \/ RunFaults \/ ModelFails
  BY <1>4 DEF Begin, StopExploring, ControllerFails, RunFaults, ModelFails, ChangePhase, OneEpisode
<1>5. CASE Fresh
  BY <1>5 DEF Fresh, EpisodeInv, OneEpisode
<1>6. CASE ActInvalid \/ ActFaults \/ RecordFaults
  BY <1>6 DEF ActInvalid, ActFaults, RecordFaults
<1>7. CASE Score \/ Complete \/ FinalRecord
  BY <1>7 DEF Score, Complete, FinalRecord
<1>8. CASE Answering \/ Closing
  BY <1>8 DEF Answering, Closing, ReadLimit, Remember, Answer, AnswerFaults, CloseEpisode, Close
<1> QED BY <1>1, <1>2, <1>3, <1>4, <1>5, <1>6, <1>7, <1>8 DEF Collecting, Modelling, Exploring

(* The one episode starts the log. *)
LEMMA FirstEpisode ==
  ASSUME HistoryInv, StopInv, ResumeInv, RefutedInv, OneEpisode, [Next]_vars
  PROVE  db'.log # <<>> => LastEpisode(db)' = 1
<1>0. /\ "log" \in DOMAIN db /\ db.log \in Seq(Entries) /\ EpisodeInv
      /\ db.log # <<>> => LastEpisode(db) = 1
      /\ at \notin {"reset", "reset_finish", "reset_start"}
  BY DEF HistoryInv, Shape, ResumeInv, RefutedInv, RefutedSteps
<1>1. CASE db'.log = db.log
  BY <1>0, <1>1, SameLogSameEpisode
<1>2. ASSUME NEW op \in {"start", "reset"}, db' = StartEpisode(db, op),
             db.log = <<>> \/ at \in {"fresh", "reset_start"}
      PROVE  LastEpisode(db)' = 1
  <2>1. LastEpisode(db)' = Len(db.log) + 1
    BY <1>0, <1>2, StartIsLast, EpisodePrimed
  <2> QED BY <1>0, <1>2, <2>1 DEF EpisodeInv, OneEpisode
<1>3. ASSUME NEW obs \in Observations, db' = RecordStep(db, obs), db.log # <<>>
      PROVE  LastEpisode(db)' = 1
  BY <1>0, <1>3, StepIsNoStart, EpisodePrimed
<1> QED BY LogMoves, <1>1, <1>2, <1>3 DEF LogMoved

LEMMA RefutedStep ==
  ASSUME HistoryInv, StopInv, ResumeInv, CollectInv, RefutedInv, [Next]_vars
  PROVE  RefutedInv'
<1> SUFFICES ASSUME OneEpisode PROVE RefutedSteps'
  BY DEF RefutedInv, OneEpisode
<1>0. /\ HolderInv /\ RecordInv /\ ModelInv /\ EpisodeInv /\ RefutedSteps
      /\ SingleInstance /\ UsesModel /\ "log" \in DOMAIN db /\ db.log \in Seq(Entries)
      /\ env \in Seq(Entries)
  BY DEF ResumeInv, StopInv, HistoryInv, Shape, RefutedInv, OneEpisode
<1>1. db'.log # <<>> => LastEpisode(db)' = 1
  BY FirstEpisode
<1>2. LiveStateHolds /\ liveState # "current" /\ at \notin Bare \cup {"close", "closed"}
        => refuted = {}
  <2>1. at \notin Bare \cup {"close", "closed"} => episode = 1
    BY <1>0 DEF EpisodeInv, RefutedSteps, HistoryInv, NothingYet
  <2> QED BY <1>0, <2>1 DEF LiveStateHolds, LiveRefuted, RefutedSteps
<1>3. CASE RefutedSame
  BY <1>0, <1>1, <1>3 DEF RefutedSame, RefutedSteps
<1>4. CASE CollectAct
  <2>1. refuted = {}
    BY <1>0, <1>4 DEF CollectAct, CollectInv, Collects, Gathering
  <2> QED BY <1>0, <1>1, <1>4, <2>1 DEF CollectAct, RefutedSteps, position, model, ghosts
<1>5. CASE Accept
  BY <1>0, <1>1, <1>5 DEF Accept, RefutedSteps
<1>6. CASE Adopt
  BY <1>0, <1>1, <1>6 DEF Adopt, RefutedSteps, ghosts
<1>7. CASE PlanCompletes
  BY <1>0, <1>1, <1>2, <1>7 DEF PlanCompletes, RefutedSteps, Bare, control, ghosts
<1>8. CASE ChooseAction
  BY <1>0, <1>1, <1>2, <1>8, LimitNone DEF ChooseAction, RefutedSteps, Bare, control, ghosts
<1>9. CASE Act
  BY <1>0, <1>1, <1>9 DEF Act, RefutedSteps, disk, model, control
<1>10. CASE Record
  <2>1. PICK obs \in Observations : env = Append(db.log, [op |-> "step", obs |-> obs])
    BY <1>10 DEF Record, HistoryInv, InStep
  <2>2. Len(env) = Len(db.log) + 1 /\ Len(env) > 1
    BY <1>0, <1>10, <2>1 DEF Record, HistoryInv, NothingYet, Bare
  <2>3. db'.log = Append(db.log, [op |-> "step", obs |-> env[Len(env)].obs])
    BY <1>0, <1>10, LogGrows DEF Record
  <2>4. Len(db'.log) = Len(env) /\ Len(env) \in Nat
    BY <1>0, <2>2, <2>3
  <2>5. refuted = {} /\ refuted' \subseteq {Len(env)}
    BY <1>0, <1>10 DEF Record, RefutedSteps
  <2>6. \/ at' = "judge"
        \/ refuted' = {} /\ at' \in {"collected_one", "judge"}
        \/ terminal' # "none" /\ at' \in {"collect_finish", "score"}
    <3>1. holder = Collector => accepted = 0
      <4>1. holder = Collector => LastAccepted(db) = 0
        BY <1>0, <1>10 DEF Record, CollectInv, Collects, Operating
      <4>2. LastAccepted(db) = accepted + 0
        BY <1>0, <1>10 DEF Record, ModelInv, Unread, Bare
      <4> QED BY <1>0, <4>1, <4>2 DEF RecordInv
    <3> QED BY <1>0, <1>10, <2>5, <3>1 DEF Record, AfterFailedStep
  <2> QED BY <1>1, <2>2, <2>4, <2>5, <2>6 DEF RefutedSteps
<1>11. CASE Judge
  <2>1. CASE liveState' = "none" /\ at' = "score"
    BY <1>0, <1>1, <1>11, <2>1 DEF Judge, RefutedSteps, ghosts
  <2>2. CASE Len(db.log) \notin refuted /\ at' = "loop"
    BY <1>0, <1>1, <1>11, <2>2 DEF Judge, RefutedSteps, ghosts
  <2> QED BY <1>11, <2>1, <2>2 DEF Judge
<1>12. CASE Boot \/ Die \/ RestoreFails \/ FirstReset \/ Restore \/ AfterRestore \/ Construct
  <2>1. /\ refuted' = refuted /\ (liveState' = "current" => liveState = "current")
        /\ \/ terminal' = "none" /\ terminal = "none" /\ at # "judge"
           \/ liveState' # "current"
        /\ at' \notin {"act", "record", "adopt", "judge", "reset", "reset_finish", "reset_start"}
    BY <1>0, <1>12 DEF Boot, Die, RestoreFails, FirstReset, Restore, AfterRestore, Construct,
       FreshMemory, HolderInv, Opening, disk, files, position, model, control, ghosts
  <2> QED BY <1>0, <1>1, <2>1 DEF RefutedSteps
<1>13. CASE Entering
  <2>1. PICK r \in Requests : EnterRefused(r) \/ EnterBadFiles(r) \/ EnterBranch(r)
    BY <1>13 DEF Entering
  <2>2. /\ at = "idle" /\ UNCHANGED <<refuted, liveState>>
        /\ terminal' = "none" => terminal = "none"
    BY <2>1, LimitNone DEF EnterRefused, EnterBadFiles, EnterBranch, Enter, model
  <2>3. at' \in {"tail", "begin", "validate", "plan"}
    BY <2>1, RequestShape DEF EnterRefused, EnterBadFiles, EnterBranch, Enter, Commands, FirstStepOf,
       OneEpisode
  <2> QED BY <1>0, <1>1, <2>2, <2>3 DEF RefutedSteps
<1>14. CASE Outside \/ (\E r \in Requests : Send(r) \/ AnswerAtOnce(r)) \/ UNCHANGED vars
  <2>1. /\ UNCHANGED <<at, refuted, liveState, db>> /\ (terminal' = "none" => terminal = "none")
    BY <1>14 DEF Outside, DeadlinePasses, PauseClock, LoopStops, Shutdown, Send, AnswerAtOnce,
       vars, disk, files, position, model, control, signals, ghosts
  <2> QED BY <1>0, <1>1, <2>1 DEF RefutedSteps
<1>15. CASE Collecting \/ Resetting \/ Modelling \/ Exploring \/ Answering \/ Closing
  <2>1. at \notin {"reset", "reset_finish", "reset_start"}
    BY <1>0 DEF RefutedSteps
  <2> QED BY <1>0, <1>3, <1>4, <1>5, <1>6, <1>7, <1>8, <1>9, <1>10, <1>11, <1>15, <2>1, RefutedMoves
<1> QED BY <1>12, <1>13, <1>14, <1>15, Zenon DEF Next, Starting

LEMMA CollectInit == Init => CollectInv /\ RefutedInv
<1> SUFFICES ASSUME Init PROVE CollectInv /\ RefutedInv
  OBVIOUS
<1>1. /\ db = EmptyStore /\ at = "down" /\ ~ collected /\ refuted = {} /\ terminal = "none"
      /\ liveState = "none" /\ db.log = <<>>
  BY DEF Init, EmptyStore
<1>2. LastAccepted(db) = 0
  <2>1. {i \in DOMAIN db.records : db.records[i].status = "accepted"} = {}
    BY <1>1 DEF EmptyStore
  <2> QED BY <2>1 DEF LastAccepted
<1> QED BY <1>1, <1>2 DEF CollectInv, RefutedInv, RefutedSteps, Collects, Serves, Gathering,
           Operating, Opening, CollectionContinues

(* What the initial collection leaves behind, and which steps are refuted. *)
THEOREM CollectHolds == Spec => [](CollectInv /\ RefutedInv)
<1>1. HistoryInv /\ StopInv /\ ResumeInv /\ ResumeInv' /\ (CollectInv /\ RefutedInv) /\ [Next]_vars
        => (CollectInv /\ RefutedInv)'
  BY CollectStep, RefutedStep
<1> QED BY <1>1, CollectInit, HistoryHolds, SessionHolds, ResumeHolds, PTL DEF Spec

(* A process that ends during the initial collection of a single instance
   never makes the next one fail the task.                                  *)
THEOREM ContinuesHolds == Spec => [](SingleInstance => CollectionContinues)
<1>1. CollectInv => (SingleInstance => CollectionContinues)
  BY DEF CollectInv
<1> QED BY <1>1, CollectHolds, PTL

(* Without Resets, no action of a controller is chosen under a CWM that a
   recorded step refutes, however often its judgement was cut off.          *)
THEOREM UnrefutedHolds == Spec => [](OneEpisode => ActsOnUnrefuted)
<1>1. RefutedInv => (OneEpisode => ActsOnUnrefuted)
  BY DEF RefutedInv, RefutedSteps, ActsOnUnrefuted
<1> QED BY <1>1, CollectHolds, PTL

-----------------------------------------------------------------------------
(* The types: the store has its tables and no others, what names an entry of
   the log does, and the rest of the memory has the values the code gives it. *)
Tables == {"log", "running", "records", "answered", "phase"}
Tabled(d) == d = [table \in Tables |-> d[table]]

StoreTyped ==
  /\ Tabled(db)
  /\ db.running \subseteq DOMAIN db.log /\ refuted \subseteq DOMAIN db.log
  /\ episode \in 0 .. Len(db.log)

ControlTyped ==
  /\ created \in BOOLEAN /\ collected \in BOOLEAN /\ exit \in {"open", "final"}
  /\ terminal \in Reasons /\ expired \in BOOLEAN
  /\ liveState \in {"none", "behind", "current"} /\ sized \in BOOLEAN
  /\ outcome \in {"ok", "error", "controller_error"} /\ serving \in BOOLEAN
  /\ stopping \in {"no", "decided", "shutdown"}
  /\ boots \in 0 .. MaxBoots /\ faults \in 0 .. MaxFaults
  /\ holder = NoRequest <=> at \in Unheld

LEMMA TablesKept ==
  ASSUME NEW d, Tabled(d), NEW x, NEW y
  PROVE  /\ Tabled(FinishEpisode(d, x)) /\ Tabled(AddRecord(d, x)) /\ Tabled(UpdateRecord(d, x, y))
         /\ Tabled(AcceptRecord(d, x, y)) /\ Tabled(PhaseChanged(d, x))
         /\ Tabled(RememberRequest(d, x, y)) /\ Tabled(Reopen(d, x)) /\ Tabled(StartEpisode(d, x))
         /\ Tabled(RecordStep(d, x))
BY DEF Tabled, FinishEpisode, AddRecord, UpdateRecord, AcceptRecord, PhaseChanged, RememberRequest,
       Reopen, StartEpisode, RecordStep

LEMMA LimitTyped == terminal \in Reasons => Limit \in Reasons
BY DEF Limit, Reasons

(* A step of a process that is up, but not one that starts an episode. *)
UpMoved ==
  /\ Tabled(db')
  /\ refuted' \in {refuted, {}} \/ Record
  /\ episode' \in {episode, 0}

LEMMA UpMoves ==
  ASSUME Tabled(db),
         Collecting \/ Resetting \/ Modelling \/ Exploring \/ Answering \/ Closing
  PROVE  UpMoved \/ ResetStart \/ Fresh
<1> USE TablesKept DEF UpMoved, disk, files, position, ghosts
<1>1. CASE Collecting
  BY <1>1 DEF Collecting, CollectAct, CollectStop, CollectFinish, CollectSave, CollectedOne
<1>2. CASE Resetting
  BY <1>2 DEF Resetting, Reset, ResetFaults, ResetFinish, ResetStoreFaults
<1>3. CASE Modelling
  BY <1>3 DEF Modelling, Reject, Accept, Adopt, ChangePhase, CommandFails, CommandFaults, FailRecord,
     PlanCompletes, PlanStartUnexplained
<1>4. CASE Begin \/ StopExploring \/ ControllerFails \/ RunFaults \/ ModelFails \/ ChooseAction
  BY <1>4 DEF Begin, StopExploring, ControllerFails, RunFaults, ModelFails, ChangePhase, ChooseAction
<1>5. CASE Act \/ ActInvalid \/ ActFaults \/ RecordFaults
  BY <1>5 DEF Act, ActInvalid, ActFaults, RecordFaults
<1>6. CASE Record
  BY <1>6 DEF Record
<1>7. CASE Judge \/ Score \/ Complete \/ FinalRecord
  BY <1>7 DEF Judge, ChangePhase, Score, Complete, FinalRecord
<1>8. CASE Answering \/ Closing
  BY <1>8 DEF Answering, Closing, ReadLimit, Remember, Answer, AnswerFaults, CloseEpisode, Close
<1> QED BY <1>1, <1>2, <1>3, <1>4, <1>5, <1>6, <1>7, <1>8 DEF Exploring

LEMMA StoreTypedStep ==
  ASSUME HistoryInv, StopInv, ResumeInv, CollectInv, StoreTyped, [Next]_vars
  PROVE  StoreTyped'
<1>0. /\ "log" \in DOMAIN db /\ db.log \in Seq(Entries) /\ "running" \in DOMAIN db
      /\ env \in Seq(Entries) /\ ModelInv /\ EpisodeInv
  BY DEF HistoryInv, Shape, ResumeInv, RunningInv
<1>1. DOMAIN db.log \subseteq DOMAIN db'.log
  BY LogMoves, LastKept DEF CollectInv
<1>2. db'.log \in Seq(Entries)
  <2>1. CASE db'.log = db.log
    BY <1>0, <2>1
  <2>2. ASSUME NEW op \in {"start", "reset"}, db' = StartEpisode(db, op)
        PROVE  db'.log \in Seq(Entries)
    <3>1. db'.log = Append(db.log, [op |-> op, obs |-> "play"])
      BY <1>0, <2>2, LogGrows
    <3>2. [op |-> op, obs |-> "play"] \in Entries
      BY DEF Entries, Operations, Observations
    <3> QED BY <1>0, <3>1, <3>2
  <2>3. ASSUME NEW obs \in Observations, db' = RecordStep(db, obs)
        PROVE  db'.log \in Seq(Entries)
    <3>1. db'.log = Append(db.log, [op |-> "step", obs |-> obs])
      BY <1>0, <2>3, LogGrows
    <3>2. [op |-> "step", obs |-> obs] \in Entries
      BY DEF Entries, Operations
    <3> QED BY <1>0, <3>1, <3>2
  <2> QED BY LogMoves, <2>1, <2>2, <2>3 DEF LogMoved
<1>3. Len(db.log) \in Nat /\ Len(db'.log) \in Nat /\ Len(db.log) <= Len(db'.log)
      /\ 0 .. Len(db.log) \subseteq 0 .. Len(db'.log)
  <2>1. DOMAIN db.log = 1 .. Len(db.log) /\ DOMAIN db'.log = 1 .. Len(db'.log)
        /\ Len(db.log) \in Nat /\ Len(db'.log) \in Nat
    BY <1>0, <1>2
  <2>2. Len(db.log) <= Len(db'.log)
    BY <1>1, <2>1
  <2> QED BY <2>1, <2>2
<1>4. CASE /\ Tabled(db') /\ db'.running \subseteq db.running
           /\ refuted' \in {refuted, {}} /\ episode' \in {episode, 0}
  BY <1>1, <1>3, <1>4 DEF StoreTyped
<1>5. ASSUME NEW op \in {"start", "reset"}, db' = StartEpisode(db, op),
             UNCHANGED refuted, episode' = Len(db.log) + 1
      PROVE  StoreTyped'
  <2>1. db'.log = Append(db.log, [op |-> op, obs |-> "play"])
    BY <1>0, <1>5, LogGrows
  <2>2. Len(db'.log) = Len(db.log) + 1 /\ DOMAIN db'.log = 1 .. (Len(db.log) + 1)
    BY <1>0, <2>1
  <2>3. db'.running = db.running \cup {Len(db.log) + 1} /\ Tabled(db')
    BY <1>0, <1>5, RunningChanged, TablesKept DEF StoreTyped
  <2> QED BY <1>1, <1>3, <1>5, <2>2, <2>3 DEF StoreTyped
<1>6. CASE Record
  <2>1. PICK obs \in Observations : env = Append(db.log, [op |-> "step", obs |-> obs])
    BY <1>6 DEF Record, HistoryInv, InStep
  <2>2. Len(env) = Len(db.log) + 1
    BY <1>0, <2>1
  <2>3. db'.log = Append(db.log, [op |-> "step", obs |-> env[Len(env)].obs])
    BY <1>0, <1>6, LogGrows DEF Record
  <2>4. Len(env) \in DOMAIN db'.log
    BY <1>0, <2>2, <2>3
  <2>5. refuted' \subseteq refuted \cup {Len(env)} /\ episode' = episode
    BY <1>6 DEF Record, position
  <2>6. db'.running = db.running /\ Tabled(db')
    BY <1>0, <1>6, RunningSame, TablesKept DEF Record, StoreTyped
  <2> QED BY <1>1, <1>3, <2>4, <2>5, <2>6 DEF StoreTyped
<1>7. CASE Collecting \/ Resetting \/ Modelling \/ Exploring \/ Answering \/ Closing
  <2>1. CASE ResetStart \/ Fresh
    BY <1>5, <2>1 DEF ResetStart, Fresh, ghosts
  <2>2. CASE UpMoved /\ RunningMoved
    BY <1>4, <1>6, <2>2 DEF UpMoved, RunningMoved
  <2> QED BY <1>0, <1>7, <2>1, <2>2, UpMoves, RunningMoves DEF StoreTyped
<1>8. CASE Entering
  <2>1. PICK r \in Requests : EnterRefused(r) \/ EnterBadFiles(r) \/ EnterBranch(r)
    BY <1>8 DEF Entering
  <2>2. db'.running \subseteq db.running
    BY <1>0, <2>1, EnteringRunning DEF RunningMoved
  <2>3. Tabled(db') /\ refuted' = refuted /\ episode' = episode
    BY <2>1, TablesKept DEF EnterRefused, EnterBadFiles, EnterBranch, Enter, StoreTyped
  <2> QED BY <1>4, <2>2, <2>3
<1>9. CASE FirstReset
  <2>1. db.log = <<>> /\ Len(db.log) = 0
    BY <1>9 DEF FirstReset, HistoryInv, NothingYet
  <2> QED BY <1>5, <1>9, <2>1 DEF FirstReset, ghosts
<1>10. CASE Restore
  <2>1. /\ db' = Reopen(db, episode') /\ db'.log = db.log /\ UNCHANGED refuted
        /\ episode' \in {0} \cup DOMAIN db.log
    BY <1>0, <1>10, LogKept DEF Restore, CollectInv, ghosts
  <2>2. db'.running = db.running \cup ({episode'} \ {0}) /\ Tabled(db')
    BY <1>0, <2>1, RunningChanged, TablesKept DEF StoreTyped
  <2>3. episode' \in 0 .. Len(db'.log)
    BY <1>0, <2>1
  <2> QED BY <2>1, <2>2, <2>3 DEF StoreTyped
<1>11. CASE Boot \/ Die \/ RestoreFails \/ AfterRestore \/ Construct
  BY <1>4, <1>11 DEF Boot, Die, RestoreFails, AfterRestore, Construct, FreshMemory, StoreTyped,
     disk, files, position, ghosts
<1>12. CASE Outside \/ (\E r \in Requests : Send(r) \/ AnswerAtOnce(r)) \/ UNCHANGED vars
  <2>1. UNCHANGED <<db, refuted, episode>>
    BY <1>12 DEF Outside, DeadlinePasses, PauseClock, LoopStops, Shutdown, Send, AnswerAtOnce,
       vars, disk, position, ghosts
  <2> QED BY <1>4, <2>1 DEF StoreTyped
<1> QED BY <1>7, <1>8, <1>9, <1>10, <1>11, <1>12, Zenon DEF Next, Starting

LEMMA StartControl ==
  ASSUME ControlTyped, HolderInv, HolderInv', Starting \/ Die
  PROVE  ControlTyped'
<1> USE LimitTyped, RequestShape, BoundsNatural, FlagsBoolean
    DEF ControlTyped, HolderInv, Reasons, Failures, Unheld, Opening, Working, Gathering, Operating,
        LiveStateAfter, disk, files, position, model, control, signals, outside, ghosts
<1>1. CASE Boot
  BY <1>1 DEF Boot
<1>2. CASE FirstReset
  BY <1>2 DEF FirstReset
<1>3. CASE RestoreFails
  BY <1>3 DEF RestoreFails
<1>4. CASE Restore
  BY <1>4 DEF Restore
<1>5. CASE AfterRestore
  BY <1>5 DEF AfterRestore
<1>6. CASE Construct
  BY <1>6 DEF Construct
<1>7. CASE Die
  BY <1>7 DEF Die, FreshMemory
<1> QED BY <1>1, <1>2, <1>3, <1>4, <1>5, <1>6, <1>7 DEF Starting

LEMMA CollectingControl ==
  ASSUME ControlTyped, HolderInv, HolderInv', Collecting
  PROVE  ControlTyped'
<1> USE LimitTyped, RequestShape, BoundsNatural, FlagsBoolean
    DEF ControlTyped, HolderInv, Reasons, Failures, Unheld, Opening, Working, Gathering, Operating,
        LiveStateAfter, disk, files, position, model, control, signals, outside, ghosts
<1>1. CASE CollectAct
  BY <1>1 DEF CollectAct
<1>2. CASE CollectStop
  BY <1>2 DEF CollectStop
<1>3. CASE CollectFinish
  BY <1>3 DEF CollectFinish
<1>4. CASE CollectSave
  BY <1>4 DEF CollectSave
<1>5. CASE CollectedOne
  BY <1>5 DEF CollectedOne
<1> QED BY <1>1, <1>2, <1>3, <1>4, <1>5 DEF Collecting

LEMMA ResettingControl ==
  ASSUME ControlTyped, HolderInv, HolderInv', Resetting
  PROVE  ControlTyped'
<1> USE LimitTyped, RequestShape, BoundsNatural, FlagsBoolean
    DEF ControlTyped, HolderInv, Reasons, Failures, Unheld, Opening, Working, Gathering, Operating,
        LiveStateAfter, disk, files, position, model, control, signals, outside, ghosts
<1>1. CASE Reset
  BY <1>1 DEF Reset
<1>2. CASE ResetFaults
  BY <1>2 DEF ResetFaults, Fault
<1>3. CASE ResetFinish
  BY <1>3 DEF ResetFinish
<1>4. CASE ResetStart
  BY <1>4 DEF ResetStart
<1>5. CASE ResetStoreFaults
  BY <1>5 DEF ResetStoreFaults, Fault
<1> QED BY <1>1, <1>2, <1>3, <1>4, <1>5 DEF Resetting

LEMMA ModellingControl ==
  ASSUME ControlTyped, HolderInv, HolderInv', Modelling
  PROVE  ControlTyped'
<1> USE LimitTyped, RequestShape, BoundsNatural, FlagsBoolean
    DEF ControlTyped, HolderInv, Reasons, Failures, Unheld, Opening, Working, Gathering, Operating,
        LiveStateAfter, disk, files, position, model, control, signals, outside, ghosts
<1>1. CASE Reject
  BY <1>1 DEF Reject
<1>2. CASE Accept
  BY <1>2 DEF Accept
<1>3. CASE Adopt
  BY <1>3 DEF Adopt
<1>4. CASE CommandFails
  BY <1>4 DEF CommandFails
<1>5. CASE CommandFaults
  BY <1>5 DEF CommandFaults, Fault
<1>6. CASE FailRecord
  BY <1>6 DEF FailRecord
<1>7. CASE PlanCompletes
  BY <1>7 DEF PlanCompletes
<1>8. CASE PlanStartUnexplained
  BY <1>8 DEF PlanStartUnexplained
<1> QED BY <1>1, <1>2, <1>3, <1>4, <1>5, <1>6, <1>7, <1>8 DEF Modelling

LEMMA ExploringControl ==
  ASSUME ControlTyped, HolderInv, HolderInv', Exploring
  PROVE  ControlTyped'
<1> USE LimitTyped, RequestShape, BoundsNatural, FlagsBoolean
    DEF ControlTyped, HolderInv, Reasons, Failures, Unheld, Opening, Working, Gathering, Operating,
        LiveStateAfter, disk, files, position, model, control, signals, outside, ghosts
<1>1. CASE Begin
  BY <1>1 DEF Begin
<1>2. CASE Fresh
  BY <1>2 DEF Fresh
<1>3. CASE StopExploring
  BY <1>3 DEF StopExploring
<1>4. CASE ControllerFails
  BY <1>4 DEF ControllerFails
<1>5. CASE RunFaults
  BY <1>5 DEF RunFaults, Fault
<1>6. CASE ModelFails
  BY <1>6 DEF ModelFails
<1>7. CASE ChooseAction
  BY <1>7 DEF ChooseAction
<1>8. CASE Act
  BY <1>8 DEF Act
<1>9. CASE ActInvalid
  BY <1>9 DEF ActInvalid
<1>10. CASE ActFaults
  BY <1>10 DEF ActFaults, Fault, AfterFailedStep
<1>11. CASE Record
  BY <1>11 DEF Record, AfterFailedStep
<1>12. CASE RecordFaults
  BY <1>12 DEF RecordFaults, Fault, AfterFailedStep
<1>13. CASE Judge
  BY <1>13 DEF Judge
<1>14. CASE Score
  BY <1>14 DEF Score
<1>15. CASE Complete
  BY <1>15 DEF Complete
<1>16. CASE FinalRecord
  BY <1>16 DEF FinalRecord
<1> QED BY <1>1, <1>2, <1>3, <1>4, <1>5, <1>6, <1>7, <1>8, <1>9, <1>10, <1>11, <1>12, <1>13, <1>14,
           <1>15, <1>16 DEF Exploring

LEMMA EndingControl ==
  ASSUME ControlTyped, HolderInv, HolderInv', Answering \/ Closing \/ Outside
  PROVE  ControlTyped'
<1> USE LimitTyped, RequestShape, BoundsNatural, FlagsBoolean
    DEF ControlTyped, HolderInv, Reasons, Failures, Unheld, Opening, Working, Gathering, Operating,
        LiveStateAfter, disk, files, position, model, control, signals, outside, ghosts
<1>1. CASE ReadLimit
  BY <1>1 DEF ReadLimit
<1>2. CASE Remember
  BY <1>2 DEF Remember
<1>3. CASE Answer
  BY <1>3 DEF Answer
<1>4. CASE AnswerFaults
  BY <1>4 DEF AnswerFaults, Fault
<1>5. CASE CloseEpisode
  BY <1>5 DEF CloseEpisode
<1>6. CASE Close
  BY <1>6 DEF Close
<1>7. CASE DeadlinePasses
  BY <1>7 DEF DeadlinePasses
<1>8. CASE PauseClock
  <2>1. expired' \in BOOLEAN
    BY <1>8, Zenon DEF PauseClock
  <2>2. UNCHANGED <<created, collected, exit, terminal, liveState, sized, outcome, serving, stopping,
                    boots, faults, holder, at>>
    BY <1>8 DEF PauseClock
  <2> QED BY <2>1, <2>2
<1>9. CASE LoopStops
  BY <1>9 DEF LoopStops
<1>10. CASE Shutdown
  BY <1>10 DEF Shutdown
<1> QED BY <1>1, <1>2, <1>3, <1>4, <1>5, <1>6, <1>7, <1>8, <1>9, <1>10 DEF Answering, Closing, Outside

LEMMA ControlStep ==
  ASSUME StopInv, StopInv', ControlTyped, [Next]_vars
  PROVE  ControlTyped'
<1>0. HolderInv /\ HolderInv'
  BY DEF StopInv
<1>1. CASE Entering
  <2>1. PICK r \in Requests : EnterRefused(r) \/ EnterBadFiles(r) \/ EnterBranch(r)
    BY <1>1 DEF Entering
  <2>2. /\ UNCHANGED <<created, collected, exit, expired, liveState, sized, serving, stopping,
                       boots, faults>>
        /\ terminal' = Limit /\ outcome' = "ok" /\ holder' = r
    BY <2>1 DEF EnterRefused, EnterBadFiles, EnterBranch, Enter, files, model, signals, outside
  <2>3. at' \in Working
    BY <2>1 DEF EnterRefused, EnterBadFiles, EnterBranch, Enter, Commands, FirstStepOf, Working
  <2>4. holder' # NoRequest /\ at' \notin Unheld
    BY <2>2, <2>3, RequestShape DEF Working, Unheld
  <2> QED BY <2>2, <2>4, LimitTyped DEF ControlTyped
<1>2. CASE (\E r \in Requests : Send(r) \/ AnswerAtOnce(r)) \/ UNCHANGED vars
  <2>1. UNCHANGED <<created, collected, exit, terminal, expired, liveState, sized, outcome, serving,
                    stopping, boots, faults, holder, at>>
    BY <1>2 DEF Send, AnswerAtOnce, vars, disk, files, position, model, control, signals, outside
  <2> QED BY <2>1 DEF ControlTyped
<1> QED BY <1>0, <1>1, <1>2, StartControl, CollectingControl, ResettingControl, ModellingControl,
           ExploringControl, EndingControl, Zenon DEF Next

LEMMA TypedInit == Init => StoreTyped /\ ControlTyped
<1> SUFFICES ASSUME Init PROVE StoreTyped /\ ControlTyped
  OBVIOUS
<1>1. ControlTyped
  <2>1. boots \in 0 .. MaxBoots /\ faults \in 0 .. MaxFaults
    BY BoundsNatural DEF Init
  <2>2. created \in BOOLEAN /\ collected \in BOOLEAN /\ expired \in BOOLEAN /\ sized \in BOOLEAN
        /\ serving \in BOOLEAN
    BY Zenon DEF Init
  <2>3. /\ exit = "open" /\ terminal = "none" /\ liveState = "none" /\ outcome = "ok"
        /\ stopping = "no" /\ holder = NoRequest /\ at = "down"
    BY DEF Init
  <2> QED BY <2>1, <2>2, <2>3 DEF ControlTyped, Reasons, Unheld
<1>2. Tabled(db) /\ db.running = {} /\ db.log = <<>>
  BY DEF Init, EmptyStore, Tabled, Tables
<1>3. episode = 0 /\ refuted = {}
  BY DEF Init
<1> QED BY <1>1, <1>2, <1>3 DEF StoreTyped

(* The types, from the inductive invariants of the coordinator. *)
THEOREM TypeHolds == Spec => []TypeOK
<1>1. HistoryInv /\ StopInv /\ ResumeInv /\ CollectInv /\ StoreTyped /\ [Next]_vars => StoreTyped'
  BY StoreTypedStep
<1>2. StopInv /\ StopInv' /\ ControlTyped /\ [Next]_vars => ControlTyped'
  BY ControlStep
<1>3. ASSUME HistoryInv, StopInv, ExecutedInv, ResumeInv, StoreTyped, ControlTyped PROVE TypeOK
  <2>1. db \in Stores
    <3>1. /\ db.log \in Seq(Entries) /\ db.records \in Seq(Records)
          /\ db.answered \in [Rids -> CommandNames \cup {NoCommand}]
          /\ db.phase \in Phases \cup {"none"} /\ db.running \subseteq Nat
      BY <1>3 DEF HistoryInv, Shape, ResumeInv, RecordInv, RecordsTyped, ModelInv, ExecutedInv,
         StoreTyped
    <3>2. db = [log |-> db.log, running |-> db.running, records |-> db.records,
                answered |-> db.answered, phase |-> db.phase]
      BY <1>3 DEF StoreTyped, Tabled, Tables
    <3> QED BY <3>1, <3>2 DEF Stores
  <2>2. active \in 0 .. Len(db.records)
    BY <1>3 DEF ResumeInv, RecordInv, RecordsTyped
  <2>3. /\ at \in Points /\ env \in Seq(Entries) /\ phase \in Phases /\ resetActions \in Nat
        /\ accepted \in Nat /\ late \in Nat /\ executed \subseteq Requests
        /\ call \in [Requests -> {"unsent", "waiting", "answered", "lost"}]
    BY <1>3 DEF HistoryInv, Shape, ResumeInv, RecordInv, ModelInv, StopInv, LateInv, ExecutedInv
  <2>4. /\ db.running \subseteq DOMAIN db.log /\ refuted \subseteq DOMAIN db.log
        /\ episode \in 0 .. Len(db.log)
    BY <1>3 DEF StoreTyped
  <2> QED BY <1>3, <2>1, <2>2, <2>3, <2>4 DEF TypeOK, ControlTyped
<1>4. HistoryInv /\ StopInv /\ ExecutedInv /\ ResumeInv /\ StoreTyped /\ ControlTyped => TypeOK
  BY <1>3
<1> QED BY <1>1, <1>2, <1>4, TypedInit, HistoryHolds, SessionHolds, ResumeHolds, CollectHolds,
           PTL DEF Spec
=============================================================================
