--------------------------- MODULE ExperienceStore ---------------------------
(***************************************************************************)
(* The durable record of one task (regact/protocols/cwm/store.py): an      *)
(* SQLite file that holds every environment start, reset and step in the   *)
(* order they were committed, the records of the framework commands, and   *)
(* the answers already given.  Each operator is one method, and one        *)
(* transaction: it returns the contents of the file after the commit.      *)
(*                                                                         *)
(* The tables `episodes' and `step_events' are one log here.  An episode   *)
(* is named by the position of its first entry; its steps are the entries  *)
(* up to the next episode.  Observations are told apart only by what the   *)
(* coordinator reads from them: the game goes on, is over, or is won.      *)
(***************************************************************************)
EXTENDS Naturals, Sequences, FiniteSets

CONSTANTS
  Rids,        \* request ids sent with framework commands
  NoCommand    \* "this id is not in the requests table"

Observations == {"play", "over", "won"}
Operations == {"start", "reset", "step"}
Entries == [op : Operations, obs : Observations]
RecordKinds == {"exploration", "validation", "plan"}
RecordStatuses == {"running", "completed", "failed", "accepted", "rejected", "interrupted"}
Records == [kind : RecordKinds, status : RecordStatuses, version : Nat]
CommandNames == {"RunController", "Reset", "UpdateCodeWorldModel", "PlanInCWM"}
Phases == {"MODELING", "EXPLORATION"}

Stores ==
  [log : Seq(Entries), running : SUBSET Nat, records : Seq(Records),
   answered : [Rids -> CommandNames \cup {NoCommand}], phase : Phases \cup {"none"}]

(* A file just created: ExperienceStore(path), record_commit. *)
EmptyStore ==
  [log |-> <<>>, running |-> {}, records |-> <<>>,
   answered |-> [q \in Rids |-> NoCommand], phase |-> "none"]

Steps(db) == {i \in DOMAIN db.log : db.log[i].op = "step"}
Resets(db) == {i \in DOMAIN db.log : db.log[i].op = "reset"}
Episodes(db) == DOMAIN db.log \ Steps(db)

(* summary()["n_total_transitions"], and the resets _restore counts. *)
TotalSteps(db) == Cardinality(Steps(db))
TotalResets(db) == Cardinality(Resets(db))

LastEpisode(db) == CHOOSE e \in Episodes(db) : \A f \in Episodes(db) : f <= e

StartEpisode(db, op) ==
  [db EXCEPT !.log = Append(@, [op |-> op, obs |-> "play"]),
             !.running = @ \cup {Len(db.log) + 1}]

RecordStep(db, obs) == [db EXCEPT !.log = Append(@, [op |-> "step", obs |-> obs])]

(* Only a running episode is finished: UPDATE ... AND status='running'. *)
FinishEpisode(db, episode) == [db EXCEPT !.running = @ \ {episode}]

AddRecord(db, kind) ==
  [db EXCEPT !.records = Append(@, [kind |-> kind, status |-> "running", version |-> 0])]

UpdateRecord(db, rid, status) == [db EXCEPT !.records[rid].status = status]

(* update_record of an accepted validation, whose payload names its version. *)
AcceptRecord(db, rid, version) ==
  [db EXCEPT !.records[rid].status = "accepted", !.records[rid].version = version]

(* last_record("validation", "accepted")["cwm_version"]; 0 when there is none. *)
LastAccepted(db) ==
  LET accepted == {i \in DOMAIN db.records : db.records[i].status = "accepted"}
  IN  IF accepted = {} THEN 0
      ELSE db.records[CHOOSE i \in accepted : \A j \in accepted : j <= i].version

(* event("phase_changed"): last_phase() reads the latest of these events. *)
PhaseChanged(db, phase) == [db EXCEPT !.phase = phase]

RememberRequest(db, rid, name) == [db EXCEPT !.answered[rid] = name]

(* Mutant: the records of the process that died go on running. *)
ReopenKeepsRecords(db, episode) == [db EXCEPT !.running = @ \cup ({episode} \ {0})]

(* Resume: no record is running; the live episode, if there is one, is. *)
Reopen(db, episode) ==
  [db EXCEPT !.records = [i \in DOMAIN @ |->
                            IF @[i].status = "running"
                              THEN [@[i] EXCEPT !.status = "interrupted"] ELSE @[i]],
             !.running = @ \cup ({episode} \ {0})]
=============================================================================
