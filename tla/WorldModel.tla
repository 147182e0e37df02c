----------------------------- MODULE WorldModel -----------------------------
(***************************************************************************)
(* What the cwm protocol does with one code world model: UpdateCodeWorld-  *)
(* Model replays every recorded episode under it (protocols/cwm/           *)
(* validation.py), the live State is carried from there through the steps, *)
(* resets and resumes that follow (live_state in protocols/cwm/session.py) *)
(* and PlanInCWM searches its predictions breadth first from that State    *)
(* (protocols/cwm/planner.py).                                             *)
(*                                                                         *)
(* A model is a function: get_initial_state, step and render answer the    *)
(* same way each time.  Every call of the worker that runs it may fail or  *)
(* time out.  A history hash stands for the history it is a hash of.       *)
(***************************************************************************)
EXTENDS Integers, Sequences, FiniteSets

CONSTANTS
  States, Observations, Actions,
  DoneObs,        \* observations whose is_done is set
  ActionsFor,     \* problem.enumerate_actions: the actions at an observation, in order
  Models,         \* the submitted models: [initial, step, render]
  Utilities,      \* the submitted goals: utility, per State
  UpperBound,     \* the largest utility
  Logs,           \* the episodes recorded when the model is submitted
  None,           \* no State, no action, no limit
  MaxEvidence,    \* bound: steps and resets recorded after that
  MaxCalls, MaxNodes, MaxDepth   \* the planner's limits; None: no limit

History == [first : Observations, steps : Seq([action : Actions, obs : Observations])]

ASSUME WorldModelAssumption ==
  /\ DoneObs \subseteq Observations
  /\ ActionsFor \in [Observations -> Seq(Actions)]
  /\ UpperBound \in Nat
  /\ Models \subseteq [initial : [Observations -> States],
                       step : [States \X Actions -> States],
                       render : [States -> Observations]]
  /\ Utilities \subseteq [States -> 0..UpperBound]
  /\ Logs \subseteq Seq(History) /\ \A l \in Logs : l # <<>>
  /\ MaxEvidence \in Nat
  /\ MaxCalls \in Nat \cup {None} /\ MaxNodes \in Nat \cup {None} /\ MaxDepth \in Nat \cup {None}

VARIABLES
  model, utility,   \* the submitted files
  single,           \* env lifecycle: single_instance?
  log,              \* the store: every episode, in start order
  phase,            \* "validate", "explore", "search", "planned" or "over"
  episode, checked, \* validation: the episode replayed, and how much of it
  current,          \* the State there
  validated, diverged, \* the repeated histories already judged: with their State, or refuted
  failed,           \* has summary["failures"] an entry?
  verdict,          \* "none", "accepted", "rejected" or "error"
  running,          \* the live State: [state, history], or none
  nodes, visited,   \* planner: the nodes found, and the keys (State, novelty) seen
  cursor, choice,   \* the node that is expanded, and the next of its actions
  calls, reason, depthLimited,
  best,             \* the best node, 0 if none is eligible
  evidence          \* steps and resets recorded since

inputs == <<model, utility, single>>
validation == <<episode, checked, current, validated, diverged, failed, verdict>>
search == <<nodes, visited, cursor, choice, calls, best, reason, depthLimited>>
vars == <<inputs, log, phase, validation, running, search, evidence>>

-----------------------------------------------------------------------------
(* Histories. *)

Length(h) == Len(h.steps)
ObsAt(h, i) == IF i = 0 THEN h.first ELSE h.steps[i].obs
Upto(h, i) == [first |-> h.first, steps |-> SubSeq(h.steps, 1, i)]
Live == log[Len(log)]

(* Histories that the store holds more than once: store.repeated_histories. *)
Repeated(h) ==
  \E e, f \in 1..Len(log) :
    /\ e # f
    /\ \A d \in {e, f} : Length(h) <= Length(log[d]) /\ Upto(log[d], Length(h)) = h

(* `run' carries the State through h from step k on, and every screen after
   step k is the recorded one.                                              *)
Carries(run, h, k) ==
  \A i \in (k + 1)..Length(h) :
    /\ run[i] = model.step[<<run[i - 1], h.steps[i].action>>]
    /\ model.render[run[i]] = ObsAt(h, i)

(* What it means that the model explains a history, whole and from nothing. *)
Explains(h, state) ==
  \E run \in [0..Length(h) -> States] :
    /\ run[0] = model.initial[h.first] /\ model.render[run[0]] = h.first
    /\ Carries(run, h, 0)
    /\ run[Length(h)] = state

-----------------------------------------------------------------------------
NoNodes == <<>>

Init ==
  /\ model \in Models /\ utility \in Utilities /\ single \in BOOLEAN /\ log \in Logs
  /\ phase = "validate" /\ episode = 1 /\ checked = 0 /\ current = None
  /\ validated = {} /\ diverged = {} /\ failed = FALSE /\ verdict = "none"
  /\ running = None
  /\ nodes = NoNodes /\ visited = {} /\ cursor = 1 /\ choice = 1 /\ calls = 0
  /\ best = 0 /\ reason = "frontier_exhausted" /\ depthLimited = FALSE
  /\ evidence = 0

-----------------------------------------------------------------------------
(* UpdateCodeWorldModel: validate. *)

Judged == phase = "validate" /\ episode <= Len(log) /\ checked <= Length(log[episode])
(* Mutant: the caches know a history by its last step. *)
HereLastStep == [first |-> log[episode].first,
                 steps |-> IF checked = 0 THEN <<>> ELSE <<log[episode].steps[checked]>>]
Here == Upto(log[episode], checked)

GoOn(state) ==
  /\ current' = state /\ checked' = checked + 1 /\ UNCHANGED <<episode, failed, diverged>>
LeaveEpisode ==
  /\ episode' = episode + 1 /\ checked' = 0 /\ UNCHANGED <<current, validated>>

(* The history was replayed in an earlier episode: its State is taken over. *)
ReuseState(state) ==
  /\ Judged /\ <<Here, state>> \in validated
  /\ GoOn(state)
  /\ UNCHANGED <<inputs, log, phase, validated, verdict, running, search, evidence>>

(* It was refuted in an earlier episode, where the failure was counted. *)
ReuseFailure ==
  /\ Judged /\ Here \in diverged
  /\ LeaveEpisode
  /\ UNCHANGED <<inputs, log, phase, diverged, failed, verdict, running, search, evidence>>

Unjudged == Judged /\ Here \notin diverged /\ \A pair \in validated : pair[1] # Here
Predicted ==
  IF checked = 0 THEN model.initial[log[episode].first]
  ELSE model.step[<<current, log[episode].steps[checked].action>>]

Matches ==
  /\ Unjudged /\ model.render[Predicted] = ObsAt(log[episode], checked)
  /\ GoOn(Predicted)
  /\ validated' = IF Repeated(Here) THEN validated \cup {<<Here, Predicted>>} ELSE validated
  /\ UNCHANGED <<inputs, log, phase, verdict, running, search, evidence>>

(* The rest of the episode cannot be predicted from here. *)
Mismatch ==
  /\ Unjudged /\ model.render[Predicted] # ObsAt(log[episode], checked)
  /\ LeaveEpisode
  /\ failed' = TRUE
  /\ diverged' = IF Repeated(Here) THEN diverged \cup {Here} ELSE diverged
  /\ UNCHANGED <<inputs, log, phase, verdict, running, search, evidence>>

(* The episode was predicted to its end; the live one gives the live State. *)
EndEpisode ==
  /\ phase = "validate" /\ episode <= Len(log) /\ checked > Length(log[episode])
  /\ running' = IF single /\ episode = Len(log)
                THEN [state |-> current, history |-> log[episode]] ELSE running
  /\ LeaveEpisode
  /\ UNCHANGED <<inputs, log, phase, diverged, failed, verdict, search, evidence>>

(* A callback raises, hangs or runs out of its time: no verdict. *)
ValidationFails ==
  /\ Unjudged
  /\ verdict' = "error" /\ phase' = "over" /\ running' = None
  /\ UNCHANGED <<inputs, log, episode, checked, current, validated, diverged, failed, search, evidence>>

(* All episodes replayed: compactness, and the verdict. *)
FinishValidation ==
  /\ phase = "validate" /\ episode > Len(log)
  /\ \E compact \in BOOLEAN :
       IF ~failed /\ compact
       THEN verdict' = "accepted" /\ phase' = "explore" /\ UNCHANGED running
       ELSE verdict' = "rejected" /\ phase' = "over" /\ running' = None
  /\ UNCHANGED <<inputs, log, episode, checked, current, validated, diverged, failed, search, evidence>>

-----------------------------------------------------------------------------
(* The live State between commands (single_instance). *)

(* Mutant: the carried State is believed wherever the episode is as long as its history. *)
AnchorsByLength == IF running = None THEN {}
                   ELSE {k \in 0..Length(Live) : k = Length(running.history)}
(* live_state: the running State caught up with what was recorded since, or
   the live episode replayed from its first observation.                     *)
Anchors == IF running = None THEN {}
           ELSE {k \in 0..Length(Live) : Upto(Live, k) = running.history}
LiveState(state) ==
  IF Anchors # {}
  THEN \E k \in Anchors : \E run \in [k..Length(Live) -> States] :
         run[k] = running.state /\ Carries(run, Live, k) /\ run[Length(Live)] = state
  ELSE Explains(Live, state)

Recording == phase = "explore" /\ single /\ evidence < MaxEvidence
Grow(l) == log' = l /\ evidence' = evidence + 1

(* ResetRealEnvironment: a new live episode; the carried State stays behind. *)
ResetReal ==
  /\ Recording
  /\ \E first \in Observations : Grow(Append(log, [first |-> first, steps |-> <<>>]))
  /\ UNCHANGED <<inputs, phase, validation, running, search>>

(* One action of a run: predicted from the live State, executed, recorded and
   checked, unless the process dies before the check and the task is resumed. *)
RealStep(state, action, obs, judged) ==
  LET next == model.step[<<state, action>>]
      longer == [Live EXCEPT !.steps = Append(@, [action |-> action, obs |-> obs])]
      holds == model.render[next] = obs
      before == ObsAt(Live, Length(Live))
  IN /\ Recording /\ LiveState(state)
     /\ before \notin DoneObs /\ \E i \in 1..Len(ActionsFor[before]) : action = ActionsFor[before][i]
     /\ Grow([log EXCEPT ![Len(log)] = longer])
     /\ running' = IF judged /\ holds THEN [state |-> next, history |-> longer] ELSE None
     /\ phase' = IF judged /\ ~holds THEN "over" ELSE phase
     /\ UNCHANGED <<inputs, validation, search>>

(* The task is resumed: the live State is not stored. *)
Resume ==
  /\ phase = "explore" /\ running # None
  /\ running' = None
  /\ UNCHANGED <<inputs, log, phase, validation, search, evidence>>

(* Neither a run nor a plan can start: back to modelling. *)
Refuted ==
  /\ phase = "explore" /\ single /\ ~\E state \in States : LiveState(state)
  /\ running' = None /\ phase' = "over"
  /\ UNCHANGED <<inputs, log, validation, search, evidence>>

-----------------------------------------------------------------------------
(* PlanInCWM: the search. *)

Known(episodes) == UNION {{ObsAt(episodes[e], i) : i \in 0..Length(episodes[e])} : e \in 1..Len(episodes)}
(* Mutant: a limit counts as reached one too late. *)
ReachedLate(value, cap) == cap # None /\ value > cap
Reached(value, cap) == cap # None /\ value >= cap

(* planning_start: the live State, or the State of the first observation. *)
PlanFrom(state, obs) ==
  /\ phase = "explore"
  /\ IF single
     THEN obs = ObsAt(Live, Length(Live)) /\ LiveState(state)
     ELSE obs = log[1].first /\ state = model.initial[obs] /\ model.render[state] = obs
  /\ running' = IF single THEN [state |-> state, history |-> Live] ELSE running
  /\ nodes' = <<[state |-> state, obs |-> obs, parent |-> 0, action |-> None, depth |-> 0, novel |-> FALSE]>>
  /\ visited' = {<<state, FALSE>>}
  /\ phase' = "search"
  /\ UNCHANGED <<inputs, log, validation, cursor, choice, calls, best, reason, depthLimited, evidence>>

Searching == phase = "search" /\ cursor <= Len(nodes)
Node == nodes[cursor]
Expands == Searching /\ Node.obs \notin DoneObs /\ ~Reached(Node.depth, MaxDepth)
Tries == Expands /\ choice <= Len(ActionsFor[Node.obs])
Action == ActionsFor[Node.obs][choice]

NextNode == cursor' = cursor + 1 /\ choice' = 1
Stop(why) == reason' = why /\ phase' = "planned"
searchOnly == <<inputs, log, validation, running, evidence>>

SkipNode ==
  /\ Searching /\ ~Expands
  /\ depthLimited' = (depthLimited \/ Node.obs \notin DoneObs)
  /\ NextNode
  /\ UNCHANGED <<searchOnly, phase, nodes, visited, calls, best, reason>>

LeaveNode ==
  /\ Expands /\ ~Tries
  /\ NextNode
  /\ UNCHANGED <<searchOnly, phase, nodes, visited, calls, best, reason, depthLimited>>

(* A limit is found reached before the next action is tried, or, for the calls,
   between its step and its render.                                           *)
LimitStops ==
  /\ Tries
  /\ IF Reached(calls, MaxCalls) THEN Stop("max_cwm_calls") /\ UNCHANGED calls
     ELSE IF Reached(Len(nodes), MaxNodes) THEN Stop("max_nodes") /\ UNCHANGED calls
     ELSE Reached(calls + 1, MaxCalls) /\ Stop("max_cwm_calls") /\ calls' = calls + 1
  /\ UNCHANGED <<searchOnly, nodes, visited, cursor, choice, best, depthLimited>>

MayCall == Tries /\ ~Reached(calls + 1, MaxCalls) /\ ~Reached(Len(nodes), MaxNodes)
Successor == model.step[<<Node.state, Action>>]
Novel == Node.novel \/ model.render[Successor] \notin Known(log)
(* Mutant: a State is searched once, whether or not something new was met. *)
KeyOfState == <<Successor, FALSE>>
Key == <<Successor, Novel>>
Child == [state |-> Successor, obs |-> model.render[Successor], parent |-> cursor, action |-> Action,
          depth |-> Node.depth + 1, novel |-> Novel]

(* The deadline passes before an action, or in the step or the render. *)
TimeStops ==
  /\ Tries
  /\ \E made \in 0..2 : /\ made = 0 \/ ~Reached(calls + made - 1, MaxCalls)
                        /\ made = 0 \/ ~Reached(Len(nodes), MaxNodes)
                        /\ calls' = calls + made
  /\ Stop("max_seconds")
  /\ UNCHANGED <<searchOnly, nodes, visited, cursor, choice, best, depthLimited>>

SeenBefore ==
  /\ MayCall /\ Key \in visited
  /\ calls' = calls + 2 /\ choice' = choice + 1
  /\ UNCHANGED <<searchOnly, phase, nodes, visited, cursor, best, reason, depthLimited>>

MemoryStops ==
  /\ MayCall /\ Key \notin visited
  /\ calls' = calls + 2 /\ Stop("search_memory_limit")
  /\ UNCHANGED <<searchOnly, nodes, visited, cursor, choice, best, depthLimited>>

Store == /\ MayCall /\ Key \notin visited
         /\ calls' = calls + 2
         /\ nodes' = Append(nodes, Child) /\ visited' = visited \cup {Key}

(* The goal is asked about the stored node, and does not answer in time. *)
GoalTimesOut ==
  /\ Store /\ Stop("max_seconds")
  /\ UNCHANGED <<searchOnly, cursor, choice, best, depthLimited>>

(* Mutant: among equal utilities the last one found is kept. *)
BetterOrAsGood == Novel /\ (best = 0 \/ utility[Successor] >= utility[nodes[best].state])

(* The rank (utility, -depth) of the child against the best one so far. *)
Better ==
  LET u == utility[Successor]
      v == utility[nodes[best].state]
  IN Novel /\ (best = 0 \/ u > v \/ (u = v /\ Child.depth < nodes[best].depth))

FindNode ==
  /\ Store
  /\ best' = IF Better THEN Len(nodes) + 1 ELSE best
  /\ IF Better /\ utility[Successor] = UpperBound
     THEN Stop("utility_upper_bound") /\ UNCHANGED choice
     ELSE choice' = choice + 1 /\ UNCHANGED <<phase, reason>>
  /\ UNCHANGED <<searchOnly, cursor, depthLimited>>

(* A callback of the model or of the goal raises: no plan, an error record. *)
PlanFails ==
  /\ Tries /\ ~Reached(calls, MaxCalls) /\ ~Reached(Len(nodes), MaxNodes)
  /\ phase' = "over"
  /\ UNCHANGED <<searchOnly, search>>

Exhausted ==
  /\ phase = "search" /\ cursor > Len(nodes)
  /\ Stop(IF depthLimited THEN "max_depth" ELSE reason)
  /\ UNCHANGED <<searchOnly, nodes, visited, cursor, choice, calls, best, depthLimited>>

(* The plan that is written: the path to the best node. *)
OnPath(i, j) ==   \* is node i on the path to node j?
  LET back[k \in 0..Len(nodes)] == IF k = 0 THEN {} ELSE {k} \cup back[nodes[k].parent]
  IN i \in back[j]
Path == {i \in 2..Len(nodes) : OnPath(i, best)}
PlanAction(d) == nodes[CHOOSE i \in Path : nodes[i].depth = d].action
Plan == [d \in 1..Cardinality(Path) |-> PlanAction(d)]
OptimalityProven == reason \in {"utility_upper_bound", "frontier_exhausted"} /\ best # 0

-----------------------------------------------------------------------------
Next ==
  \/ \E state \in States : ReuseState(state)
  \/ ReuseFailure \/ Matches \/ Mismatch \/ EndEpisode \/ ValidationFails \/ FinishValidation
  \/ ResetReal \/ Resume \/ Refuted
  \/ \E state \in States, action \in Actions, obs \in Observations, judged \in BOOLEAN :
       RealStep(state, action, obs, judged)
  \/ \E state \in States, obs \in Observations : PlanFrom(state, obs)
  \/ SkipNode \/ LeaveNode \/ LimitStops \/ TimeStops \/ SeenBefore \/ MemoryStops
  \/ GoalTimesOut \/ FindNode \/ PlanFails \/ Exhausted

Spec == Init /\ [][Next]_vars
-----------------------------------------------------------------------------
(* The phases, the caches, the frontier and the limits keep their types and their ranges. *)
TypeOK ==
  /\ single \in BOOLEAN
  /\ phase \in {"validate", "explore", "search", "planned", "over"}
  /\ verdict \in {"none", "accepted", "rejected", "error"}
  /\ Len(log) \in Nat \ {0} /\ episode \in 1..(Len(log) + 1) /\ checked \in Nat
  /\ current \in States \cup {None} /\ (checked > 0 => current \in States)
  /\ failed \in BOOLEAN /\ depthLimited \in BOOLEAN /\ evidence \in 0..MaxEvidence
  /\ \A pair \in validated : pair[2] \in States /\ pair[1] \notin diverged
  /\ \A i \in 1..Len(nodes) :
       /\ nodes[i].state \in States /\ nodes[i].obs \in Observations /\ nodes[i].novel \in BOOLEAN
       /\ nodes[i].parent \in 0..(i - 1) /\ nodes[i].depth \in Nat
       /\ MaxDepth # None => nodes[i].depth <= MaxDepth
  /\ visited \subseteq States \X BOOLEAN
  /\ cursor \in 1..(Len(nodes) + 1) /\ choice \in Nat \ {0} /\ best \in 0..Len(nodes)
  /\ calls \in Nat /\ (MaxCalls # None => calls <= MaxCalls)
  /\ MaxNodes # None => Len(nodes) <= IF MaxNodes > 1 THEN MaxNodes ELSE 1

(* The verdict is that of replaying every recorded episode whole and from
   nothing, although validate() takes over the States and the failures of
   histories it has met, and leaves an episode at its first failure.         *)
VerdictTrue ==
  verdict \in {"accepted", "rejected"} /\ evidence = 0 =>
    (failed <=> \E e \in 1..Len(log) : \A state \in States : ~Explains(log[e], state))

(* The live State, carried over validation, runs, resets and resumes, is what
   the model computes from the first observation of the recorded history it
   stands for, and it explains every screen on the way.                      *)
LiveTrue ==
  running # None =>
    /\ Explains(running.history, running.state)
    /\ \E e \in 1..Len(log) : \E i \in 0..Length(log[e]) : Upto(log[e], i) = running.history

(* The plan that is written leads, action by action, through predictions that
   are not done to its endpoint and meets one that was never observed; and when
   it is called optimal, no shorter action list meets one and ends as well.   *)
Ends(start, actions) ==   \* the predicted States along an action list, if it can be followed
  {run \in [0..Len(actions) -> States] :
     /\ run[0] = start
     /\ \A d \in 1..Len(actions) :
          /\ model.render[run[d - 1]] \notin DoneObs
          /\ \E i \in 1..Len(ActionsFor[model.render[run[d - 1]]]) :
               actions[d] = ActionsFor[model.render[run[d - 1]]][i]
          /\ run[d] = model.step[<<run[d - 1], actions[d]>>]}
Eligible(run, d) == \E i \in 1..d : model.render[run[i]] \notin Known(log)
PlanTrue ==
  phase = "planned" /\ best # 0 =>
    /\ \E run \in Ends(nodes[1].state, Plan) :
         run[Len(Plan)] = nodes[best].state /\ Eligible(run, Len(Plan))
    /\ OptimalityProven =>
         \A d \in 1..(Len(Plan) - 1) : \A actions \in [1..d -> Actions] :
           \A run \in Ends(nodes[1].state, actions) :
             Eligible(run, d) => utility[run[d]] < utility[nodes[best].state]

(* The keys (State, was anything new met?) that a model can reach from a start,
   new being what is not in `known': what every set that holds the start and is
   closed under the steps of the model contains.                             *)
Keys == States \X BOOLEAN
KeyAfter(m, known, key, i) ==
  LET next == m.step[<<key[1], ActionsFor[m.render[key[1]]][i]>>]
  IN <<next, key[2] \/ m.render[next] \notin known>>
Successors(m, known, key) ==
  IF m.render[key[1]] \in DoneObs THEN {}
  ELSE {KeyAfter(m, known, key, i) : i \in 1..Len(ActionsFor[m.render[key[1]]])}
Closed(m, known, keys) == \A key \in keys : Successors(m, known, key) \subseteq keys
ReachableFrom(m, known, start) ==
  {key \in Keys : \A keys \in SUBSET Keys : start \in keys /\ Closed(m, known, keys) => key \in keys}
Start == <<nodes[1].state, FALSE>>
Reachable == ReachableFrom(model, Known(log), Start)

(* What the search says of its result holds of the whole model and not only of
   the nodes it stored: an optimal utility is reached, with something new on
   the way, and nothing eligible exceeds it; a search that ran out of frontier
   without a plan leaves nothing eligible to find.                           *)
ProvenOptimal ==
  phase = "planned" =>
    /\ OptimalityProven =>
         /\ <<nodes[best].state, TRUE>> \in Reachable
         /\ \A key \in Reachable : key[2] => utility[key[1]] <= utility[nodes[best].state]
    /\ reason = "frontier_exhausted" /\ best = 0 => \A key \in Reachable : ~key[2]
=============================================================================
