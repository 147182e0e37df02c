-------------------------- MODULE WorldModel_proofs --------------------------
(***************************************************************************)
(* What PlanInCWM says of its plans, and what validation says of a model,  *)
(* hold for every model, goal, record, action list and limit.              *)
(* What is reachable needs no induction: the keys the search has expanded  *)
(* are closed once its frontier is exhausted, and what is reachable is     *)
(* contained in every closed set.  Runs of a model and lines of parents are *)
(* compared by their first difference: a set of naturals has a least one.  *)
(***************************************************************************)
EXTENDS WorldModel, SequenceTheorems, FunctionTheorems, FiniteSetTheorems, TLAPS

Nodes == [state : States, obs : Observations, parent : Nat, action : Actions \cup {None},
          depth : Nat, novel : BOOLEAN]
Functions == [initial : [Observations -> States], step : [States \X Actions -> States],
              render : [States -> Observations]]
Ranges ==
  /\ model \in Functions /\ utility \in [States -> 0..UpperBound] /\ single \in BOOLEAN
  /\ log \in Seq(History) /\ log # <<>>
  /\ phase \in {"validate", "explore", "search", "planned", "over"}
  /\ episode \in Nat \ {0} /\ checked \in Nat
  /\ validated \subseteq History \X States
  /\ running = None \/ (running.state \in States /\ running.history \in History)
SearchRanges ==
  /\ nodes \in Seq(Nodes) /\ visited \subseteq Keys
  /\ cursor \in Nat \ {0} /\ cursor <= Len(nodes) + 1 /\ choice \in Nat \ {0}
  /\ best \in Nat /\ best <= Len(nodes) /\ calls \in Nat /\ depthLimited \in BOOLEAN

(* The States that are carried on render the screens they stand for. *)
Shown(state, h) == model.render[state] = ObsAt(h, Length(h))
CurrentShown ==
  phase = "validate" /\ episode <= Len(log) /\ checked > 0 =>
    /\ checked <= Length(log[episode]) + 1 /\ current \in States
    /\ model.render[current] = ObsAt(log[episode], checked - 1)
CachedShown == \A pair \in validated : Shown(pair[2], pair[1])
RunningShown == running = None \/ Shown(running.state, running.history)
Screens == CurrentShown /\ CachedShown /\ RunningShown

-----------------------------------------------------------------------------
(* Histories. *)

Entries == [action : Actions, obs : Observations]

LEMMA UptoFacts ==
  ASSUME NEW h \in History, NEW i \in 0..Length(h)
  PROVE  /\ Length(h) \in Nat /\ ObsAt(h, i) \in Observations
         /\ Upto(h, i) \in History /\ Length(Upto(h, i)) = i /\ ObsAt(Upto(h, i), i) = ObsAt(h, i)
<1>1. h.first \in Observations /\ h.steps \in Seq(Entries)
  BY DEF History, Entries
<1>2. Len(h.steps) \in Nat /\ i \in Nat /\ i <= Len(h.steps)
  BY <1>1 DEF Length
<1>3. \A j \in 1..i : h.steps[j] \in Entries
  BY <1>1, <1>2, ElementOfSeq
<1>4. /\ SubSeq(h.steps, 1, i) \in Seq(Entries)
      /\ Len(SubSeq(h.steps, 1, i)) = IF 1 <= i THEN i - 1 + 1 ELSE 0
      /\ \A j \in 1..(i - 1 + 1) : SubSeq(h.steps, 1, i)[j] = h.steps[1 + j - 1]
  BY <1>2, <1>3, SubSeqProperties
<1>5. Len(SubSeq(h.steps, 1, i)) = i /\ (i # 0 => SubSeq(h.steps, 1, i)[i] = h.steps[i])
  BY <1>2, <1>4
<1>6. ObsAt(h, i) \in Observations
  BY <1>1, <1>2, <1>3 DEF ObsAt, Entries
<1>7. QED
  BY <1>1, <1>2, <1>4, <1>5, <1>6 DEF Upto, Length, ObsAt, History, Entries

LEMMA LongerFacts ==
  ASSUME NEW h \in History, NEW action \in Actions, NEW obs \in Observations,
         NEW longer, longer = [h EXCEPT !.steps = Append(@, [action |-> action, obs |-> obs])]
  PROVE  longer \in History /\ Length(longer) = Length(h) + 1 /\ ObsAt(longer, Length(longer)) = obs
<1>1. h.first \in Observations /\ h.steps \in Seq([action : Actions, obs : Observations])
  BY DEF History
<1>2. longer = [first |-> h.first, steps |-> Append(h.steps, [action |-> action, obs |-> obs])]
  BY DEF History
<1>3. Len(h.steps) \in Nat /\ [action |-> action, obs |-> obs] \in [action : Actions, obs : Observations]
  BY <1>1
<1>4. /\ longer.first = h.first /\ longer.steps \in Seq([action : Actions, obs : Observations])
      /\ Len(longer.steps) = Len(h.steps) + 1
      /\ longer.steps[Len(h.steps) + 1] = [action |-> action, obs |-> obs]
  BY <1>1, <1>2, <1>3
<1>5. longer \in History /\ Length(longer) = Length(h) + 1
  BY <1>1, <1>2, <1>4 DEF History, Length
<1>6. QED
  BY <1>3, <1>4, <1>5 DEF Length, ObsAt

LEMMA LiveFacts ==
  ASSUME Ranges
  PROVE  /\ Live \in History /\ Len(log) \in Nat \ {0} /\ log[1] \in History
         /\ \A e \in 1..Len(log) : log[e] \in History /\ Length(log[e]) \in Nat
<1>1. Len(log) \in Nat \ {0} /\ \A e \in 1..Len(log) : log[e] \in History
  BY DEF Ranges
<1>2. \A h \in History : Length(h) \in Nat
  BY DEF History, Length
<1>3. QED
  BY <1>1, <1>2 DEF Live

(* A State that carries an episode to its end renders its last screen. *)
LEMMA CarriedShown ==
  ASSUME NEW h \in History, NEW k \in 0..Length(h), NEW run \in [k..Length(h) -> States],
         Carries(run, h, k), k = Length(h) => Shown(run[k], h)
  PROVE  run[Length(h)] \in States /\ Shown(run[Length(h)], h)
<1>1. Length(h) \in Nat /\ k \in Nat
  BY UptoFacts
<1>2. CASE k = Length(h)
  BY <1>1, <1>2 DEF Shown
<1>3. CASE k < Length(h)
  <2>1. Length(h) \in (k + 1)..Length(h) /\ Length(h) \in k..Length(h)
    BY <1>1, <1>3
  <2>2. model.render[run[Length(h)]] = ObsAt(h, Length(h))
    BY <2>1 DEF Carries
  <2>3. QED
    BY <2>1, <2>2 DEF Shown
<1>4. QED
  BY <1>1, <1>2, <1>3

LEMMA LiveShown ==
  ASSUME Ranges, Screens, NEW state, LiveState(state)
  PROVE  state \in States /\ Shown(state, Live)
<1>1. Live \in History /\ Length(Live) \in Nat
  BY LiveFacts DEF History, Length
<1>2. CASE Anchors # {}
  <2>1. PICK k \in Anchors : \E run \in [k..Length(Live) -> States] :
          run[k] = running.state /\ Carries(run, Live, k) /\ run[Length(Live)] = state
    BY <1>2 DEF LiveState
  <2>2. PICK run \in [k..Length(Live) -> States] :
          run[k] = running.state /\ Carries(run, Live, k) /\ run[Length(Live)] = state
    BY <2>1
  <2>3. running # None /\ k \in 0..Length(Live) /\ Upto(Live, k) = running.history
    BY <2>1 DEF Anchors
  <2>4. Shown(running.state, running.history)
    BY <2>3 DEF Screens, RunningShown
  <2>5. Length(running.history) = k /\ ObsAt(running.history, k) = ObsAt(Live, k)
    BY <1>1, <2>3, UptoFacts
  <2>6. k = Length(Live) => Shown(run[k], Live)
    BY <2>2, <2>4, <2>5 DEF Shown
  <2>7. QED
    BY <1>1, <2>2, <2>3, <2>6, CarriedShown
<1>3. CASE Anchors = {}
  <2>1. Explains(Live, state)
    BY <1>3 DEF LiveState
  <2>2. PICK run \in [0..Length(Live) -> States] :
          /\ run[0] = model.initial[Live.first] /\ model.render[run[0]] = Live.first
          /\ Carries(run, Live, 0) /\ run[Length(Live)] = state
    BY <2>1 DEF Explains
  <2>3. 0 = Length(Live) => Shown(run[0], Live)
    BY <2>2 DEF Shown, ObsAt
  <2>4. QED
    BY <1>1, <2>2, <2>3, CarriedShown
<1>4. QED
  BY <1>2, <1>3

-----------------------------------------------------------------------------
(* The steps before the search, and the steps of the search. *)

Replay == \/ \E state \in States : ReuseState(state)
          \/ ReuseFailure \/ Matches \/ Mismatch \/ EndEpisode \/ ValidationFails \/ FinishValidation
Explore == \/ ResetReal \/ Resume \/ Refuted
           \/ \E state \in States, action \in Actions, obs \in Observations, judged \in BOOLEAN :
                RealStep(state, action, obs, judged)
Plans == \E state \in States, obs \in Observations : PlanFrom(state, obs)
Search == \/ SkipNode \/ LeaveNode \/ LimitStops \/ TimeStops \/ SeenBefore \/ MemoryStops
          \/ GoalTimesOut \/ FindNode \/ PlanFails \/ Exhausted

LEMMA NextCases == Next => Replay \/ Explore \/ Plans \/ Search
BY DEF Next, Replay, Explore, Plans, Search

LEMMA ReplayFrame ==
  ASSUME Replay
  PROVE  /\ phase = "validate" /\ phase' \in {"validate", "explore", "over"}
         /\ UNCHANGED <<inputs, log, search, evidence>>
BY DEF Replay, ReuseState, ReuseFailure, Matches, Mismatch, EndEpisode, ValidationFails,
       FinishValidation, Unjudged, Judged

LEMMA ExploreFrame ==
  ASSUME Explore
  PROVE  /\ phase = "explore" /\ phase' \in {"explore", "over"}
         /\ UNCHANGED <<inputs, validation, search>>
BY DEF Explore, ResetReal, Resume, Refuted, RealStep, Recording

LEMMA SearchFrame ==
  ASSUME Search
  PROVE  /\ phase = "search" /\ phase' \in {"search", "planned", "over"}
         /\ UNCHANGED <<inputs, log, validation, running, evidence>>
BY DEF Search, SkipNode, LeaveNode, LimitStops, TimeStops, SeenBefore, MemoryStops, GoalTimesOut,
       FindNode, PlanFails, Exhausted, searchOnly, Searching, Expands, Tries, MayCall, Store, Stop

-----------------------------------------------------------------------------
(* Types and screens. *)

LEMMA ModelFacts ==
  ASSUME Ranges
  PROVE  /\ \A obs \in Observations : model.initial[obs] \in States
         /\ \A state \in States, action \in Actions : model.step[<<state, action>>] \in States
         /\ \A state \in States : model.render[state] \in Observations
BY DEF Ranges, Functions

LEMMA PredictedFacts ==
  ASSUME Ranges, Screens, Judged
  PROVE  /\ log[episode] \in History /\ checked \in 0..Length(log[episode]) /\ Predicted \in States
         /\ Here \in History /\ Length(Here) = checked
         /\ ObsAt(Here, checked) = ObsAt(log[episode], checked)
<1>1. log[episode] \in History /\ checked \in 0..Length(log[episode])
  BY LiveFacts DEF Judged, Ranges
<1>2. Here \in History /\ Length(Here) = checked /\ ObsAt(Here, checked) = ObsAt(log[episode], checked)
  BY <1>1, UptoFacts DEF Here
<1>3. ASSUME checked = 0 PROVE Predicted \in States
  <2>1. log[episode].first \in Observations /\ Predicted = model.initial[log[episode].first]
    BY <1>1, <1>3 DEF Predicted, History
  <2>2. QED
    BY <2>1, ModelFacts
<1>4. ASSUME checked # 0 PROVE Predicted \in States
  <2>1. log[episode].steps \in Seq(Entries) /\ checked \in 1..Len(log[episode].steps)
    BY <1>1, <1>4 DEF History, Entries, Length
  <2>2. log[episode].steps[checked] \in Entries
    BY <2>1, ElementOfSeq
  <2>3. log[episode].steps[checked].action \in Actions
    BY <2>2 DEF Entries
  <2>4. current \in States
    BY <1>1, <1>4 DEF Screens, CurrentShown, Judged
  <2>5. Predicted = model.step[<<current, log[episode].steps[checked].action>>]
    BY <1>4 DEF Predicted
  <2>6. QED
    BY <2>3, <2>4, <2>5, ModelFacts
<1>5. QED
  BY <1>1, <1>2, <1>3, <1>4

LEMMA InitRanges == Init => Ranges /\ Screens /\ SearchRanges
<1>1. SUFFICES ASSUME Init PROVE Ranges /\ Screens /\ SearchRanges
  OBVIOUS
<1>2. model \in Functions /\ utility \in [States -> 0..UpperBound] /\ log \in Seq(History) /\ log # <<>>
  BY <1>1, WorldModelAssumption DEF Init, Functions
<1>3. Ranges
  BY <1>1, <1>2 DEF Init, Ranges
<1>4. Screens
  BY <1>1 DEF Init, Screens, CurrentShown, CachedShown, RunningShown
<1>5. SearchRanges
  <2>1. nodes \in Seq(Nodes) /\ Len(nodes) = 0
    BY <1>1, EmptySeq DEF Init, NoNodes
  <2>2. visited = {} /\ cursor = 1 /\ choice = 1 /\ calls = 0 /\ best = 0
    BY <1>1 DEF Init
  <2>3. depthLimited \in BOOLEAN
    BY <1>1 DEF Init
  <2>4. QED
    BY <2>1, <2>2, <2>3 DEF SearchRanges
<1>6. QED
  BY <1>3, <1>4, <1>5

LEMMA ReplayRanges ==
  ASSUME Ranges, Screens, Replay
  PROVE  Ranges' /\ Screens'
<1>1. CASE \E state \in States : ReuseState(state)
  <2>1. PICK state \in States : ReuseState(state)
    BY <1>1
  <2>2. Judged /\ <<Here, state>> \in validated /\ phase = "validate"
    BY <2>1 DEF ReuseState, Judged
  <2>3. Ranges'
    BY <2>1 DEF Ranges, ReuseState, GoOn, inputs, search
  <2>4. Shown(state, Here)
    BY <2>2 DEF Screens, CachedShown
  <2>5. model.render[state] = ObsAt(log[episode], checked)
    BY <2>2, <2>4, PredictedFacts DEF Shown
  <2>6. checked' = checked + 1 /\ current' = state /\ checked \in Nat
    BY <2>1 DEF ReuseState, GoOn, Ranges
  <2>7. CurrentShown'
    <3>1. checked \in 0..Length(log[episode]) /\ Length(log[episode]) \in Nat /\ state \in States
      BY <2>2, PredictedFacts DEF Judged, History, Length
    <3>2. UNCHANGED <<model, log, episode>>
      BY <2>1 DEF ReuseState, GoOn, inputs
    <3>3. checked' <= Length(log[episode]) + 1 /\ checked' - 1 = checked
      BY <2>6, <3>1
    <3>4. QED
      BY <2>5, <2>6, <3>1, <3>2, <3>3 DEF CurrentShown
  <2>8. CachedShown' /\ RunningShown'
    BY <2>1 DEF Screens, CachedShown, RunningShown, ReuseState, GoOn, Shown, inputs
  <2>9. QED
    BY <2>3, <2>7, <2>8 DEF Screens
<1>2. CASE Matches
  <2>1. Judged /\ phase = "validate"
    BY <1>2 DEF Matches, Unjudged, Judged
  <2>2. Predicted \in States /\ Here \in History /\ Shown(Predicted, Here)
        /\ model.render[Predicted] = ObsAt(log[episode], checked)
    BY <1>2, <2>1, PredictedFacts DEF Matches, Shown
  <2>3. \A pair \in validated' : pair \in validated \/ pair = <<Here, Predicted>>
    BY <1>2 DEF Matches
  <2>4. Ranges'
    BY <1>2, <2>2, <2>3 DEF Ranges, Matches, GoOn, inputs, search
  <2>5. \A pair \in validated' : Shown(pair[2], pair[1])
    BY <2>2, <2>3 DEF Screens, CachedShown
  <2>6. checked' = checked + 1 /\ current' = Predicted /\ checked \in Nat
    BY <1>2 DEF Matches, GoOn, Ranges
  <2>7. CurrentShown'
    <3>1. checked \in 0..Length(log[episode]) /\ Length(log[episode]) \in Nat
      BY <2>1, PredictedFacts DEF Judged, History, Length
    <3>2. UNCHANGED <<model, log, episode>>
      BY <1>2 DEF Matches, GoOn, inputs
    <3>3. checked' <= Length(log[episode]) + 1 /\ checked' - 1 = checked
      BY <2>6, <3>1
    <3>4. QED
      BY <2>2, <2>6, <3>1, <3>2, <3>3 DEF CurrentShown
  <2>8. CachedShown'
    BY <1>2, <2>5 DEF CachedShown, Matches, Shown, inputs
  <2>9. RunningShown'
    BY <1>2 DEF Screens, RunningShown, Matches, Shown, inputs
  <2>10. QED
    BY <2>4, <2>7, <2>8, <2>9 DEF Screens
<1>3. CASE EndEpisode
  <2>1. Ranges /\ log[episode] \in History /\ checked > Length(log[episode]) /\ Length(log[episode]) \in Nat
        /\ phase = "validate" /\ episode <= Len(log)
    BY <1>3, LiveFacts DEF EndEpisode, Ranges
  <2>2. current \in States /\ Shown(current, log[episode])
    BY <2>1 DEF Screens, CurrentShown, Shown, Ranges
  <2>3. running' = running \/ running' = [state |-> current, history |-> log[episode]]
    BY <1>3 DEF EndEpisode
  <2>4. running' = None \/ (running'.state \in States /\ running'.history \in History)
    BY <2>1, <2>2, <2>3 DEF Ranges
  <2>5. running' = None \/ Shown(running'.state, running'.history)
    BY <2>2, <2>3 DEF Screens, RunningShown
  <2>6. Ranges'
    BY <1>3, <2>4 DEF Ranges, EndEpisode, LeaveEpisode, inputs, search
  <2>7. Screens'
    BY <1>3, <2>5 DEF Screens, CurrentShown, CachedShown, RunningShown, EndEpisode, LeaveEpisode, Shown, inputs
  <2>8. QED
    BY <2>6, <2>7
<1>4. CASE ReuseFailure \/ Mismatch
  <2>1. Ranges'
    BY <1>4 DEF Ranges, ReuseFailure, Mismatch, LeaveEpisode, inputs, search
  <2>2. Screens'
    BY <1>4 DEF Screens, CurrentShown, CachedShown, RunningShown, ReuseFailure, Mismatch, LeaveEpisode, Shown, inputs
  <2>3. QED
    BY <2>1, <2>2
<1>5. CASE ValidationFails \/ FinishValidation
  <2>1. Ranges'
    BY <1>5 DEF Ranges, ValidationFails, FinishValidation, inputs, search
  <2>2. Screens'
    BY <1>5 DEF Screens, CurrentShown, CachedShown, RunningShown, ValidationFails, FinishValidation, Shown, inputs
  <2>3. QED
    BY <2>1, <2>2
<1>6. QED
  BY <1>1, <1>2, <1>3, <1>4, <1>5 DEF Replay

LEMMA ExploreRanges ==
  ASSUME Ranges, Screens, Explore
  PROVE  Ranges' /\ Screens'
<1>1. CASE ResetReal
  <2>1. PICK first \in Observations : log' = Append(log, [first |-> first, steps |-> <<>>])
    BY <1>1 DEF ResetReal, Grow
  <2>2. [first |-> first, steps |-> <<>>] \in History
    BY DEF History
  <2>3. log' \in Seq(History) /\ log' # <<>>
    BY <2>1, <2>2, AppendProperties DEF Ranges
  <2>4. Ranges'
    BY <1>1, <2>3 DEF Ranges, ResetReal, inputs, validation, search
  <2>5. Screens'
    BY <1>1 DEF Screens, CurrentShown, CachedShown, RunningShown, ResetReal, Recording, Shown, inputs, validation
  <2>6. QED
    BY <2>4, <2>5
<1>2. CASE Resume \/ Refuted
  <2>1. Ranges'
    BY <1>2 DEF Ranges, Resume, Refuted, inputs, validation, search
  <2>2. Screens'
    BY <1>2 DEF Screens, CurrentShown, CachedShown, RunningShown, Resume, Refuted, Shown, inputs, validation
  <2>3. QED
    BY <2>1, <2>2
<1>3. ASSUME NEW state \in States, NEW action \in Actions, NEW obs \in Observations, NEW judged \in BOOLEAN,
             RealStep(state, action, obs, judged)
      PROVE  Ranges' /\ Screens'
  <2> DEFINE longer == [Live EXCEPT !.steps = Append(@, [action |-> action, obs |-> obs])]
             next == model.step[<<state, action>>]
  <2>1. longer \in History /\ ObsAt(longer, Length(longer)) = obs /\ next \in States
    BY LiveFacts, LongerFacts, ModelFacts
  <2>2. log' = [log EXCEPT ![Len(log)] = longer]
    BY <1>3 DEF RealStep, Grow
  <2>3. running' = None \/ (running' = [state |-> next, history |-> longer] /\ model.render[next] = obs)
    BY <1>3 DEF RealStep
  <2>4. phase = "explore" /\ phase' \in {"explore", "over"} /\ UNCHANGED <<inputs, validation, search>>
    BY <1>3, ExploreFrame DEF Explore
  <2> HIDE DEF longer, next
  <2>5. log' \in Seq(History) /\ log' # <<>>
    BY <2>1, <2>2 DEF Ranges
  <2>6. Ranges'
    BY <2>1, <2>3, <2>4, <2>5 DEF Ranges, inputs, validation, search
  <2>7. RunningShown'
    <3>1. CASE running' = None
      BY <3>1 DEF RunningShown
    <3>2. CASE running' = [state |-> next, history |-> longer] /\ model.render[next] = obs
      <4>1. running'.state = next /\ running'.history = longer /\ model' = model
        BY <2>4, <3>2 DEF inputs
      <4>2. QED
        BY <2>1, <3>2, <4>1 DEF RunningShown, Shown
    <3>3. QED
      BY <2>3, <3>1, <3>2
  <2>8. Screens'
    BY <2>4, <2>7, SMTT(30) DEF Screens, CurrentShown, CachedShown, Shown, inputs, validation
  <2>9. QED
    BY <2>6, <2>8
<1>4. QED
  BY <1>1, <1>2, <1>3 DEF Explore

-----------------------------------------------------------------------------
(* The keys that a model can reach. *)

LEMMA SuccessorsTyped ==
  ASSUME NEW m \in Functions, NEW known, NEW key \in Keys,
         NEW i \in 1..Len(ActionsFor[m.render[key[1]]])
  PROVE  KeyAfter(m, known, key, i) \in Keys
<1>1. key[1] \in States /\ key[2] \in BOOLEAN
  BY DEF Keys
<1>2. m.render[key[1]] \in Observations
  BY <1>1 DEF Functions
<1>3. ActionsFor[m.render[key[1]]] \in Seq(Actions)
  BY <1>2, WorldModelAssumption
<1>4. ActionsFor[m.render[key[1]]][i] \in Actions
  BY <1>3, ElementOfSeq
<1>5. m.step[<<key[1], ActionsFor[m.render[key[1]]][i]>>] \in States
  BY <1>1, <1>4 DEF Functions
<1>6. (key[2] \/ m.render[m.step[<<key[1], ActionsFor[m.render[key[1]]][i]>>]] \notin known) \in BOOLEAN
  OBVIOUS
<1>7. QED
  BY <1>5, <1>6 DEF KeyAfter, Keys

(* The start is reachable. *)
LEMMA StartReached ==
  ASSUME NEW m \in Functions, NEW known, NEW start \in Keys
  PROVE  start \in ReachableFrom(m, known, start)
BY DEF ReachableFrom

(* And so is what comes after a reachable key. *)
LEMMA StepReached ==
  ASSUME NEW m \in Functions, NEW known, NEW start \in Keys, NEW key \in ReachableFrom(m, known, start),
         m.render[key[1]] \notin DoneObs, NEW i \in 1..Len(ActionsFor[m.render[key[1]]])
  PROVE  KeyAfter(m, known, key, i) \in ReachableFrom(m, known, start)
<1>1. key \in Keys
  BY DEF ReachableFrom
<1>2. KeyAfter(m, known, key, i) \in Successors(m, known, key)
  BY DEF Successors
<1>3. ASSUME NEW keys \in SUBSET Keys, start \in keys, Closed(m, known, keys)
      PROVE  KeyAfter(m, known, key, i) \in keys
  <2>1. key \in keys
    BY <1>3 DEF ReachableFrom
  <2>2. QED
    BY <1>2, <1>3, <2>1 DEF Closed
<1>4. QED
  BY <1>1, <1>3, SuccessorsTyped DEF ReachableFrom

(* Nothing is reachable outside a closed set that holds the start. *)
LEMMA ReachedWithin ==
  ASSUME NEW m, NEW known, NEW start, NEW keys \in SUBSET Keys, start \in keys, Closed(m, known, keys)
  PROVE  ReachableFrom(m, known, start) \subseteq keys
BY DEF ReachableFrom

-----------------------------------------------------------------------------
(* What the search knows. *)

NodeKey(i) == <<nodes[i].state, nodes[i].novel>>
After(i, j) == KeyAfter(model, Known(log), NodeKey(i), j)
Fan(i) == Len(ActionsFor[nodes[i].obs])
Expanded(i) == nodes[i].obs \in DoneObs \/ \A j \in 1..Fan(i) : After(i, j) \in visited

(* Before a plan is asked for, the search has no state. *)
IdleInv ==
  phase \in {"validate", "explore"} =>
    /\ nodes = <<>> /\ visited = {} /\ cursor = 1 /\ choice = 1 /\ best = 0
    /\ reason = "frontier_exhausted" /\ depthLimited = FALSE

(* The nodes are reachable, each key seen is a node's, and what the cursor has
   passed is expanded into keys seen, unless it was too deep.                *)
NodesInv ==
  phase \in {"search", "planned"} =>
    /\ Len(nodes) >= 1 /\ nodes[1].novel = FALSE
    /\ \A i \in 1..Len(nodes) : nodes[i].obs = model.render[nodes[i].state]
    /\ \A i \in 1..Len(nodes) : NodeKey(i) \in Reachable
SeenInv ==
  phase \in {"search", "planned"} =>
    /\ \A i \in 1..Len(nodes) : NodeKey(i) \in visited
    /\ \A key \in visited : \E i \in 1..Len(nodes) : key = NodeKey(i)
FrontierInv ==
  phase \in {"search", "planned"} =>
    /\ depthLimited = FALSE => \A i \in 1..Len(nodes) : i < cursor => Expanded(i)
    /\ cursor <= Len(nodes) => \A j \in 1..Fan(cursor) : j < choice => After(cursor, j) \in visited

(* Every node was ranked, unless the goal did not answer; the search stops for
   the reason it gives.                                                      *)
RankInv ==
  phase \in {"search", "planned"} =>
    /\ best # 0 => nodes[best].novel = TRUE
    /\ reason # "max_seconds" =>
         \A i \in 1..Len(nodes) : nodes[i].novel = TRUE =>
           best # 0 /\ utility[nodes[i].state] <= utility[nodes[best].state]
ReasonInv ==
  /\ phase = "search" => reason = "frontier_exhausted"
  /\ phase = "planned" /\ reason = "frontier_exhausted" => cursor > Len(nodes) /\ depthLimited = FALSE
  /\ phase = "planned" /\ reason = "utility_upper_bound" =>
       best # 0 /\ utility[nodes[best].state] = UpperBound

SearchInv == IdleInv /\ NodesInv /\ SeenInv /\ FrontierInv /\ RankInv /\ ReasonInv
ModelInv == Ranges /\ Screens /\ SearchRanges /\ SearchInv

(* The invariant says what the search claims. *)
LEMMA InvImpliesOptimal == ModelInv => ProvenOptimal
<1>1. SUFFICES ASSUME ModelInv, phase = "planned"
               PROVE  /\ OptimalityProven =>
                           /\ <<nodes[best].state, TRUE>> \in Reachable
                           /\ \A key \in Reachable : key[2] => utility[key[1]] <= utility[nodes[best].state]
                      /\ reason = "frontier_exhausted" /\ best = 0 => \A key \in Reachable : ~key[2]
  BY DEF ProvenOptimal
<1>2. /\ Ranges /\ SearchRanges /\ NodesInv /\ SeenInv /\ FrontierInv /\ RankInv /\ ReasonInv
      /\ Len(nodes) \in Nat
  BY <1>1 DEF ModelInv, SearchInv, SearchRanges
<1>3. best # 0 => <<nodes[best].state, TRUE>> \in Reachable /\ nodes[best].state \in States
  <2>1. best # 0 => best \in 1..Len(nodes) /\ nodes[best].novel = TRUE
    BY <1>1, <1>2 DEF SearchRanges, RankInv
  <2>2. \A i \in 1..Len(nodes) : nodes[i] \in Nodes
    BY <1>2, ElementOfSeq DEF SearchRanges
  <2>3. QED
    BY <1>1, <1>2, <2>1, <2>2 DEF NodesInv, NodeKey, Nodes
<1>4. ASSUME reason = "frontier_exhausted"
      PROVE  \A key \in Reachable : key[2] =>
               best # 0 /\ utility[key[1]] <= utility[nodes[best].state]
  <2>1. cursor > Len(nodes) /\ depthLimited = FALSE /\ cursor \in Nat
    BY <1>1, <1>2, <1>4 DEF ReasonInv, SearchRanges
  <2>2. \A i \in 1..Len(nodes) : Expanded(i) /\ nodes[i].obs = model.render[nodes[i].state]
    BY <1>1, <1>2, <2>1 DEF FrontierInv, NodesInv
  <2>3. ASSUME NEW key \in visited PROVE Successors(model, Known(log), key) \subseteq visited
    <3>1. PICK i \in 1..Len(nodes) : key = NodeKey(i)
      BY <1>1, <1>2 DEF SeenInv
    <3>2. key[1] = nodes[i].state
      BY <3>1 DEF NodeKey
    <3>3. QED
      BY <2>2, <3>1, <3>2 DEF Expanded, Successors, Fan, After
  <2>4. Closed(model, Known(log), visited)
    BY <2>3 DEF Closed
  <2>5. Start \in visited
    <3>1. nodes[1].novel = FALSE /\ NodeKey(1) \in visited
      BY <1>1, <1>2 DEF NodesInv, SeenInv
    <3>2. NodeKey(1) = Start
      BY <3>1, Zenon DEF NodeKey, Start
    <3>3. QED
      BY <3>1, <3>2
  <2>6. Reachable \subseteq visited
    BY <1>2, <2>4, <2>5, ReachedWithin DEF Reachable, SearchRanges
  <2>7. ASSUME NEW key \in visited, key[2]
        PROVE  best # 0 /\ utility[key[1]] <= utility[nodes[best].state]
    <3>1. PICK i \in 1..Len(nodes) : key = NodeKey(i)
      BY <1>1, <1>2 DEF SeenInv
    <3>2. key[1] = nodes[i].state /\ key[2] = nodes[i].novel
      BY <3>1 DEF NodeKey
    <3>3. nodes[i] \in Nodes
      BY <1>2, ElementOfSeq DEF SearchRanges
    <3>4. nodes[i].novel \in BOOLEAN
      BY <3>3 DEF Nodes
    <3>5. nodes[i].novel = TRUE
      BY <2>7, <3>2, <3>4
    <3>6. QED
      BY <1>1, <1>2, <1>4, <3>2, <3>5 DEF RankInv
  <2>8. QED
    BY <2>6, <2>7
<1>5. ASSUME reason = "utility_upper_bound", NEW key \in Reachable
      PROVE  utility[key[1]] <= utility[nodes[best].state]
  <2>1. key[1] \in States
    BY DEF Reachable, ReachableFrom, Keys
  <2>2. utility[key[1]] \in 0..UpperBound /\ utility[nodes[best].state] = UpperBound
    BY <1>1, <1>2, <1>5, <2>1 DEF Ranges, ReasonInv
  <2>3. QED
    BY <2>2, WorldModelAssumption
<1>6. QED
  BY <1>3, <1>4, <1>5 DEF OptimalityProven

-----------------------------------------------------------------------------
(* A plan is asked for: the search starts at a State that renders its screen. *)

LEMMA PlansStep ==
  ASSUME Ranges, Screens, SearchRanges, IdleInv, Plans
  PROVE  ModelInv'
<1>1. PICK state \in States, obs \in Observations : PlanFrom(state, obs)
  BY DEF Plans
<1>2. model.render[state] = obs
  <2>1. CASE single
    BY <1>1, <2>1, LiveShown DEF PlanFrom, Shown
  <2>2. CASE ~single
    BY <1>1, <2>2 DEF PlanFrom
  <2>3. QED
    BY <2>1, <2>2
<1>3. UNCHANGED <<inputs, log, validation, cursor, choice, calls, best, reason, depthLimited>>
      /\ phase = "explore" /\ phase' = "search"
  BY <1>1 DEF PlanFrom
<1>4. /\ nodes = <<>> /\ visited = {} /\ cursor' = 1 /\ choice' = 1 /\ best' = 0
      /\ reason' = "frontier_exhausted" /\ depthLimited' = FALSE
  BY <1>3 DEF IdleInv
<1>5. running' = running \/ (single /\ running' = [state |-> state, history |-> Live])
  BY <1>1 DEF PlanFrom
<1>6. Ranges'
  BY <1>3, <1>5, LiveFacts DEF Ranges, inputs, validation
<1>7. Screens'
  <2>1. CASE running' = running
    BY <1>3, <2>1 DEF Screens, CurrentShown, CachedShown, RunningShown, Shown, inputs, validation
  <2>2. CASE single /\ running' = [state |-> state, history |-> Live]
    <3>1. Shown(state, Live)
      BY <1>1, <2>2, LiveShown DEF PlanFrom
    <3>2. running'.state = state /\ running'.history = Live /\ model' = model
      BY <1>3, <2>2 DEF inputs
    <3>3. RunningShown'
      BY <3>1, <3>2 DEF RunningShown, Shown
    <3>4. QED
      BY <1>3, <3>3 DEF Screens, CurrentShown, CachedShown, Shown, inputs, validation
  <2>3. QED
    BY <1>5, <2>1, <2>2
<1> DEFINE first == [state |-> state, obs |-> obs, parent |-> 0, action |-> None, depth |-> 0, novel |-> FALSE]
<1>8. nodes' = <<first>> /\ visited' = {<<state, FALSE>>}
  BY <1>1 DEF PlanFrom
<1>9. first \in Nodes /\ first.state = state /\ first.obs = obs /\ first.novel = FALSE
  BY DEF Nodes
<1> HIDE DEF first
<1>10. nodes' \in Seq(Nodes) /\ Len(nodes') = 1 /\ nodes'[1] = first
  BY <1>8, <1>9
<1>11. <<state, FALSE>> \in Keys
  BY DEF Keys
<1>12. SearchRanges'
  BY <1>3, <1>4, <1>8, <1>10, <1>11 DEF SearchRanges
<1>13. NodeKey(1)' = <<state, FALSE>> /\ Start' = <<state, FALSE>>
  BY <1>9, <1>10 DEF NodeKey, Start
<1>14. NodesInv'
  <2>1. model \in Functions /\ model' = model
    BY <1>3 DEF Ranges, inputs
  <2>2. NodeKey(1)' \in Reachable'
    BY <1>11, <1>13, <2>1, StartReached DEF Reachable
  <2>3. nodes'[1].novel = FALSE /\ nodes'[1].obs = model'.render[nodes'[1].state]
    BY <1>2, <1>9, <1>10, <2>1
  <2>4. QED
    BY <1>10, <2>2, <2>3 DEF NodesInv
<1>15. SeenInv'
  <2>1. \A i \in 1..Len(nodes') : i = 1
    BY <1>10
  <2>2. 1 \in 1..Len(nodes')
    BY <1>10
  <2>3. \A i \in 1..Len(nodes') : NodeKey(i)' \in visited'
    BY <1>8, <1>13, <2>1
  <2>4. \A key \in visited' : \E i \in 1..Len(nodes') : key = NodeKey(i)'
    BY <1>8, <1>13, <2>2
  <2>5. QED
    BY <2>3, <2>4 DEF SeenInv
<1>16. FrontierInv'
  <2>1. cursor' = 1 /\ choice' = 1
    BY <1>4
  <2>2. QED
    BY <1>10, <2>1 DEF FrontierInv, Fan
<1>17. RankInv'
  <2>1. best' = 0 /\ \A i \in 1..Len(nodes') : nodes'[i].novel = FALSE
    BY <1>4, <1>9, <1>10
  <2>2. QED
    BY <2>1, Zenon DEF RankInv
<1>18. ReasonInv' /\ IdleInv'
  BY <1>3, <1>4 DEF ReasonInv, IdleInv
<1>19. QED
  BY <1>6, <1>7, <1>12, <1>14, <1>15, <1>16, <1>17, <1>18 DEF ModelInv, SearchInv

-----------------------------------------------------------------------------
(* The steps of the search. *)

(* The child that is looked at is what comes after the node by that action. *)
LEMMA ChildFacts ==
  ASSUME Ranges, SearchRanges, NodesInv, Tries
  PROVE  /\ phase = "search" /\ cursor \in 1..Len(nodes) /\ Len(nodes) \in Nat
         /\ Node \in Nodes /\ Node = nodes[cursor] /\ Node.obs \notin DoneObs
         /\ choice \in 1..Fan(cursor)
         /\ Key = After(cursor, choice) /\ Key \in Keys /\ Key \in Reachable
         /\ Child \in Nodes /\ Child.state = Successor /\ Child.novel = Novel
         /\ Child.obs = model.render[Child.state] /\ Novel \in BOOLEAN
<1>1. /\ phase = "search" /\ cursor \in 1..Len(nodes) /\ Len(nodes) \in Nat
      /\ Node = nodes[cursor] /\ Node.obs \notin DoneObs
  BY DEF Tries, Expands, Searching, Node, SearchRanges
<1>2. Node \in Nodes
  BY <1>1, ElementOfSeq DEF SearchRanges
<1>3. Node.state \in States /\ Node.obs \in Observations /\ Node.depth \in Nat
  BY <1>2 DEF Nodes
<1>4. choice \in 1..Fan(cursor)
  BY <1>1 DEF Tries, Fan, SearchRanges
<1>5. ActionsFor[Node.obs] \in Seq(Actions)
  BY <1>3, WorldModelAssumption
<1>6. Action \in Actions
  BY <1>1, <1>4, <1>5, ElementOfSeq DEF Action, Fan
<1>7. Successor \in States /\ model.render[Successor] \in Observations
  BY <1>3, <1>6, ModelFacts DEF Successor
<1>8. Novel \in BOOLEAN
  BY <1>2 DEF Novel, Nodes
<1>9. Node.obs = model.render[Node.state] /\ NodeKey(cursor) \in Reachable /\ NodeKey(cursor)[1] = Node.state
      /\ NodeKey(cursor)[2] = Node.novel
  BY <1>1 DEF NodesInv, NodeKey
<1>10. Key = After(cursor, choice)
  BY <1>9 DEF Key, After, KeyAfter, Successor, Novel, Action
<1>11. Key \in Reachable
  <2>1. model \in Functions /\ Start \in Keys
    <3>1. 1 \in 1..Len(nodes)
      BY <1>1
    <3>2. nodes[1] \in Nodes
      BY <3>1, ElementOfSeq DEF SearchRanges
    <3>3. QED
      BY <3>2 DEF Ranges, Start, Keys, Nodes
  <2>2. NodeKey(cursor) \in ReachableFrom(model, Known(log), Start)
    BY <1>9 DEF Reachable
  <2>3. model.render[NodeKey(cursor)[1]] \notin DoneObs
        /\ choice \in 1..Len(ActionsFor[model.render[NodeKey(cursor)[1]]])
    BY <1>1, <1>4, <1>9 DEF Fan
  <2>4. KeyAfter(model, Known(log), NodeKey(cursor), choice) \in ReachableFrom(model, Known(log), Start)
    BY <2>1, <2>2, <2>3, StepReached
  <2>5. QED
    BY <1>10, <2>4 DEF After, Reachable
<1>12. Key \in Keys
  BY <1>11 DEF Reachable, ReachableFrom
<1>13. /\ Child.state = Successor /\ Child.novel = Novel /\ Child.obs = model.render[Child.state]
       /\ Child.parent = cursor /\ Child.action = Action /\ Child.depth = Node.depth + 1
  BY DEF Child
<1>14. Child \in Nodes
  BY <1>1, <1>3, <1>6, <1>7, <1>8, <1>13 DEF Child, Nodes
<1>15. QED
  BY <1>1, <1>2, <1>4, <1>8, <1>10, <1>11, <1>12, <1>13, <1>14

Stops == LimitStops \/ TimeStops \/ MemoryStops
LEMMA StopsFacts ==
  ASSUME SearchRanges, Stops
  PROVE  /\ phase' = "planned"
         /\ reason' \in {"max_cwm_calls", "max_nodes", "max_seconds", "search_memory_limit"}
         /\ UNCHANGED <<nodes, visited, cursor, choice, best, depthLimited>> /\ calls' \in Nat
BY DEF Stops, LimitStops, TimeStops, MemoryStops, Stop, SearchRanges

(* What a stored child changes. *)
LEMMA StoreFacts ==
  ASSUME Ranges, SearchRanges, NodesInv, Store
  PROVE  /\ Tries /\ nodes' = Append(nodes, Child) /\ visited' = visited \cup {Key} /\ calls' = calls + 2
         /\ nodes' \in Seq(Nodes) /\ Len(nodes') = Len(nodes) + 1
         /\ \A i \in 1..Len(nodes) : nodes'[i] = nodes[i]
         /\ nodes'[Len(nodes) + 1] = Child
<1>1. Tries /\ nodes' = Append(nodes, Child) /\ visited' = visited \cup {Key} /\ calls' = calls + 2
  BY DEF Store, MayCall
<1>2. Child \in Nodes /\ nodes \in Seq(Nodes)
  BY <1>1, ChildFacts DEF SearchRanges
<1>3. QED
  BY <1>1, <1>2, AppendProperties

LEMMA SearchRangesStep ==
  ASSUME Ranges, SearchRanges, NodesInv, Search
  PROVE  Ranges' /\ SearchRanges'
<1>1. Ranges'
  BY SearchFrame DEF Ranges, inputs, validation
<1>2. CASE SkipNode \/ LeaveNode
  <2>1. cursor <= Len(nodes) /\ cursor' = cursor + 1 /\ choice' = 1
        /\ UNCHANGED <<nodes, visited, calls, best>>
    BY <1>2 DEF SkipNode, LeaveNode, NextNode, Searching, Expands
  <2>2. depthLimited' \in BOOLEAN
    BY <1>2 DEF SkipNode, LeaveNode, SearchRanges
  <2>3. QED
    BY <1>1, <2>1, <2>2 DEF SearchRanges
<1>3. CASE Stops
  BY <1>1, <1>3, StopsFacts DEF SearchRanges
<1>4. CASE SeenBefore
  BY <1>1, <1>4 DEF SearchRanges, SeenBefore
<1>5. CASE Store /\ (GoalTimesOut \/ FindNode)
  <2>1. /\ nodes' \in Seq(Nodes) /\ Len(nodes') = Len(nodes) + 1 /\ visited' \subseteq Keys /\ calls' = calls + 2
        /\ Len(nodes) \in Nat
    BY <1>5, StoreFacts, ChildFacts DEF SearchRanges
  <2>2. cursor' = cursor /\ choice' \in {choice, choice + 1} /\ depthLimited' = depthLimited
    BY <1>5 DEF GoalTimesOut, FindNode
  <2>3. best' \in {best, Len(nodes) + 1}
    BY <1>5 DEF GoalTimesOut, FindNode
  <2>4. QED
    BY <1>1, <2>1, <2>2, <2>3 DEF SearchRanges
<1>6. CASE PlanFails \/ Exhausted
  BY <1>1, <1>6 DEF SearchRanges, PlanFails, Exhausted, search
<1>7. QED
  BY <1>2, <1>3, <1>4, <1>5, <1>6 DEF Search, Stops, GoalTimesOut, FindNode

(* What is reachable stays what it is while the search goes on. *)
LEMMA ReachableKept ==
  ASSUME Ranges, SearchRanges, NodesInv, Search
  PROVE  /\ Reachable' = Reachable /\ model' = model /\ Known(log)' = Known(log)
         /\ \A i \in 1..Len(nodes) : NodeKey(i)' = NodeKey(i) /\ nodes'[i] = nodes[i]
<1>1. phase = "search" /\ model' = model /\ log' = log
  BY SearchFrame DEF inputs
<1>2. 1 \in 1..Len(nodes)
  BY <1>1 DEF NodesInv, SearchRanges
<1>3. nodes' = nodes \/ Store
  BY DEF Search, SkipNode, LeaveNode, LimitStops, TimeStops, SeenBefore, MemoryStops, GoalTimesOut,
         FindNode, PlanFails, Exhausted, search
<1>4. \A i \in 1..Len(nodes) : nodes'[i] = nodes[i]
  BY <1>3, StoreFacts
<1>5. Start' = Start
  BY <1>2, <1>4 DEF Start
<1>6. Known(log)' = Known(log)
  BY <1>1
<1>7. QED
  BY <1>1, <1>4, <1>5, <1>6 DEF Reachable, NodeKey

(* A step either leaves nodes and keys alone or stores the child. *)
LEMMA StoredOrSame ==
  ASSUME Search
  PROVE  Store \/ (nodes' = nodes /\ visited' = visited)
BY DEF Search, SkipNode, LeaveNode, LimitStops, TimeStops, SeenBefore, MemoryStops, GoalTimesOut,
       FindNode, PlanFails, Exhausted, search

LEMMA NodesStep ==
  ASSUME Ranges, SearchRanges, NodesInv, Search
  PROVE  NodesInv'
<1>1. Len(nodes) \in Nat /\ Len(nodes) >= 1 /\ nodes[1].novel = FALSE
  BY SearchFrame DEF NodesInv, SearchRanges
<1>2. \A i \in 1..Len(nodes) : /\ nodes'[i].obs = model'.render[nodes'[i].state]
                               /\ NodeKey(i)' \in Reachable'
  BY ReachableKept, SearchFrame DEF NodesInv
<1>3. CASE nodes' = nodes
  BY <1>1, <1>2, <1>3 DEF NodesInv
<1>4. CASE Store
  <2>1. Len(nodes') = Len(nodes) + 1 /\ nodes'[Len(nodes) + 1] = Child /\ nodes'[1] = nodes[1]
    BY <1>1, <1>4, StoreFacts
  <2>2. Tries
    BY <1>4, StoreFacts
  <2>3. ASSUME NEW n, n = Len(nodes) + 1 PROVE nodes'[n].obs = model'.render[nodes'[n].state]
    BY <2>1, <2>2, <2>3, ChildFacts, ReachableKept
  <2>4. ASSUME NEW n, n = Len(nodes) + 1 PROVE NodeKey(n)' = Key
    <3>1. nodes'[n] = Child
      BY <2>1, <2>4
    <3>2. Child.state = Successor /\ Child.novel = Novel
      BY <2>2, ChildFacts
    <3>3. QED
      BY <3>1, <3>2, Zenon DEF Key, NodeKey
  <2>5. Key \in Reachable'
    BY <2>2, ChildFacts, ReachableKept
  <2>6. \A i \in 1..Len(nodes') : i \in 1..Len(nodes) \/ i = Len(nodes) + 1
    BY <1>1, <2>1
  <2>7. \A i \in 1..Len(nodes') : nodes'[i].obs = model'.render[nodes'[i].state] /\ NodeKey(i)' \in Reachable'
    BY <1>2, <2>3, <2>4, <2>5, <2>6
  <2>8. QED
    BY <1>1, <2>1, <2>7 DEF NodesInv
<1>5. QED
  BY <1>3, <1>4, StoredOrSame

LEMMA SeenStep ==
  ASSUME Ranges, SearchRanges, NodesInv, SeenInv, Search
  PROVE  SeenInv'
<1>1. /\ \A i \in 1..Len(nodes) : NodeKey(i) \in visited /\ NodeKey(i)' = NodeKey(i)
      /\ \A key \in visited : \E i \in 1..Len(nodes) : key = NodeKey(i)
      /\ Len(nodes) \in Nat
  BY SearchFrame, ReachableKept DEF SeenInv, SearchRanges
<1>2. CASE nodes' = nodes /\ visited' = visited
  BY <1>1, <1>2 DEF SeenInv
<1>3. CASE Store
  <2>1. Len(nodes') = Len(nodes) + 1 /\ nodes'[Len(nodes) + 1] = Child /\ visited' = visited \cup {Key} /\ Tries
    BY <1>3, StoreFacts
  <2>2. ASSUME NEW n, n = Len(nodes) + 1 PROVE NodeKey(n)' = Key
    <3>1. nodes'[n] = Child
      BY <2>1, <2>2
    <3>2. Child.state = Successor /\ Child.novel = Novel
      BY <2>1, ChildFacts
    <3>3. QED
      BY <3>1, <3>2, Zenon DEF Key, NodeKey
  <2>3. \A i \in 1..Len(nodes') : i \in 1..Len(nodes) \/ i = Len(nodes) + 1
    BY <1>1, <2>1
  <2>4. \A i : i \in 1..Len(nodes) \/ i = Len(nodes) + 1 => i \in 1..Len(nodes')
    BY <1>1, <2>1
  <2>5. \A i \in 1..Len(nodes') : NodeKey(i)' \in visited'
    BY <1>1, <2>1, <2>2, <2>3
  <2>6. \A key \in visited' : \E i \in 1..Len(nodes') : key = NodeKey(i)'
    BY <1>1, <2>1, <2>2, <2>4
  <2>7. QED
    BY <2>5, <2>6 DEF SeenInv
<1>4. QED
  BY <1>2, <1>3, StoredOrSame

(* The keys after the nodes passed stay what they are, and stay seen. *)
LEMMA ExpandedKept ==
  ASSUME Ranges, SearchRanges, NodesInv, Search
  PROVE  /\ Len(nodes) \in Nat
         /\ Len(nodes') = Len(nodes) \/ Len(nodes') = Len(nodes) + 1
         /\ \A i \in 1..Len(nodes) : Fan(i)' = Fan(i) /\ \A j : After(i, j)' = After(i, j)
         /\ \A i \in 1..Len(nodes) : Expanded(i) => Expanded(i)'
<1>1. visited \subseteq visited' /\ Len(nodes) \in Nat /\ (Len(nodes') = Len(nodes) \/ Len(nodes') = Len(nodes) + 1)
  BY StoredOrSame, StoreFacts DEF SearchRanges
<1>2. \A i \in 1..Len(nodes) : NodeKey(i)' = NodeKey(i) /\ nodes'[i] = nodes[i]
  BY ReachableKept
<1>3. model' = model /\ Known(log)' = Known(log)
  BY ReachableKept
<1>4. ASSUME NEW i \in 1..Len(nodes), NEW j PROVE After(i, j)' = After(i, j)
  BY <1>2, <1>3 DEF After
<1>5. \A i \in 1..Len(nodes) : Fan(i)' = Fan(i)
  BY <1>2 DEF Fan
<1>6. ASSUME NEW i \in 1..Len(nodes), Expanded(i) PROVE Expanded(i)'
  BY <1>1, <1>2, <1>4, <1>5, <1>6 DEF Expanded
<1>7. QED
  BY <1>1, <1>4, <1>5, <1>6

LEMMA FrontierStep ==
  ASSUME Ranges, SearchRanges, NodesInv, SeenInv, FrontierInv, Search
  PROVE  FrontierInv'
<1> DEFINE Passed == depthLimited = FALSE => \A i \in 1..Len(nodes) : i < cursor => Expanded(i)
           Tried == cursor <= Len(nodes) => \A j \in 1..Fan(cursor) : j < choice => After(cursor, j) \in visited
<1>1. /\ phase = "search" /\ Passed /\ Tried /\ Len(nodes) \in Nat /\ cursor \in Nat \ {0} /\ cursor <= Len(nodes) + 1
      /\ choice \in Nat \ {0} /\ depthLimited \in BOOLEAN
  BY SearchFrame DEF FrontierInv, SearchRanges
<1>2. SUFFICES Passed' /\ Tried'
  BY DEF FrontierInv
<1>3. CASE SkipNode \/ LeaveNode
  <2>1. /\ cursor <= Len(nodes) /\ cursor' = cursor + 1 /\ choice' = 1 /\ nodes' = nodes /\ visited' = visited
        /\ depthLimited' = FALSE => depthLimited = FALSE
    BY <1>1, <1>3 DEF SkipNode, LeaveNode, NextNode, Searching, Expands
  <2>2. depthLimited' = FALSE => Expanded(cursor)
    <3>1. CASE SkipNode
      BY <3>1 DEF SkipNode, Searching, Expanded, Node
    <3>2. CASE LeaveNode
      <4>1. \A j \in 1..Fan(cursor) : j < choice
        <5>1. cursor \in 1..Len(nodes) /\ choice > Fan(cursor) /\ Fan(cursor) \in Nat
          <6>1. nodes[cursor] \in Nodes /\ cursor \in 1..Len(nodes)
            BY <1>1, <2>1, ElementOfSeq DEF SearchRanges
          <6>2. nodes[cursor].obs \in Observations
            BY <6>1 DEF Nodes
          <6>3. ActionsFor[nodes[cursor].obs] \in Seq(Actions)
            BY <6>2, WorldModelAssumption
          <6>4. Fan(cursor) \in Nat
            BY <6>3 DEF Fan
          <6>5. QED
            BY <1>1, <3>2, <6>1, <6>4 DEF LeaveNode, Tries, Fan, Node
        <5>2. QED
          BY <1>1, <5>1
      <4>2. QED
        BY <1>1, <2>1, <4>1 DEF Expanded
    <3>3. QED
      BY <1>3, <3>1, <3>2
  <2>3. Passed'
    <3>1. SUFFICES ASSUME depthLimited' = FALSE, NEW i \in 1..Len(nodes'), i < cursor' PROVE Expanded(i)'
      OBVIOUS
    <3>2. i \in 1..Len(nodes) /\ (i < cursor \/ i = cursor)
      BY <1>1, <2>1, <3>1
    <3>3. Expanded(i)
      BY <1>1, <2>1, <2>2, <3>1, <3>2
    <3>4. QED
      BY <3>2, <3>3, ExpandedKept
  <2>4. Tried'
    <3>1. \A j \in 1..Fan(cursor)' : ~(j < choice')
      BY <2>1
    <3>2. QED
      BY <3>1
  <2>5. QED
    BY <2>3, <2>4
<1>4. CASE Stops \/ PlanFails \/ Exhausted
  <2>1. UNCHANGED <<nodes, visited, cursor, choice, depthLimited>>
    BY <1>4, StopsFacts DEF PlanFails, Exhausted, search
  <2>2. Passed'
    BY <1>1, <2>1, ExpandedKept
  <2>3. Tried'
    <3>1. cursor <= Len(nodes) => cursor \in 1..Len(nodes)
      BY <1>1
    <3>2. QED
      BY <1>1, <2>1, <3>1, ExpandedKept
  <2>4. QED
    BY <2>2, <2>3
<1>5. CASE SeenBefore \/ GoalTimesOut \/ FindNode
  <2>1. Tries /\ UNCHANGED <<cursor, depthLimited>>
    BY <1>5 DEF SeenBefore, GoalTimesOut, FindNode, Store, MayCall
  <2>2. cursor \in 1..Len(nodes) /\ choice \in 1..Fan(cursor) /\ Key = After(cursor, choice)
    BY <2>1, ChildFacts
  <2>3. choice' = choice \/ choice' = choice + 1
    BY <1>5 DEF SeenBefore, GoalTimesOut, FindNode
  <2>4. Key \in visited' /\ visited \subseteq visited'
    BY <1>5, StoreFacts DEF SeenBefore, GoalTimesOut, FindNode
  <2>5. Passed'
    <3>1. SUFFICES ASSUME depthLimited' = FALSE, NEW i \in 1..Len(nodes'), i < cursor' PROVE Expanded(i)'
      OBVIOUS
    <3>2. i \in 1..Len(nodes) /\ i < cursor /\ depthLimited = FALSE
      BY <1>1, <2>1, <2>2, <3>1, ExpandedKept
    <3>3. QED
      BY <1>1, <3>2, ExpandedKept
  <2>6. \A j \in 1..Fan(cursor) : j < choice' => After(cursor, j) \in visited'
    <3>1. SUFFICES ASSUME NEW j \in 1..Fan(cursor), j < choice' PROVE After(cursor, j) \in visited'
      OBVIOUS
    <3>2. j < choice \/ j = choice
      BY <1>1, <2>2, <2>3, <3>1
    <3>3. QED
      BY <1>1, <2>2, <2>4, <3>2
  <2>7. Tried'
    <3>1. Fan(cursor)' = Fan(cursor) /\ \A j : After(cursor, j)' = After(cursor, j)
      <4>1. ASSUME NEW n, n = cursor PROVE Fan(n)' = Fan(n) /\ \A j : After(n, j)' = After(n, j)
        BY <2>2, <4>1, ExpandedKept
      <4>2. QED
        BY <2>1, <4>1
    <3>2. QED
      BY <2>1, <2>6, <3>1
  <2>8. QED
    BY <2>5, <2>7
<1>6. QED
  BY <1>3, <1>4, <1>5 DEF Search, Stops

LEMMA RankStep ==
  ASSUME Ranges, SearchRanges, NodesInv, RankInv, ReasonInv, Search
  PROVE  RankInv' /\ ReasonInv'
<1>1. /\ phase = "search" /\ reason = "frontier_exhausted" /\ Len(nodes) \in Nat /\ utility' = utility
      /\ best \in Nat /\ best <= Len(nodes)
      /\ best # 0 => nodes[best].novel = TRUE
      /\ \A i \in 1..Len(nodes) : nodes[i].novel = TRUE =>
           best # 0 /\ utility[nodes[i].state] <= utility[nodes[best].state]
  BY SearchFrame DEF RankInv, ReasonInv, SearchRanges, inputs
<1>2. CASE SkipNode \/ LeaveNode \/ SeenBefore
  <2>1. UNCHANGED <<nodes, best, reason, phase>>
    BY <1>2 DEF SkipNode, LeaveNode, SeenBefore
  <2>2. QED
    BY <1>1, <2>1 DEF RankInv, ReasonInv
<1>3. CASE Stops
  <2>1. UNCHANGED <<nodes, best>> /\ phase' = "planned"
        /\ reason' \notin {"frontier_exhausted", "utility_upper_bound"}
    BY <1>3, StopsFacts
  <2>2. QED
    BY <1>1, <2>1 DEF RankInv, ReasonInv
<1>4. CASE PlanFails
  BY <1>4 DEF PlanFails, RankInv, ReasonInv
<1>5. CASE Exhausted
  <2>1. UNCHANGED <<nodes, best, cursor, depthLimited>> /\ cursor > Len(nodes) /\ phase' = "planned"
        /\ reason' = IF depthLimited THEN "max_depth" ELSE reason
    BY <1>5 DEF Exhausted, Stop
  <2>2. depthLimited \in BOOLEAN
    BY DEF SearchRanges
  <2>3. reason' = "frontier_exhausted" => depthLimited = FALSE
    BY <2>1, <2>2
  <2>4. reason' # "utility_upper_bound"
    BY <1>1, <2>1
  <2>5. QED
    BY <1>1, <2>1, <2>3, <2>4 DEF RankInv, ReasonInv
<1>6. CASE GoalTimesOut
  <2>1. /\ best' = best /\ reason' = "max_seconds" /\ phase' = "planned" /\ Store
    BY <1>6 DEF GoalTimesOut, Stop
  <2>2. best # 0 => nodes'[best] = nodes[best]
    BY <1>1, <2>1, StoreFacts
  <2>3. QED
    BY <1>1, <2>1, <2>2 DEF RankInv, ReasonInv
<1>7. CASE FindNode
  <2>1. Store /\ Tries /\ best' = IF Better THEN Len(nodes) + 1 ELSE best
    BY <1>7, StoreFacts DEF FindNode
  <2>2. /\ Len(nodes') = Len(nodes) + 1 /\ nodes'[Len(nodes) + 1] = Child
        /\ \A i \in 1..Len(nodes) : nodes'[i] = nodes[i]
    BY <2>1, StoreFacts
  <2>3. Child.state = Successor /\ Child.novel = Novel /\ Novel \in BOOLEAN /\ Child \in Nodes
    BY <2>1, ChildFacts
  <2>4. utility[Successor] \in Nat /\ \A i \in 1..Len(nodes) : utility[nodes[i].state] \in Nat
    <3>1. \A i \in 1..Len(nodes) : nodes[i] \in Nodes
      BY ElementOfSeq DEF SearchRanges
    <3>2. \A state \in States : utility[state] \in Nat
      BY WorldModelAssumption DEF Ranges
    <3>3. QED
      BY <2>3, <3>1, <3>2 DEF Nodes
  <2>5. CASE Better
    <3>1. best' = Len(nodes) + 1 /\ nodes'[best'].state = Successor /\ best' # 0
      BY <1>1, <2>1, <2>2, <2>3, <2>5
    <3>2. Novel /\ (best = 0 \/ utility[Successor] >= utility[nodes[best].state])
      <4>1. best = 0 \/ best \in 1..Len(nodes)
        BY <1>1
      <4>2. QED
        BY <2>4, <2>5, <4>1 DEF Better
    <3>3. nodes'[best'].novel = TRUE
      BY <2>2, <2>3, <3>1, <3>2
    <3>4. ASSUME NEW i \in 1..Len(nodes'), nodes'[i].novel = TRUE
          PROVE  utility[nodes'[i].state] <= utility[nodes'[best'].state]
      <4>1. CASE i = Len(nodes) + 1
        BY <2>4, <3>1, <4>1
      <4>2. CASE i \in 1..Len(nodes)
        <5>1. nodes'[i] = nodes[i] /\ best # 0 /\ utility[nodes[i].state] <= utility[nodes[best].state]
          BY <1>1, <2>2, <3>4, <4>2
        <5>2. best \in 1..Len(nodes)
          BY <1>1, <5>1
        <5>3. QED
          BY <2>4, <3>1, <3>2, <4>2, <5>1, <5>2
      <4>3. QED
        BY <1>1, <2>2, <4>1, <4>2
    <3>5. RankInv'
      BY <1>1, <3>1, <3>3, <3>4 DEF RankInv
    <3>6. \/ phase' = "planned" /\ reason' = "utility_upper_bound" /\ utility[Successor] = UpperBound
          \/ phase' = "search" /\ reason' = reason
      BY <1>1, <1>7, <2>5 DEF FindNode, Stop
    <3>7. ReasonInv'
      BY <1>1, <3>1, <3>6 DEF ReasonInv
    <3>8. QED
      BY <3>5, <3>7
  <2>6. CASE ~Better
    <3>1. best' = best /\ phase' = "search" /\ reason' = "frontier_exhausted"
      BY <1>1, <1>7, <2>1, <2>6 DEF FindNode
    <3>2. best # 0 => best \in 1..Len(nodes) /\ nodes'[best] = nodes[best]
      BY <1>1, <2>2
    <3>3. Novel => best # 0 /\ utility[Successor] <= utility[nodes[best].state]
      BY <2>4, <2>6, <3>2 DEF Better
    <3>4. ASSUME NEW i \in 1..Len(nodes'), nodes'[i].novel = TRUE
          PROVE  best # 0 /\ utility[nodes'[i].state] <= utility[nodes[best].state]
      <4>1. CASE i = Len(nodes) + 1
        <5>1. nodes'[i] = Child
          BY <2>2, <4>1
        <5>2. Novel
          BY <2>3, <3>4, <5>1
        <5>3. QED
          BY <2>3, <3>3, <5>1, <5>2
      <4>2. CASE i \in 1..Len(nodes)
        BY <1>1, <2>2, <3>4, <4>2
      <4>3. QED
        BY <1>1, <2>2, <4>1, <4>2
    <3>5. RankInv'
      BY <1>1, <3>1, <3>2, <3>4 DEF RankInv
    <3>6. ReasonInv'
      BY <3>1 DEF ReasonInv
    <3>7. QED
      BY <3>5, <3>6
  <2>7. QED
    BY <2>5, <2>6
<1>8. QED
  BY <1>2, <1>3, <1>4, <1>5, <1>6, <1>7 DEF Search, Stops

LEMMA SearchStep ==
  ASSUME ModelInv, Search
  PROVE  ModelInv'
<1>1. Ranges /\ Screens /\ SearchRanges /\ NodesInv /\ SeenInv /\ FrontierInv /\ RankInv /\ ReasonInv
  BY DEF ModelInv, SearchInv
<1>2. Screens'
  BY <1>1, SearchFrame DEF Screens, CurrentShown, CachedShown, RunningShown, Shown, inputs, validation
<1>3. IdleInv'
  BY SearchFrame DEF IdleInv
<1>4. QED
  BY <1>1, <1>2, <1>3, SearchRangesStep, NodesStep, SeenStep, FrontierStep, RankStep DEF ModelInv, SearchInv

(* A step before the search leaves it as it was. *)
LEMMA BeforeStep ==
  ASSUME ModelInv, Replay \/ Explore
  PROVE  ModelInv'
<1>1. Ranges /\ Screens /\ SearchRanges /\ SearchInv
  BY DEF ModelInv
<1>2. Ranges' /\ Screens'
  BY <1>1, ReplayRanges, ExploreRanges
<1>3. phase \in {"validate", "explore"} /\ phase' \in {"validate", "explore", "over"} /\ UNCHANGED search
  BY ReplayFrame, ExploreFrame
<1>4. SearchRanges'
  BY <1>1, <1>3 DEF SearchRanges, search
<1>5. IdleInv'
  BY <1>1, <1>3 DEF SearchInv, IdleInv, search
<1>6. NodesInv' /\ SeenInv' /\ FrontierInv' /\ RankInv' /\ ReasonInv'
  BY <1>3 DEF NodesInv, SeenInv, FrontierInv, RankInv, ReasonInv
<1>7. QED
  BY <1>2, <1>4, <1>5, <1>6 DEF ModelInv, SearchInv

LEMMA StutterStep ==
  ASSUME ModelInv, UNCHANGED vars
  PROVE  ModelInv'
<1>1. UNCHANGED <<inputs, log, phase, validation, running, search, evidence>>
  BY DEF vars
<1>2. Ranges' /\ SearchRanges'
  BY <1>1 DEF ModelInv, Ranges, SearchRanges, inputs, validation, search
<1>3. Screens'
  BY <1>1 DEF ModelInv, Screens, CurrentShown, CachedShown, RunningShown, Shown, inputs, validation
<1>4. IdleInv' /\ RankInv' /\ ReasonInv'
  BY <1>1 DEF ModelInv, SearchInv, IdleInv, RankInv, ReasonInv, inputs, search
<1>5. model' = model /\ log' = log /\ nodes' = nodes
  BY <1>1 DEF inputs, search
<1>6. Reachable' = Reachable
  BY <1>5 DEF Reachable, Start
<1>7. NodesInv'
  BY <1>1, <1>5, <1>6 DEF ModelInv, SearchInv, NodesInv, NodeKey
<1>8. SeenInv'
  BY <1>1, <1>5 DEF ModelInv, SearchInv, SeenInv, NodeKey, search
<1>9. FrontierInv'
  BY <1>1, <1>5 DEF ModelInv, SearchInv, FrontierInv, Expanded, Fan, After, NodeKey, search
<1>10. QED
  BY <1>2, <1>3, <1>4, <1>7, <1>8, <1>9 DEF ModelInv, SearchInv

-----------------------------------------------------------------------------
(* For every set of models, goals and recorded tasks, and whatever the limits:
   the search's nodes are reachable, the keys it has seen are its nodes', and
   what its cursor has passed is expanded, unless it was too deep.           *)
THEOREM WorldModelHolds == Spec => []ModelInv
<1>1. Init => ModelInv
  <2>1. SUFFICES ASSUME Init PROVE ModelInv
    OBVIOUS
  <2>2. IdleInv
    BY <2>1 DEF Init, IdleInv, NoNodes
  <2>3. NodesInv /\ SeenInv /\ FrontierInv /\ RankInv /\ ReasonInv
    BY <2>1 DEF Init, NodesInv, SeenInv, FrontierInv, RankInv, ReasonInv
  <2>4. QED
    BY <2>1, <2>2, <2>3, InitRanges DEF ModelInv, SearchInv
<1>2. ModelInv /\ [Next]_vars => ModelInv'
  <2>1. SUFFICES ASSUME ModelInv, [Next]_vars PROVE ModelInv'
    OBVIOUS
  <2>2. CASE Plans
    BY <2>1, <2>2, PlansStep DEF ModelInv, SearchInv
  <2>3. QED
    BY <2>1, <2>2, NextCases, BeforeStep, SearchStep, StutterStep
<1>3. QED
  BY <1>1, <1>2, PTL DEF Spec

(* What PlanInCWM reports holds of the whole model: a plan called optimal ends
   in a reachable State, on a path that meets something new, and no such path
   ends better; and a frontier that ran out without a plan had none to find.  *)
THEOREM OptimalHolds == Spec => []ProvenOptimal
BY WorldModelHolds, InvImpliesOptimal, PTL

-----------------------------------------------------------------------------
(* The live State. *)

LEMMA ExplainsKept ==
  ASSUME model' = model, NEW h, NEW state, Explains(h, state)
  PROVE  Explains(h, state)'
<1>1. PICK run \in [0..Length(h) -> States] :
        /\ run[0] = model.initial[h.first] /\ model.render[run[0]] = h.first
        /\ Carries(run, h, 0) /\ run[Length(h)] = state
  BY DEF Explains
<1>2. Carries(run, h, 0)'
  BY <1>1 DEF Carries
<1>3. QED
  BY <1>1, <1>2 DEF Explains

LEMMA WholeHistory ==
  ASSUME NEW h \in History
  PROVE  Upto(h, Length(h)) = h /\ Length(h) \in 0..Length(h)
<1>1. h.steps \in Seq(Entries) /\ h = [first |-> h.first, steps |-> h.steps] /\ Len(h.steps) \in Nat
  BY DEF History, Entries
<1>2. SubSeq(h.steps, 1, Len(h.steps)) = h.steps
  BY <1>1, SubSeqFull
<1>3. QED
  BY <1>1, <1>2 DEF Upto, Length

(* A history that is explained up to k, and carried from there to its end, is
   explained.                                                                 *)
LEMMA Glued ==
  ASSUME Ranges, NEW h \in History, NEW k \in 0..Length(h), NEW state, Explains(Upto(h, k), state),
         NEW run \in [k..Length(h) -> States], run[k] = state, Carries(run, h, k)
  PROVE  Explains(h, run[Length(h)])
<1>1. PICK start \in [0..k -> States] :
        /\ start[0] = model.initial[h.first] /\ model.render[start[0]] = h.first
        /\ Carries(start, Upto(h, k), 0) /\ start[k] = state
  <2>1. Length(Upto(h, k)) = k /\ Upto(h, k).first = h.first
    BY UptoFacts DEF Upto
  <2>2. QED
    BY <2>1 DEF Explains
<1>2. Length(h) \in Nat /\ k \in Nat /\ k <= Length(h) /\ Length(Upto(h, k)) = k
  BY UptoFacts
<1>3. \A i \in 1..k : Upto(h, k).steps[i] = h.steps[i] /\ ObsAt(Upto(h, k), i) = ObsAt(h, i)
  <2>1. h.steps \in Seq(Entries) /\ Len(h.steps) = Length(h)
    BY DEF History, Entries, Length
  <2>2. \A j \in 1..k : h.steps[j] \in Entries
    BY <1>2, <2>1, ElementOfSeq
  <2>3. \A j \in 1..(k - 1 + 1) : SubSeq(h.steps, 1, k)[j] = h.steps[1 + j - 1]
    BY <1>2, <2>2, SubSeqProperties
  <2>4. \A i \in 1..k : SubSeq(h.steps, 1, k)[i] = h.steps[i]
    BY <1>2, <2>3
  <2>5. QED
    BY <2>4 DEF Upto, ObsAt
<1> DEFINE whole == [i \in 0..Length(h) |-> IF i <= k THEN start[i] ELSE run[i]]
<1>4. whole \in [0..Length(h) -> States]
  BY <1>2
<1>5. whole[0] = start[0] /\ whole[Length(h)] = run[Length(h)]
  BY <1>1, <1>2
<1>6. ASSUME NEW i \in 1..Length(h)
      PROVE  /\ whole[i] = model.step[<<whole[i - 1], h.steps[i].action>>]
             /\ model.render[whole[i]] = ObsAt(h, i)
  <2>1. CASE i <= k
    <3>1. i \in 1..k /\ i - 1 \in 0..k /\ whole[i] = start[i] /\ whole[i - 1] = start[i - 1]
      BY <1>2, <2>1
    <3>2. start[i] = model.step[<<start[i - 1], Upto(h, k).steps[i].action>>]
          /\ model.render[start[i]] = ObsAt(Upto(h, k), i)
      BY <1>1, <1>2, <3>1 DEF Carries
    <3>3. QED
      BY <1>3, <3>1, <3>2
  <2>2. CASE i > k
    <3>1. i \in (k + 1)..Length(h) /\ whole[i] = run[i] /\ whole[i - 1] = run[i - 1]
      BY <1>1, <1>2, <2>2
    <3>2. QED
      BY <3>1 DEF Carries
  <2>3. QED
    BY <1>2, <2>1, <2>2
<1> HIDE DEF whole
<1>7. Carries(whole, h, 0)
  BY <1>6 DEF Carries
<1>8. QED
  BY <1>1, <1>4, <1>5, <1>7 DEF Explains

(* One more step. *)
LEMMA OneMore ==
  ASSUME Ranges, NEW h \in History, NEW i \in 1..Length(h), NEW state \in States, NEW next \in States,
         Explains(Upto(h, i - 1), state), next = model.step[<<state, h.steps[i].action>>],
         model.render[next] = ObsAt(h, i)
  PROVE  Explains(Upto(h, i), next)
<1> DEFINE g == Upto(h, i)
<1>1. Length(h) \in Nat /\ i \in Nat /\ i \in 0..Length(h) /\ i - 1 \in 0..Length(h)
  <2>1. Length(h) \in Nat
    BY DEF History, Length
  <2>2. QED
    BY <2>1
<1>2. g \in History /\ Length(g) = i /\ ObsAt(g, i) = ObsAt(h, i)
  BY <1>1, UptoFacts
<1>3. g.steps[i] = h.steps[i] /\ Upto(g, i - 1) = Upto(h, i - 1)
  <2>1. h.steps \in Seq(Entries) /\ Len(h.steps) = Length(h)
    BY DEF History, Entries, Length
  <2>2. \A j \in 1..i : h.steps[j] \in Entries
    BY <1>1, <2>1, ElementOfSeq
  <2>3. /\ g.steps \in Seq(Entries) /\ Len(g.steps) = i
        /\ \A j \in 1..i : g.steps[j] = h.steps[j]
    <3>1. /\ SubSeq(h.steps, 1, i) \in Seq(Entries)
          /\ Len(SubSeq(h.steps, 1, i)) = IF 1 <= i THEN i - 1 + 1 ELSE 0
          /\ \A j \in 1..(i - 1 + 1) : SubSeq(h.steps, 1, i)[j] = h.steps[1 + j - 1]
      BY <1>1, <2>2, SubSeqProperties
    <3>2. /\ Len(SubSeq(h.steps, 1, i)) = i
          /\ \A j \in 1..i : SubSeq(h.steps, 1, i)[j] = h.steps[j]
      BY <1>1, <3>1
    <3>3. QED
      BY <3>1, <3>2 DEF Upto
  <2>4. \A j \in 1..(i - 1) : g.steps[j] \in Entries /\ h.steps[j] \in Entries /\ g.steps[j] = h.steps[j]
    BY <1>1, <2>2, <2>3
  <2>5. /\ SubSeq(g.steps, 1, i - 1) \in Seq(Entries) /\ SubSeq(h.steps, 1, i - 1) \in Seq(Entries)
        /\ Len(SubSeq(g.steps, 1, i - 1)) = i - 1 /\ Len(SubSeq(h.steps, 1, i - 1)) = i - 1
        /\ \A j \in 1..(i - 1) : SubSeq(g.steps, 1, i - 1)[j] = SubSeq(h.steps, 1, i - 1)[j]
    <3>1. i - 1 \in Int /\ 1 \in Int
      BY <1>1
    <3>2. /\ SubSeq(g.steps, 1, i - 1) \in Seq(Entries)
          /\ Len(SubSeq(g.steps, 1, i - 1)) = IF 1 <= i - 1 THEN i - 1 - 1 + 1 ELSE 0
          /\ \A j \in 1..(i - 1 - 1 + 1) : SubSeq(g.steps, 1, i - 1)[j] = g.steps[1 + j - 1]
      BY <2>4, <3>1, SubSeqProperties
    <3>3. /\ SubSeq(h.steps, 1, i - 1) \in Seq(Entries)
          /\ Len(SubSeq(h.steps, 1, i - 1)) = IF 1 <= i - 1 THEN i - 1 - 1 + 1 ELSE 0
          /\ \A j \in 1..(i - 1 - 1 + 1) : SubSeq(h.steps, 1, i - 1)[j] = h.steps[1 + j - 1]
      BY <2>4, <3>1, SubSeqProperties
    <3>4. \A j \in 1..(i - 1) : SubSeq(g.steps, 1, i - 1)[j] = g.steps[j]
      BY <1>1, <3>2
    <3>5. \A j \in 1..(i - 1) : SubSeq(h.steps, 1, i - 1)[j] = h.steps[j]
      BY <1>1, <3>3
    <3>6. Len(SubSeq(g.steps, 1, i - 1)) = i - 1 /\ Len(SubSeq(h.steps, 1, i - 1)) = i - 1
      BY <1>1, <3>2, <3>3
    <3>7. QED
      BY <2>4, <3>2, <3>3, <3>4, <3>5, <3>6
  <2>6. SubSeq(g.steps, 1, i - 1) = SubSeq(h.steps, 1, i - 1)
    BY <2>5, SeqEqual
  <2>7. g.first = h.first
    BY DEF Upto
  <2>8. g.steps[i] = h.steps[i]
    BY <1>1, <2>3
  <2> HIDE DEF g
  <2>9. Upto(g, i - 1) = Upto(h, i - 1)
    BY <2>6, <2>7 DEF Upto
  <2>10. QED
    BY <2>8, <2>9
<1> HIDE DEF g
<1>4. Explains(Upto(g, i - 1), state) /\ i - 1 \in 0..Length(g)
  BY <1>1, <1>2, <1>3
<1> DEFINE run == [j \in (i - 1)..Length(g) |-> IF j = i THEN next ELSE state]
<1>5. run \in [(i - 1)..Length(g) -> States] /\ run[i - 1] = state /\ run[i] = next
  BY <1>1, <1>2, SMTT(30)
<1>6. Carries(run, g, i - 1)
  <2>1. ASSUME NEW j \in ((i - 1) + 1)..Length(g) PROVE j = i
    BY <1>1, <1>2
  <2>2. QED
    BY <1>2, <1>3, <1>5, <2>1 DEF Carries
<1> HIDE DEF run
<1>7. Explains(g, run[Length(g)])
  BY <1>2, <1>4, <1>5, <1>6, Glued
<1>8. QED
  BY <1>2, <1>5, <1>7 DEF g

(* What is carried along is explained by the model, and recorded. *)
Recorded(h) == \E e \in 1..Len(log) : \E i \in 0..Length(log[e]) : Upto(log[e], i) = h
CurrentExplained ==
  phase = "validate" /\ episode <= Len(log) /\ checked > 0 =>
    checked - 1 <= Length(log[episode]) /\ Explains(Upto(log[episode], checked - 1), current)
CachedExplained == \A pair \in validated : Explains(pair[1], pair[2])
RunningExplained ==
  running = None \/ (Explains(running.history, running.state) /\ Recorded(running.history))
CarriedInv == CurrentExplained /\ CachedExplained /\ RunningExplained

(* The State that the live episode is entered with is explained. *)
LEMMA LiveStateExplained ==
  ASSUME Ranges, Screens, RunningExplained, NEW state, LiveState(state)
  PROVE  Explains(Live, state) /\ state \in States
<1>1. Live \in History /\ state \in States
  BY LiveFacts, LiveShown
<1>2. CASE Anchors # {}
  <2>1. PICK k \in Anchors : \E run \in [k..Length(Live) -> States] :
          run[k] = running.state /\ Carries(run, Live, k) /\ run[Length(Live)] = state
    BY <1>2 DEF LiveState
  <2>2. PICK run \in [k..Length(Live) -> States] :
          run[k] = running.state /\ Carries(run, Live, k) /\ run[Length(Live)] = state
    BY <2>1
  <2>3. running # None /\ k \in 0..Length(Live) /\ Upto(Live, k) = running.history
    BY <2>1 DEF Anchors
  <2>4. Explains(Upto(Live, k), running.state)
    BY <2>3 DEF RunningExplained
  <2>5. QED
    BY <1>1, <2>2, <2>3, <2>4, Glued
<1>3. CASE Anchors = {}
  BY <1>1, <1>3 DEF LiveState
<1>4. QED
  BY <1>2, <1>3

(* A start that renders its first screen explains it. *)
LEMMA FirstExplained ==
  ASSUME Ranges, NEW h \in History, model.render[model.initial[h.first]] = h.first
  PROVE  Explains(Upto(h, 0), model.initial[h.first])
<1> DEFINE run == [j \in 0..0 |-> model.initial[h.first]]
<1>1. model.initial[h.first] \in States
  BY ModelFacts DEF History
<1>2. 0 \in 0..Length(h) /\ Length(Upto(h, 0)) = 0 /\ Upto(h, 0).first = h.first
  <2>1. Length(h) \in Nat
    BY DEF History, Length
  <2>2. 0 \in 0..Length(h)
    BY <2>1
  <2>3. Length(Upto(h, 0)) = 0
    BY <2>2, UptoFacts
  <2>4. Upto(h, 0).first = h.first
    BY DEF Upto
  <2>5. QED
    BY <2>2, <2>3, <2>4
<1>3. run \in [0..0 -> States] /\ run[0] = model.initial[h.first]
  BY <1>1
<1> HIDE DEF run
<1>4. Carries(run, Upto(h, 0), 0)
  BY <1>2 DEF Carries
<1>5. QED
  BY <1>2, <1>3, <1>4 DEF Explains

LEMMA ReplayCarries ==
  ASSUME Ranges, Screens, CarriedInv, Replay
  PROVE  CarriedInv'
<1>1. phase = "validate" /\ model' = model /\ log' = log
  BY ReplayFrame DEF inputs
<1>2. CASE \E state \in States : ReuseState(state)
  <2>1. PICK state \in States : ReuseState(state)
    BY <1>2
  <2>2. Judged /\ <<Here, state>> \in validated
    BY <2>1 DEF ReuseState
  <2>3. /\ checked' = checked + 1 /\ current' = state /\ checked \in 0..Length(log[episode])
        /\ episode' = episode /\ validated' = validated /\ running' = running
    BY <2>1, <2>2, PredictedFacts DEF ReuseState, GoOn
  <2>4. Explains(Upto(log[episode], checked), state)
    BY <2>2 DEF CarriedInv, CachedExplained, Here
  <2>5. checked' - 1 = checked /\ checked <= Length(log[episode])
    <3>1. checked \in Nat /\ Length(log[episode]) \in Nat
      BY <2>2, LiveFacts DEF Ranges, Judged
    <3>2. QED
      BY <2>3, <3>1
  <2>6. CurrentExplained'
    BY <1>1, <2>3, <2>4, <2>5, ExplainsKept DEF CurrentExplained
  <2>7. CachedExplained'
    BY <1>1, <2>3, ExplainsKept DEF CarriedInv, CachedExplained
  <2>8. RunningExplained'
    BY <1>1, <2>3, ExplainsKept DEF CarriedInv, RunningExplained, Recorded
  <2>9. QED
    BY <2>6, <2>7, <2>8 DEF CarriedInv
<1>3. CASE Matches
  <2>1. Judged /\ model.render[Predicted] = ObsAt(log[episode], checked)
    BY <1>3 DEF Matches, Unjudged
  <2>2. /\ checked' = checked + 1 /\ current' = Predicted /\ checked \in 0..Length(log[episode])
        /\ episode' = episode /\ running' = running /\ log[episode] \in History /\ Predicted \in States
        /\ \A pair \in validated' : pair \in validated \/ pair = <<Here, Predicted>>
    BY <1>3, <2>1, PredictedFacts DEF Matches, GoOn
  <2>3. checked \in Nat /\ Length(log[episode]) \in Nat /\ checked' - 1 = checked /\ checked <= Length(log[episode])
    <3>1. checked \in Nat /\ Length(log[episode]) \in Nat
      BY <2>1, LiveFacts DEF Ranges, Judged
    <3>2. QED
      BY <2>2, <3>1
  <2>4. Explains(Upto(log[episode], checked), Predicted)
    <3>1. CASE checked = 0
      <4>1. Predicted = model.initial[log[episode].first] /\ ObsAt(log[episode], checked) = log[episode].first
        BY <3>1 DEF Predicted, ObsAt
      <4>2. QED
        BY <2>1, <2>2, <3>1, <4>1, FirstExplained
    <3>2. CASE checked # 0
      <4>1. checked \in 1..Length(log[episode]) /\ checked > 0
        BY <2>3, <3>2
      <4>2. Predicted = model.step[<<current, log[episode].steps[checked].action>>]
        BY <3>2 DEF Predicted
      <4>3. Explains(Upto(log[episode], checked - 1), current) /\ current \in States
        BY <1>1, <2>1, <4>1 DEF CarriedInv, CurrentExplained, Screens, CurrentShown, Judged
      <4>4. QED
        BY <2>1, <2>2, <4>1, <4>2, <4>3, OneMore
    <3>3. QED
      BY <3>1, <3>2
  <2>5. CurrentExplained'
    BY <1>1, <2>2, <2>3, <2>4, ExplainsKept DEF CurrentExplained
  <2>6. CachedExplained'
    <3>1. \A pair \in validated' : Explains(pair[1], pair[2])
      BY <2>2, <2>4 DEF CarriedInv, CachedExplained, Here
    <3>2. QED
      BY <1>1, <3>1, ExplainsKept DEF CachedExplained
  <2>7. RunningExplained'
    BY <1>1, <2>2, ExplainsKept DEF CarriedInv, RunningExplained, Recorded
  <2>8. QED
    BY <2>5, <2>6, <2>7 DEF CarriedInv
<1>4. CASE EndEpisode
  <2>1. /\ checked > Length(log[episode]) /\ episode \in 1..Len(log) /\ log[episode] \in History
        /\ Length(log[episode]) \in Nat /\ checked \in Nat
    BY <1>4, LiveFacts DEF EndEpisode, Ranges
  <2>2. checked' = 0 /\ validated' = validated
        /\ (running' = running \/ running' = [state |-> current, history |-> log[episode]])
    BY <1>4 DEF EndEpisode, LeaveEpisode
  <2>3. Explains(Upto(log[episode], checked - 1), current) /\ checked - 1 <= Length(log[episode])
    BY <1>1, <2>1 DEF CarriedInv, CurrentExplained
  <2>4. checked - 1 = Length(log[episode])
    BY <2>1, <2>3
  <2>5. Explains(log[episode], current) /\ Recorded(log[episode])
    <3>1. Upto(log[episode], Length(log[episode])) = log[episode] /\ Length(log[episode]) \in 0..Length(log[episode])
      BY <2>1, WholeHistory
    <3>2. QED
      BY <2>1, <2>3, <2>4, <3>1 DEF Recorded
  <2>6. CurrentExplained'
    BY <2>2 DEF CurrentExplained
  <2>7. CachedExplained'
    BY <1>1, <2>2, ExplainsKept DEF CarriedInv, CachedExplained
  <2>8. running' = None \/ (Explains(running'.history, running'.state) /\ Recorded(running'.history))
    BY <2>2, <2>5 DEF CarriedInv, RunningExplained
  <2>9. RunningExplained'
    BY <1>1, <2>8, ExplainsKept DEF RunningExplained, Recorded
  <2>10. QED
    BY <2>6, <2>7, <2>9 DEF CarriedInv
<1>5. CASE ReuseFailure \/ Mismatch \/ ValidationFails \/ FinishValidation
  <2>1. /\ checked' = 0 \/ phase' # "validate"
        /\ validated' = validated /\ (running' = running \/ running' = None)
    BY <1>5 DEF ReuseFailure, Mismatch, LeaveEpisode, ValidationFails, FinishValidation
  <2>2. CurrentExplained'
    BY <2>1 DEF CurrentExplained
  <2>3. CachedExplained'
    BY <1>1, <2>1, ExplainsKept DEF CarriedInv, CachedExplained
  <2>4. RunningExplained'
    BY <1>1, <2>1, ExplainsKept DEF CarriedInv, RunningExplained, Recorded
  <2>5. QED
    BY <2>2, <2>3, <2>4 DEF CarriedInv
<1>6. QED
  BY <1>2, <1>3, <1>4, <1>5 DEF Replay

(* What comes before the last step of an episode is the episode before it. *)
LEMMA LongerUpto ==
  ASSUME NEW h \in History, NEW action \in Actions, NEW obs \in Observations,
         NEW longer, longer = [h EXCEPT !.steps = Append(@, [action |-> action, obs |-> obs])]
  PROVE  Upto(longer, Length(h)) = h /\ longer.steps[Length(h) + 1].action = action
<1> DEFINE entry == [action |-> action, obs |-> obs]
<1>1. h.first \in Observations /\ h.steps \in Seq(Entries) /\ entry \in Entries
      /\ h = [first |-> h.first, steps |-> h.steps]
  BY DEF History, Entries
<1>2. longer.first = h.first /\ longer.steps = Append(h.steps, entry)
  BY DEF History
<1>3. entry.action = action
  OBVIOUS
<1> HIDE DEF entry
<1>4. /\ Len(h.steps) \in Nat /\ longer.steps \in Seq(Entries)
      /\ Len(longer.steps) = Len(h.steps) + 1 /\ longer.steps[Len(h.steps) + 1] = entry
      /\ \A j \in 1..Len(h.steps) : longer.steps[j] = h.steps[j]
  BY <1>1, <1>2
<1>5. \A j \in 1..Len(h.steps) : longer.steps[j] \in Entries
  BY <1>1, <1>4, ElementOfSeq
<1>6. /\ SubSeq(longer.steps, 1, Len(h.steps)) \in Seq(Entries)
      /\ Len(SubSeq(longer.steps, 1, Len(h.steps))) = IF 1 <= Len(h.steps) THEN Len(h.steps) - 1 + 1 ELSE 0
      /\ \A j \in 1..(Len(h.steps) - 1 + 1) : SubSeq(longer.steps, 1, Len(h.steps))[j] = longer.steps[1 + j - 1]
  BY <1>4, <1>5, SubSeqProperties
<1>7. /\ Len(SubSeq(longer.steps, 1, Len(h.steps))) = Len(h.steps)
      /\ \A j \in 1..Len(h.steps) : SubSeq(longer.steps, 1, Len(h.steps))[j] = h.steps[j]
  BY <1>4, <1>6
<1>8. SubSeq(longer.steps, 1, Len(h.steps)) = h.steps
  BY <1>1, <1>6, <1>7, SeqEqual
<1>9. QED
  BY <1>1, <1>2, <1>3, <1>4, <1>8 DEF Upto, Length

LEMMA ExploreCarries ==
  ASSUME Ranges, Screens, CarriedInv, Explore
  PROVE  CarriedInv'
<1>1. /\ phase' # "validate" /\ model' = model /\ validated' = validated
      /\ CurrentExplained' /\ CachedExplained'
  <2>1. phase' # "validate" /\ model' = model /\ validated' = validated
    BY ExploreFrame DEF inputs, validation
  <2>2. CurrentExplained'
    BY <2>1 DEF CurrentExplained
  <2>3. CachedExplained'
    BY <2>1, ExplainsKept DEF CarriedInv, CachedExplained
  <2>4. QED
    BY <2>1, <2>2, <2>3
<1>2. CASE Resume \/ Refuted
  <2>1. running' = None
    BY <1>2 DEF Resume, Refuted
  <2>2. QED
    BY <1>1, <2>1 DEF CarriedInv, RunningExplained
<1>3. CASE ResetReal
  <2>1. PICK first \in Observations : log' = Append(log, [first |-> first, steps |-> <<>>])
    BY <1>3 DEF ResetReal, Grow
  <2>2. running' = running
    BY <1>3 DEF ResetReal
  <2>3. [first |-> first, steps |-> <<>>] \in History
    BY DEF History
  <2>4. Len(log) \in Nat /\ Len(log') = Len(log) + 1 /\ \A e \in 1..Len(log) : log'[e] = log[e]
    BY <2>1, <2>3, AppendProperties DEF Ranges
  <2>5. running # None => Recorded(running.history)'
    <3>1. SUFFICES ASSUME running # None PROVE Recorded(running.history)'
      OBVIOUS
    <3>2. PICK e \in 1..Len(log) : \E i \in 0..Length(log[e]) : Upto(log[e], i) = running.history
      BY <3>1 DEF CarriedInv, RunningExplained, Recorded
    <3>3. e \in 1..Len(log') /\ log'[e] = log[e]
      BY <2>4
    <3>4. QED
      BY <2>2, <3>2, <3>3 DEF Recorded
  <2>6. RunningExplained'
    BY <1>1, <2>2, <2>5, ExplainsKept DEF CarriedInv, RunningExplained
  <2>7. QED
    BY <1>1, <2>6 DEF CarriedInv
<1>4. ASSUME NEW state \in States, NEW action \in Actions, NEW obs \in Observations, NEW judged \in BOOLEAN,
             RealStep(state, action, obs, judged), NEW longer, NEW next,
             longer = [Live EXCEPT !.steps = Append(@, [action |-> action, obs |-> obs])],
             next = model.step[<<state, action>>]
      PROVE  CarriedInv'
  <2>1. /\ longer \in History /\ ObsAt(longer, Length(longer)) = obs /\ next \in States
        /\ Length(longer) = Length(Live) + 1 /\ Length(Live) \in Nat
    <3>1. Live \in History /\ Length(Live) \in Nat
      BY LiveFacts DEF History, Length
    <3>2. QED
      BY <1>4, <3>1, LongerFacts, ModelFacts
  <2>2. Upto(longer, Length(Live)) = Live /\ longer.steps[Length(Live) + 1].action = action
    <3>1. Live \in History
      BY LiveFacts
    <3>2. longer = [Live EXCEPT !.steps = Append(@, [action |-> action, obs |-> obs])]
      BY <1>4
    <3>3. QED
      BY <3>1, <3>2, LongerUpto, ZenonT(60)
  <2>3. log' = [log EXCEPT ![Len(log)] = longer] /\ LiveState(state)
    BY <1>4 DEF RealStep, Grow
  <2>4. running' = None \/ (running' = [state |-> next, history |-> longer] /\ model.render[next] = obs)
    BY <1>4 DEF RealStep
  <2>6. Explains(Live, state)
    BY <2>3, LiveStateExplained DEF CarriedInv
  <2>7. ASSUME model.render[next] = obs PROVE Explains(longer, next)
    <3>1. Length(longer) \in 1..Length(longer) /\ Length(longer) - 1 = Length(Live)
      BY <2>1
    <3>2. Explains(Upto(longer, Length(longer) - 1), state)
      BY <2>2, <2>6, <3>1
    <3>3. next = model.step[<<state, longer.steps[Length(longer)].action>>]
      BY <1>4, <2>1, <2>2
    <3>4. Explains(Upto(longer, Length(longer)), next)
      BY <2>1, <2>7, <3>1, <3>2, <3>3, OneMore
    <3>5. QED
      BY <2>1, <3>4, WholeHistory
  <2>8. Recorded(longer)'
    <3>1. Len(log) \in 1..Len(log') /\ log'[Len(log)] = longer
      BY <2>1, <2>3, LiveFacts DEF Ranges
    <3>2. Upto(longer, Length(longer)) = longer /\ Length(longer) \in 0..Length(longer)
      BY <2>1, WholeHistory
    <3>3. QED
      BY <3>1, <3>2 DEF Recorded
  <2>9. RunningExplained'
    <3>1. CASE running' = None
      BY <3>1 DEF RunningExplained
    <3>2. CASE running' = [state |-> next, history |-> longer] /\ model.render[next] = obs
      <4>1. running'.state = next /\ running'.history = longer
        BY <3>2
      <4>2. Explains(longer, next)'
        BY <1>1, <2>7, <3>2, ExplainsKept
      <4>3. QED
        BY <2>8, <4>1, <4>2 DEF RunningExplained
    <3>3. QED
      BY <2>4, <3>1, <3>2
  <2>10. QED
    BY <1>1, <2>9 DEF CarriedInv
<1>5. QED
  BY <1>2, <1>3, <1>4 DEF Explore

LEMMA PlansCarries ==
  ASSUME Ranges, Screens, CarriedInv, Plans
  PROVE  CarriedInv'
<1>1. PICK state \in States, obs \in Observations : PlanFrom(state, obs)
  BY DEF Plans
<1>2. /\ phase' = "search" /\ model' = model /\ validated' = validated /\ log' = log
      /\ running' = running \/ (running' = [state |-> state, history |-> Live] /\ LiveState(state))
  BY <1>1 DEF PlanFrom, inputs, validation
<1>3. CurrentExplained' /\ CachedExplained'
  <2>1. CurrentExplained'
    BY <1>2 DEF CurrentExplained
  <2>2. CachedExplained'
    BY <1>2, ExplainsKept DEF CarriedInv, CachedExplained
  <2>3. QED
    BY <2>1, <2>2
<1>4. RunningExplained'
  <2>1. CASE running' = running
    BY <1>2, <2>1, ExplainsKept DEF CarriedInv, RunningExplained, Recorded
  <2>2. CASE running' = [state |-> state, history |-> Live] /\ LiveState(state)
    <3>1. running'.state = state /\ running'.history = Live /\ Explains(Live, state)
      BY <2>2, LiveStateExplained DEF CarriedInv
    <3>2. Recorded(Live)
      <4>1. Len(log) \in 1..Len(log) /\ log[Len(log)] \in History
        BY LiveFacts
      <4>2. QED
        BY <4>1, WholeHistory DEF Recorded, Live
    <3>3. QED
      BY <1>2, <3>1, <3>2, ExplainsKept DEF RunningExplained, Recorded
  <2>3. QED
    BY <1>2, <2>1, <2>2
<1>5. QED
  BY <1>3, <1>4 DEF CarriedInv

LEMMA SearchCarries ==
  ASSUME CarriedInv, UNCHANGED <<inputs, log, validation, running>>, phase' # "validate" \/ phase' = phase
  PROVE  CarriedInv'
<1>1. /\ model' = model /\ log' = log /\ running' = running /\ validated' = validated
      /\ episode' = episode /\ checked' = checked /\ current' = current
  BY DEF inputs, validation
<1>2. CurrentExplained'
  BY <1>1, ExplainsKept DEF CarriedInv, CurrentExplained
<1>3. CachedExplained'
  BY <1>1, ExplainsKept DEF CarriedInv, CachedExplained
<1>4. RunningExplained'
  BY <1>1, ExplainsKept DEF CarriedInv, RunningExplained, Recorded
<1>5. QED
  BY <1>2, <1>3, <1>4 DEF CarriedInv

LEMMA CarriedHolds == Spec => []CarriedInv
<1>1. Init => CarriedInv
  BY DEF Init, CarriedInv, CurrentExplained, CachedExplained, RunningExplained
<1>2. ModelInv /\ CarriedInv /\ [Next]_vars => CarriedInv'
  <2>1. SUFFICES ASSUME ModelInv, CarriedInv, [Next]_vars PROVE CarriedInv'
    OBVIOUS
  <2>2. Ranges /\ Screens
    BY <2>1 DEF ModelInv
  <2>3. CASE Replay
    BY <2>1, <2>2, <2>3, ReplayCarries
  <2>4. CASE Explore
    BY <2>1, <2>2, <2>4, ExploreCarries
  <2>5. CASE Plans
    BY <2>1, <2>2, <2>5, PlansCarries
  <2>6. CASE Search
    <3>1. UNCHANGED <<inputs, log, validation, running>> /\ phase' # "validate"
      BY <2>6, SearchFrame
    <3>2. QED
      BY <2>1, <3>1, SearchCarries
  <2>7. CASE UNCHANGED vars
    <3>1. UNCHANGED <<inputs, log, validation, running>> /\ phase' = phase
      BY <2>7 DEF vars
    <3>2. QED
      BY <2>1, <3>1, SearchCarries
  <2>8. QED
    BY <2>1, <2>3, <2>4, <2>5, <2>6, <2>7, NextCases
<1>3. QED
  BY <1>1, <1>2, WorldModelHolds, PTL DEF Spec

(* The State that validation, runs, resets, resumes and plans carry on is what
   the model computes from the first screen of a recorded history, and it
   explains every screen on the way.                                          *)
THEOREM LiveHolds == Spec => []LiveTrue
<1>1. CarriedInv => LiveTrue
  BY DEF CarriedInv, RunningExplained, Recorded, LiveTrue
<1>2. QED
  BY <1>1, CarriedHolds, PTL

-----------------------------------------------------------------------------
(* The types and the planner's limits. *)

(* No history is both carried over and refuted. *)
VerdictsTyped ==
  /\ verdict \in {"none", "accepted", "rejected", "error"} /\ episode <= Len(log) + 1
  /\ current \in States \cup {None} /\ (checked > 0 => current \in States)
  /\ \A pair \in validated : pair[1] \notin diverged
FailedTyped == failed \in BOOLEAN
EvidenceTyped == evidence \in 0..MaxEvidence

(* A limit is looked at before each call and each node. *)
CallsLimited == MaxCalls # None => calls <= MaxCalls
NodesLimited == MaxNodes # None => Len(nodes) <= IF MaxNodes > 1 THEN MaxNodes ELSE 1
TreeLimited ==
  \A i \in 1..Len(nodes) :
    nodes[i].parent \in 0..(i - 1) /\ (MaxDepth # None => nodes[i].depth <= MaxDepth)
LimitsInv == CallsLimited /\ NodesLimited /\ TreeLimited
TypesInv == VerdictsTyped /\ FailedTyped /\ EvidenceTyped /\ LimitsInv

LEMMA TypesImply == ModelInv /\ TypesInv => TypeOK
<1>1. SUFFICES ASSUME ModelInv, TypesInv PROVE TypeOK
  OBVIOUS
<1>2. Ranges /\ SearchRanges /\ Len(nodes) \in Nat /\ Len(log) \in Nat \ {0}
  BY <1>1, LiveFacts DEF ModelInv, SearchRanges
<1>3. ASSUME NEW i \in 1..Len(nodes)
      PROVE  /\ nodes[i].state \in States /\ nodes[i].obs \in Observations /\ nodes[i].novel \in BOOLEAN
             /\ nodes[i].parent \in 0..(i - 1) /\ nodes[i].depth \in Nat
             /\ MaxDepth # None => nodes[i].depth <= MaxDepth
  <2>1. nodes[i] \in Nodes
    BY <1>2, ElementOfSeq DEF SearchRanges
  <2>2. QED
    BY <1>1, <2>1 DEF Nodes, TypesInv, LimitsInv, TreeLimited
<1>4. \A pair \in validated : pair[2] \in States /\ pair[1] \notin diverged
  BY <1>1, <1>2 DEF Ranges, TypesInv, VerdictsTyped
<1>5. /\ cursor \in 1..(Len(nodes) + 1) /\ choice \in Nat \ {0} /\ best \in 0..Len(nodes) /\ calls \in Nat
      /\ visited \subseteq States \X BOOLEAN /\ depthLimited \in BOOLEAN
  BY <1>2 DEF SearchRanges, Keys
<1>6. /\ single \in BOOLEAN /\ phase \in {"validate", "explore", "search", "planned", "over"}
      /\ episode \in 1..(Len(log) + 1) /\ checked \in Nat
  BY <1>1, <1>2 DEF Ranges, TypesInv, VerdictsTyped
<1>7. QED
  BY <1>1, <1>2, <1>3, <1>4, <1>5, <1>6
  DEF TypeOK, TypesInv, VerdictsTyped, FailedTyped, EvidenceTyped, LimitsInv, CallsLimited, NodesLimited

LEMMA ReplayTypes ==
  ASSUME ModelInv, TypesInv, Replay
  PROVE  TypesInv'
<1>1. /\ Ranges /\ Screens /\ VerdictsTyped /\ Len(log) \in Nat /\ episode \in Nat /\ checked \in Nat
      /\ UNCHANGED <<inputs, log, search, evidence>>
  BY ReplayFrame, LiveFacts DEF ModelInv, TypesInv, Ranges
<1>2. EvidenceTyped' /\ LimitsInv'
  BY <1>1 DEF TypesInv, EvidenceTyped, LimitsInv, CallsLimited, NodesLimited, TreeLimited, search
<1>3. ASSUME \E state \in States : ReuseState(state) PROVE VerdictsTyped'
  <2>1. PICK state \in States : ReuseState(state)
    BY <1>3
  <2>2. /\ verdict' = verdict /\ episode' = episode /\ log' = log /\ checked' = checked + 1 /\ current' = state
        /\ validated' = validated /\ diverged' = diverged
    BY <2>1 DEF ReuseState, GoOn
  <2>3. QED
    BY <1>1, <2>2 DEF VerdictsTyped
<1>4. ASSUME Matches PROVE VerdictsTyped'
  <2>1. Predicted \in States /\ Here \notin diverged
    BY <1>1, <1>4, PredictedFacts DEF Matches, Unjudged
  <2>2. \A pair \in validated' : pair \in validated \/ pair = <<Here, Predicted>>
    BY <1>4 DEF Matches
  <2>3. \A pair \in validated' : pair[1] \notin diverged
    BY <1>1, <2>1, <2>2 DEF VerdictsTyped
  <2>4. QED
    <3>1. /\ verdict' = verdict /\ episode' = episode /\ log' = log /\ checked' = checked + 1
          /\ current' = Predicted /\ diverged' = diverged
      BY <1>4 DEF Matches, GoOn
    <3>2. QED
      BY <1>1, <2>1, <2>3, <3>1 DEF VerdictsTyped
<1>5. ASSUME Mismatch PROVE VerdictsTyped'
  <2>1. \A pair \in validated : pair[1] # Here /\ pair[1] \notin diverged
    BY <1>1, <1>5 DEF Mismatch, Unjudged, VerdictsTyped
  <2>2. diverged' = diverged \/ diverged' = diverged \cup {Here}
    BY <1>5 DEF Mismatch
  <2>3. \A pair \in validated : pair[1] \notin diverged'
    BY <2>1, <2>2
  <2>4. episode' <= Len(log) + 1
    BY <1>1, <1>5 DEF Mismatch, Unjudged, Judged, LeaveEpisode
  <2>5. QED
    <3>1. /\ verdict' = verdict /\ log' = log /\ checked' = 0 /\ current' = current
          /\ validated' = validated
      BY <1>5 DEF Mismatch, LeaveEpisode
    <3>2. QED
      BY <1>1, <2>3, <2>4, <3>1 DEF VerdictsTyped
<1>6. ASSUME ReuseFailure \/ EndEpisode PROVE VerdictsTyped'
  <2>1. episode' <= Len(log) + 1
    BY <1>1, <1>6 DEF ReuseFailure, EndEpisode, Judged, LeaveEpisode
  <2>2. QED
    <3>1. /\ verdict' = verdict /\ log' = log /\ checked' = 0 /\ current' = current
          /\ validated' = validated /\ diverged' = diverged
      BY <1>6 DEF ReuseFailure, EndEpisode, LeaveEpisode
    <3>2. QED
      BY <1>1, <2>1, <3>1 DEF VerdictsTyped
<1>7. ASSUME ValidationFails \/ FinishValidation PROVE VerdictsTyped'
  <2>1. /\ verdict' \in {"accepted", "rejected", "error"} /\ log' = log /\ checked' = checked
        /\ current' = current /\ episode' = episode /\ validated' = validated /\ diverged' = diverged
    BY <1>7 DEF ValidationFails, FinishValidation
  <2>2. QED
    BY <1>1, <2>1 DEF VerdictsTyped
<1>8. FailedTyped'
  <2>1. failed' = failed \/ failed' = TRUE
    BY Zenon DEF Replay, ReuseState, GoOn, ReuseFailure, Matches, Mismatch, EndEpisode, ValidationFails,
                 FinishValidation
  <2>2. QED
    BY <2>1, Zenon DEF TypesInv, FailedTyped
<1>9. QED
  BY <1>2, <1>3, <1>4, <1>5, <1>6, <1>7, <1>8 DEF Replay, TypesInv

LEMMA ExploreTypes ==
  ASSUME ModelInv, TypesInv, Explore
  PROVE  TypesInv'
<1>1. UNCHANGED <<inputs, validation, search>> /\ Ranges /\ Len(log) \in Nat \ {0} /\ Live \in History
  BY ExploreFrame, LiveFacts DEF ModelInv
<1>2. LimitsInv'
  BY <1>1 DEF TypesInv, LimitsInv, CallsLimited, NodesLimited, TreeLimited, search
<1>3. EvidenceTyped'
  <2>1. evidence' = evidence \/ (evidence < MaxEvidence /\ evidence' = evidence + 1)
    BY DEF Explore, ResetReal, Resume, Refuted, RealStep, Recording, Grow
  <2>2. QED
    BY <2>1, WorldModelAssumption DEF TypesInv, EvidenceTyped
<1>4. Len(log') >= Len(log) /\ Len(log') \in Nat
  <2>1. CASE ResetReal
    <3>1. PICK first \in Observations : log' = Append(log, [first |-> first, steps |-> <<>>])
      BY <2>1 DEF ResetReal, Grow
    <3>2. [first |-> first, steps |-> <<>>] \in History
      BY DEF History
    <3>3. QED
      BY <1>1, <3>1, <3>2, AppendProperties DEF Ranges
  <2>2. CASE Resume \/ Refuted
    BY <1>1, <2>2 DEF Resume, Refuted
  <2>3. ASSUME NEW state \in States, NEW action \in Actions, NEW obs \in Observations, NEW judged \in BOOLEAN,
               RealStep(state, action, obs, judged)
        PROVE  Len(log') = Len(log)
    <3>1. \E longer : log' = [log EXCEPT ![Len(log)] = longer]
      BY <2>3 DEF RealStep, Grow
    <3>2. QED
      BY <1>1, <3>1 DEF Ranges
  <2>4. QED
    BY <1>1, <2>1, <2>2, <2>3 DEF Explore
<1>5. VerdictsTyped' /\ FailedTyped'
  BY <1>1, <1>4 DEF TypesInv, VerdictsTyped, FailedTyped, validation, Ranges
<1>6. QED
  BY <1>2, <1>3, <1>5 DEF TypesInv

LEMMA PlansTypes ==
  ASSUME ModelInv, TypesInv, Plans
  PROVE  TypesInv'
<1>1. PICK state \in States, obs \in Observations : PlanFrom(state, obs)
  BY DEF Plans
<1>2. VerdictsTyped' /\ FailedTyped' /\ EvidenceTyped' /\ CallsLimited'
  BY <1>1 DEF PlanFrom, TypesInv, VerdictsTyped, FailedTyped, EvidenceTyped, LimitsInv, CallsLimited, validation
<1> DEFINE first == [state |-> state, obs |-> obs, parent |-> 0, action |-> None, depth |-> 0, novel |-> FALSE]
<1>3. nodes' = <<first>> /\ first.parent = 0 /\ first.depth = 0
  BY <1>1 DEF PlanFrom
<1> HIDE DEF first
<1>4. Len(nodes') = 1 /\ nodes'[1] = first
  BY <1>3
<1>5. NodesLimited' /\ TreeLimited'
  BY <1>3, <1>4, WorldModelAssumption DEF NodesLimited, TreeLimited
<1>6. QED
  BY <1>2, <1>5 DEF TypesInv, LimitsInv

LEMMA SearchTypes ==
  ASSUME ModelInv, TypesInv, Search
  PROVE  TypesInv'
<1>1. Ranges /\ SearchRanges /\ Len(nodes) \in Nat /\ calls \in Nat /\ LimitsInv
      /\ UNCHANGED <<log, validation, evidence>>
  BY SearchFrame DEF ModelInv, SearchRanges, TypesInv
<1>2. VerdictsTyped' /\ FailedTyped' /\ EvidenceTyped'
  BY <1>1 DEF TypesInv, VerdictsTyped, FailedTyped, EvidenceTyped, validation
<1>3. CallsLimited'
  <2>1. SUFFICES ASSUME MaxCalls # None PROVE calls' <= MaxCalls
    BY DEF CallsLimited
  <2>2. MaxCalls \in Nat /\ calls <= MaxCalls
    BY <1>1, <2>1, WorldModelAssumption DEF LimitsInv, CallsLimited
  <2>3. CASE SkipNode \/ LeaveNode \/ PlanFails \/ Exhausted
    BY <2>2, <2>3 DEF SkipNode, LeaveNode, PlanFails, Exhausted, search
  <2>4. CASE LimitStops
    BY <1>1, <2>1, <2>2, <2>4 DEF LimitStops, Reached
  <2>5. CASE TimeStops
    BY <1>1, <2>1, <2>2, <2>5 DEF TimeStops, Reached
  <2>6. CASE SeenBefore \/ MemoryStops \/ GoalTimesOut \/ FindNode
    BY <1>1, <2>1, <2>2, <2>6 DEF SeenBefore, MemoryStops, GoalTimesOut, FindNode, Store, MayCall, Reached
  <2>7. QED
    BY <2>3, <2>4, <2>5, <2>6 DEF Search
<1>4. CASE nodes' = nodes
  BY <1>1, <1>2, <1>3, <1>4 DEF TypesInv, LimitsInv, NodesLimited, TreeLimited
<1>5. CASE Store
  <2>1. MayCall /\ Tries /\ nodes' = Append(nodes, Child)
    BY <1>5 DEF Store, MayCall
  <2>2. /\ cursor \in 1..Len(nodes) /\ Node = nodes[cursor] /\ Node \in Nodes
        /\ Child \in Nodes /\ Child.parent = cursor /\ Child.depth = Node.depth + 1
    <3>1. SearchInv /\ phase = "search"
      BY <2>1 DEF ModelInv, Tries, Expands, Searching
    <3>2. QED
      BY <1>1, <2>1, <3>1, ChildFacts DEF SearchInv, Child
  <2>3. /\ Len(nodes') = Len(nodes) + 1 /\ nodes'[Len(nodes) + 1] = Child
        /\ \A i \in 1..Len(nodes) : nodes'[i] = nodes[i]
    BY <1>1, <2>1, <2>2, AppendProperties DEF SearchRanges
  <2>4. NodesLimited'
    <3>1. SUFFICES ASSUME MaxNodes # None PROVE Len(nodes') <= IF MaxNodes > 1 THEN MaxNodes ELSE 1
      BY DEF NodesLimited
    <3>2. MaxNodes \in Nat /\ Len(nodes) < MaxNodes
      BY <1>1, <2>1, <3>1, WorldModelAssumption DEF MayCall, Reached
    <3>3. QED
      BY <1>1, <2>3, <3>2
  <2>5. Child.depth \in Nat /\ (MaxDepth # None => Child.depth <= MaxDepth)
    <3>1. Node.depth \in Nat /\ ~Reached(Node.depth, MaxDepth)
      BY <2>1, <2>2 DEF Nodes, Tries, Expands
    <3>2. QED
      BY <2>2, <3>1, WorldModelAssumption DEF Reached
  <2>6. TreeLimited'
    <3>1. SUFFICES ASSUME NEW i \in 1..Len(nodes')
                   PROVE  nodes'[i].parent \in 0..(i - 1) /\ (MaxDepth # None => nodes'[i].depth <= MaxDepth)
      BY DEF TreeLimited
    <3>2. CASE i \in 1..Len(nodes)
      BY <1>1, <2>3, <3>2 DEF LimitsInv, TreeLimited
    <3>3. CASE i = Len(nodes) + 1
      BY <1>1, <2>2, <2>3, <2>5, <3>3
    <3>4. QED
      BY <1>1, <2>3, <3>2, <3>3
  <2>7. QED
    BY <1>2, <1>3, <2>4, <2>6 DEF TypesInv, LimitsInv
<1>6. QED
  BY <1>4, <1>5, StoredOrSame

LEMMA TypesHold == Spec => []TypesInv
<1>1. Init => TypesInv
  <2>1. SUFFICES ASSUME Init PROVE TypesInv
    OBVIOUS
  <2>2. Len(log) \in Nat \ {0}
    BY <2>1, InitRanges, LiveFacts
  <2>3. VerdictsTyped /\ EvidenceTyped
    BY <2>1, <2>2, WorldModelAssumption DEF Init, VerdictsTyped, EvidenceTyped
  <2>4. FailedTyped
    BY <2>1, Zenon DEF Init, FailedTyped
  <2>5. LimitsInv
    BY <2>1, WorldModelAssumption DEF Init, NoNodes, LimitsInv, CallsLimited, NodesLimited, TreeLimited
  <2>6. QED
    BY <2>3, <2>4, <2>5 DEF TypesInv
<1>2. ModelInv /\ TypesInv /\ [Next]_vars => TypesInv'
  <2>1. SUFFICES ASSUME ModelInv, TypesInv, [Next]_vars PROVE TypesInv'
    OBVIOUS
  <2>2. CASE UNCHANGED vars
    BY <2>1, <2>2 DEF vars, inputs, validation, search, TypesInv, VerdictsTyped, FailedTyped, EvidenceTyped,
                      LimitsInv, CallsLimited, NodesLimited, TreeLimited
  <2>3. QED
    BY <2>1, <2>2, NextCases, ReplayTypes, ExploreTypes, PlansTypes, SearchTypes
<1>3. QED
  BY <1>1, <1>2, WorldModelHolds, PTL DEF Spec

(* PlanInCWM keeps its limits, for any of them and for none: no more calls and
   no deeper nodes than allowed, and no more nodes than allowed or one.  The
   caches of validate() never hold a history as carried over and as refuted.  *)
THEOREM TypeCorrect == Spec => []TypeOK
BY TypesHold, WorldModelHolds, TypesImply, PTL

-----------------------------------------------------------------------------
(* The verdict. *)

(* Among the numbers of a set there is a least one. *)
LEMMA Least ==
  ASSUME NEW T \in SUBSET Nat, T # {}
  PROVE  \E n \in T : \A m \in T : n <= m
<1> DEFINE Below == OpToRel(<, Nat)
<1>1. IsWellFoundedOn(Below, Nat)
  BY NatLessThanWellFounded, Zenon
<1>2. \A m, n \in Nat : m < n => <<m, n>> \in Below
  BY DEF OpToRel
<1> HIDE DEF Below
<1>3. PICK n \in T : \A m \in T : ~ (<<m, n>> \in Below)
  BY <1>1, WFMin, Zenon
<1>4. \A m \in T : ~ (m < n)
  BY <1>2, <1>3
<1>5. QED
  BY <1>4

LEMMA UptoSteps ==
  ASSUME NEW h \in History, NEW n \in 0..Length(h)
  PROVE  \A i \in 1..n : Upto(h, n).steps[i] = h.steps[i] /\ ObsAt(Upto(h, n), i) = ObsAt(h, i)
<1>1. h.steps \in Seq(Entries) /\ Len(h.steps) = Length(h) /\ Length(h) \in Nat /\ n \in Nat /\ n <= Length(h)
  BY DEF History, Entries, Length
<1>2. \A j \in 1..n : h.steps[j] \in Entries
  BY <1>1, ElementOfSeq
<1>3. \A j \in 1..(n - 1 + 1) : SubSeq(h.steps, 1, n)[j] = h.steps[1 + j - 1]
  BY <1>1, <1>2, SubSeqProperties
<1>4. \A i \in 1..n : SubSeq(h.steps, 1, n)[i] = h.steps[i]
  BY <1>1, <1>3
<1>5. QED
  BY <1>4 DEF Upto, ObsAt

(* A run that carries a history carries each history it starts with. *)
LEMMA PrefixExplained ==
  ASSUME NEW h \in History, NEW n \in 0..Length(h), NEW k \in 0..n, NEW run \in [0..n -> States],
         run[0] = model.initial[h.first], model.render[run[0]] = h.first, Carries(run, Upto(h, n), 0)
  PROVE  Explains(Upto(h, k), run[k])
<1>1. Length(h) \in Nat /\ n \in Nat /\ k \in Nat /\ k <= n /\ n <= Length(h) /\ k \in 0..Length(h)
  BY UptoFacts
<1>2. Length(Upto(h, n)) = n /\ Length(Upto(h, k)) = k /\ Upto(h, k).first = h.first
  BY <1>1, UptoFacts DEF Upto
<1> DEFINE part == [i \in 0..k |-> run[i]]
<1>3. part \in [0..k -> States] /\ \A i \in 0..k : part[i] = run[i]
  BY <1>1
<1> HIDE DEF part
<1>4. ASSUME NEW i \in 1..k
      PROVE  /\ part[i] = model.step[<<part[i - 1], Upto(h, k).steps[i].action>>]
             /\ model.render[part[i]] = ObsAt(Upto(h, k), i)
  <2>1. i \in 1..n /\ i \in 0..k /\ i - 1 \in 0..k
    BY <1>1
  <2>2. run[i] = model.step[<<run[i - 1], Upto(h, n).steps[i].action>>]
        /\ model.render[run[i]] = ObsAt(Upto(h, n), i)
    BY <1>2, <2>1 DEF Carries
  <2>3. Upto(h, n).steps[i] = Upto(h, k).steps[i] /\ ObsAt(Upto(h, n), i) = ObsAt(Upto(h, k), i)
    BY <1>1, <2>1, UptoSteps
  <2>4. QED
    BY <1>3, <2>1, <2>2, <2>3
<1>5. Carries(part, Upto(h, k), 0)
  BY <1>2, <1>4 DEF Carries
<1>6. part[0] = run[0] /\ part[k] = run[k]
  BY <1>1, <1>3
<1>7. QED
  BY <1>2, <1>3, <1>5, <1>6 DEF Explains

(* A model is a function: it explains a history by one State at most. *)
LEMMA OneExplanation ==
  ASSUME NEW h \in History, NEW s, NEW t, Explains(h, s), Explains(h, t)
  PROVE  s = t
<1>1. PICK left \in [0..Length(h) -> States] :
        left[0] = model.initial[h.first] /\ Carries(left, h, 0) /\ left[Length(h)] = s
  BY DEF Explains
<1>2. PICK right \in [0..Length(h) -> States] :
        right[0] = model.initial[h.first] /\ Carries(right, h, 0) /\ right[Length(h)] = t
  BY DEF Explains
<1>3. Length(h) \in Nat
  BY DEF History, Length
<1> DEFINE Apart == {i \in 0..Length(h) : left[i] # right[i]}
<1>4. ASSUME Apart # {} PROVE FALSE
  <2>1. Apart \in SUBSET Nat
    BY <1>3
  <2>2. PICK n \in Apart : \A m \in Apart : n <= m
    BY <1>4, <2>1, Least
  <2>3. n \in 1..Length(h) /\ n - 1 \in 0..Length(h) /\ n - 1 \notin Apart
    BY <1>1, <1>2, <1>3, <2>2
  <2>4. left[n - 1] = right[n - 1]
    BY <2>3
  <2>5. left[n] = model.step[<<left[n - 1], h.steps[n].action>>]
        /\ right[n] = model.step[<<right[n - 1], h.steps[n].action>>]
    <3>1. n \in (0 + 1)..Length(h)
      BY <2>3
    <3>2. QED
      BY <1>1, <1>2, <3>1 DEF Carries
  <2>6. QED
    BY <2>2, <2>4, <2>5
<1>5. left[Length(h)] = right[Length(h)]
  BY <1>3, <1>4
<1>6. QED
  BY <1>1, <1>2, <1>5

Unexplained(h) == \A state \in States : ~ Explains(h, state)

(* No history goes on from one that the model does not explain. *)
LEMMA UnexplainedAfter ==
  ASSUME NEW h \in History, NEW k \in 0..Length(h), Unexplained(Upto(h, k))
  PROVE  Unexplained(h)
<1>1. SUFFICES ASSUME NEW state \in States, Explains(h, state) PROVE FALSE
  BY DEF Unexplained
<1>2. PICK run \in [0..Length(h) -> States] :
        run[0] = model.initial[h.first] /\ model.render[run[0]] = h.first /\ Carries(run, h, 0)
  BY <1>1 DEF Explains
<1>3. Upto(h, Length(h)) = h /\ Length(h) \in 0..Length(h)
  BY WholeHistory
<1>4. Explains(Upto(h, k), run[k])
  BY <1>2, <1>3, PrefixExplained
<1>5. run[k] \in States
  BY <1>2
<1>6. QED
  BY <1>4, <1>5 DEF Unexplained

(* The screen at which a prediction and the record part refutes the history. *)
LEMMA Refutes ==
  ASSUME Ranges, Screens, CarriedInv, Judged, model.render[Predicted] # ObsAt(log[episode], checked)
  PROVE  Unexplained(Here)
<1>1. log[episode] \in History /\ checked \in 0..Length(log[episode]) /\ Length(Here) = checked
      /\ checked \in Nat /\ Length(log[episode]) \in Nat
  BY PredictedFacts, LiveFacts DEF Judged, Ranges
<1>2. SUFFICES ASSUME NEW state \in States, Explains(Here, state) PROVE FALSE
  BY DEF Unexplained
<1>3. PICK run \in [0..checked -> States] :
        /\ run[0] = model.initial[log[episode].first] /\ model.render[run[0]] = log[episode].first
        /\ Carries(run, Here, 0)
  BY <1>1, <1>2 DEF Explains, Here, Upto
<1>4. CASE checked = 0
  BY <1>3, <1>4 DEF Predicted, ObsAt
<1>5. CASE checked # 0
  <2>1. checked \in 1..checked /\ checked - 1 \in 0..checked
    BY <1>1, <1>5
  <2>2. Explains(Upto(log[episode], checked - 1), run[checked - 1])
    BY <1>1, <1>3, <2>1, PrefixExplained DEF Here
  <2>3. Explains(Upto(log[episode], checked - 1), current)
    BY <1>1, <1>5 DEF Judged, CarriedInv, CurrentExplained
  <2>4. checked - 1 \in 0..Length(log[episode])
    BY <1>1, <2>1
  <2>5. Upto(log[episode], checked - 1) \in History
    BY <1>1, <2>4, UptoFacts
  <2>6. run[checked - 1] = current
    BY <2>2, <2>3, <2>5, OneExplanation
  <2>7. run[checked] = model.step[<<run[checked - 1], Here.steps[checked].action>>]
        /\ model.render[run[checked]] = ObsAt(Here, checked)
    BY <1>1, <1>3, <2>1 DEF Carries
  <2>8. Here.steps[checked] = log[episode].steps[checked] /\ ObsAt(Here, checked) = ObsAt(log[episode], checked)
    BY <1>1, <2>1, UptoSteps DEF Here
  <2>9. QED
    BY <1>5, <2>6, <2>7, <2>8 DEF Predicted
<1>6. QED
  BY <1>4, <1>5

(* What is called refuted is unexplained, and the failures are the episodes that
   no State explains, of those replayed so far and in the end of all.           *)
DivergedInv == \A h \in diverged : Unexplained(h)
FailuresInv ==
  /\ phase = "validate" =>
       /\ verdict = "none" /\ (diverged # {} => failed = TRUE)
       /\ failed = TRUE <=> \E e \in 1..(episode - 1) : Unexplained(log[e])
  /\ verdict \in {"accepted", "rejected"} /\ evidence = 0 =>
       (failed = TRUE <=> \E e \in 1..Len(log) : Unexplained(log[e]))
VerdictInv == DivergedInv /\ FailuresInv

LEMMA UnexplainedKept ==
  ASSUME model' = model
  PROVE  \A h : Unexplained(h)' <=> Unexplained(h)
BY DEF Unexplained, Explains, Carries

LEMMA ReplayVerdict ==
  ASSUME ModelInv, TypesInv, CarriedInv, VerdictInv, Replay
  PROVE  VerdictInv'
<1> DEFINE Wrong(e) == Unexplained(log[e])
<1>1. /\ Ranges /\ Screens /\ phase = "validate" /\ model' = model /\ log' = log /\ evidence' = evidence
      /\ episode \in Nat \ {0} /\ checked \in Nat /\ Len(log) \in Nat /\ episode <= Len(log) + 1
  BY ReplayFrame, LiveFacts DEF ModelInv, TypesInv, VerdictsTyped, Ranges, inputs
<1>2. /\ \A h \in diverged : Unexplained(h)
      /\ verdict = "none" /\ (diverged # {} => failed = TRUE)
      /\ failed = TRUE <=> \E e \in 1..(episode - 1) : Wrong(e)
  BY <1>1 DEF VerdictInv, DivergedInv, FailuresInv
<1>3. ASSUME NEW e PROVE Wrong(e)' <=> Wrong(e)
  BY <1>1, UnexplainedKept
<1>4. ASSUME diverged' \subseteq diverged \/ (diverged' \subseteq diverged \cup {Here} /\ Unexplained(Here))
      PROVE  DivergedInv'
  <2>1. \A h \in diverged' : Unexplained(h)
    BY <1>2, <1>4
  <2>2. QED
    BY <1>1, <2>1, UnexplainedKept DEF DivergedInv
<1> HIDE DEF Wrong
<1>5. ASSUME phase' = "validate", verdict' = "none", diverged' # {} => failed' = TRUE,
             failed' = TRUE <=> \E e \in 1..(episode' - 1) : Wrong(e)
      PROVE  FailuresInv'
  BY <1>3, <1>5 DEF FailuresInv, Wrong
<1>6. ASSUME episode <= Len(log), episode' = episode + 1, Wrong(episode), failed' = TRUE
      PROVE  failed' = TRUE <=> \E e \in 1..(episode' - 1) : Wrong(e)
  BY <1>1, <1>6
<1>7. ASSUME episode' = episode + 1, ~Wrong(episode), failed' = failed
      PROVE  failed' = TRUE <=> \E e \in 1..(episode' - 1) : Wrong(e)
  <2>1. \A e : e \in 1..(episode' - 1) <=> e \in 1..(episode - 1) \/ e = episode
    BY <1>1, <1>7
  <2>2. QED
    BY <1>2, <1>7, <2>1
<1>8. CASE (\E state \in States : ReuseState(state)) \/ Matches
  <2>1. UNCHANGED <<diverged, failed, episode, phase, verdict>>
    BY <1>8 DEF ReuseState, Matches, GoOn
  <2>2. QED
    BY <1>1, <1>2, <1>4, <1>5, <2>1 DEF VerdictInv
<1>9. CASE ReuseFailure
  <2>1. /\ Judged /\ Here \in diverged /\ episode <= Len(log)
        /\ episode' = episode + 1 /\ UNCHANGED <<diverged, failed, phase, verdict>>
    BY <1>9 DEF ReuseFailure, LeaveEpisode, Judged
  <2>2. Unexplained(Here) /\ failed = TRUE
    BY <1>2, <2>1
  <2>3. log[episode] \in History /\ checked \in 0..Length(log[episode])
    BY <1>1, <2>1, PredictedFacts
  <2>4. Wrong(episode)
    BY <2>2, <2>3, UnexplainedAfter DEF Wrong, Here
  <2>5. failed' = TRUE <=> \E e \in 1..(episode' - 1) : Wrong(e)
    BY <1>6, <2>1, <2>2, <2>4
  <2>6. QED
    BY <1>1, <1>2, <1>4, <1>5, <2>1, <2>2, <2>5 DEF VerdictInv
<1>10. CASE Mismatch
  <2>1. /\ Judged /\ model.render[Predicted] # ObsAt(log[episode], checked) /\ episode <= Len(log)
        /\ episode' = episode + 1 /\ failed' = TRUE /\ UNCHANGED <<phase, verdict>>
        /\ diverged' \subseteq diverged \cup {Here}
    BY <1>10 DEF Mismatch, LeaveEpisode, Unjudged, Judged
  <2>2. Unexplained(Here)
    BY <1>1, <2>1, Refutes
  <2>3. log[episode] \in History /\ checked \in 0..Length(log[episode])
    BY <1>1, <2>1, PredictedFacts
  <2>4. Wrong(episode)
    BY <2>2, <2>3, UnexplainedAfter DEF Wrong, Here
  <2>5. failed' = TRUE <=> \E e \in 1..(episode' - 1) : Wrong(e)
    BY <1>6, <2>1, <2>4
  <2>6. QED
    BY <1>1, <1>2, <1>4, <1>5, <2>1, <2>2, <2>5 DEF VerdictInv
<1>11. CASE EndEpisode
  <2>1. /\ episode \in 1..Len(log) /\ log[episode] \in History /\ checked > Length(log[episode])
        /\ Length(log[episode]) \in Nat /\ checked > 0
        /\ episode' = episode + 1 /\ UNCHANGED <<diverged, failed, phase, verdict>>
    BY <1>1, <1>11, LiveFacts DEF EndEpisode, LeaveEpisode
  <2>2. Explains(Upto(log[episode], checked - 1), current) /\ checked - 1 = Length(log[episode])
    BY <1>1, <2>1 DEF CarriedInv, CurrentExplained
  <2>3. Explains(log[episode], current) /\ current \in States
    BY <1>1, <2>1, <2>2, WholeHistory DEF TypesInv, VerdictsTyped
  <2>4. ~Wrong(episode)
    BY <2>3 DEF Wrong, Unexplained
  <2>5. failed' = TRUE <=> \E e \in 1..(episode' - 1) : Wrong(e)
    BY <1>7, <2>1, <2>4
  <2>6. QED
    BY <1>1, <1>2, <1>4, <1>5, <2>1, <2>5 DEF VerdictInv
<1>12. CASE ValidationFails
  <2>1. verdict' = "error" /\ phase' = "over" /\ diverged' = diverged
    BY <1>12 DEF ValidationFails
  <2>2. QED
    BY <1>4, <2>1 DEF VerdictInv, FailuresInv
<1>13. CASE FinishValidation
  <2>1. episode > Len(log) /\ UNCHANGED <<diverged, failed>> /\ phase' \in {"explore", "over"}
    BY <1>13 DEF FinishValidation
  <2>2. episode - 1 = Len(log)
    BY <1>1, <2>1
  <2>3. failed' = TRUE <=> \E e \in 1..Len(log) : Wrong(e)
    BY <1>2, <2>1, <2>2
  <2>4. failed' = TRUE <=> \E e \in 1..Len(log') : Unexplained(log[e])'
    BY <1>1, <1>3, <2>3 DEF Wrong
  <2>5. FailuresInv'
    BY <2>1, <2>4 DEF FailuresInv
  <2>6. QED
    BY <1>4, <2>1, <2>5 DEF VerdictInv
<1>14. QED
  BY <1>8, <1>9, <1>10, <1>11, <1>12, <1>13 DEF Replay

(* Before the first step or reset that is recorded, no episode is new. *)
LEMMA ExploreVerdict ==
  ASSUME TypesInv, VerdictInv, Explore
  PROVE  VerdictInv'
<1>1. /\ model' = model /\ phase = "explore" /\ phase' # "validate" /\ evidence \in Nat
      /\ UNCHANGED <<diverged, failed, verdict>>
  BY ExploreFrame, WorldModelAssumption DEF TypesInv, EvidenceTyped, inputs, validation
<1>2. log' = log \/ evidence' # 0
  <2>1. (log' = log /\ evidence' = evidence) \/ evidence' = evidence + 1
    BY DEF Explore, ResetReal, Resume, Refuted, RealStep, Grow
  <2>2. QED
    BY <1>1, <2>1
<1>3. evidence' = 0 => log' = log /\ evidence = 0
  <2>1. (log' = log /\ evidence' = evidence) \/ evidence' = evidence + 1
    BY DEF Explore, ResetReal, Resume, Refuted, RealStep, Grow
  <2>2. QED
    BY <1>1, <2>1
<1>4. DivergedInv'
  BY <1>1, UnexplainedKept DEF VerdictInv, DivergedInv
<1>5. FailuresInv'
  <2>1. SUFFICES ASSUME verdict' \in {"accepted", "rejected"}, evidence' = 0
                 PROVE  failed' = TRUE <=> \E e \in 1..Len(log') : Unexplained(log[e])'
    BY <1>1 DEF FailuresInv
  <2>2. failed = TRUE <=> \E e \in 1..Len(log) : Unexplained(log[e])
    BY <1>1, <1>3, <2>1 DEF VerdictInv, FailuresInv
  <2>3. \A e : Unexplained(log[e])' <=> Unexplained(log[e])
    <3>1. ASSUME NEW e PROVE Unexplained(log[e])' <=> Unexplained(log[e])
      BY <1>1, <1>3, <2>1 DEF Unexplained, Explains, Carries
    <3>2. QED
      BY <3>1
  <2>4. QED
    BY <1>1, <1>3, <2>1, <2>2, <2>3
<1>6. QED
  BY <1>4, <1>5 DEF VerdictInv

LEMMA SameVerdict ==
  ASSUME VerdictInv, UNCHANGED <<inputs, log, validation, evidence>>, phase' # "validate" \/ phase' = phase
  PROVE  VerdictInv'
<1>1. /\ model' = model /\ log' = log /\ evidence' = evidence
      /\ UNCHANGED <<diverged, failed, verdict, episode>>
  BY DEF inputs, validation
<1>2. \A e : Unexplained(log[e])' <=> Unexplained(log[e])
  <2>1. ASSUME NEW e PROVE Unexplained(log[e])' <=> Unexplained(log[e])
    BY <1>1 DEF Unexplained, Explains, Carries
  <2>2. QED
    BY <2>1
<1>3. DivergedInv'
  BY <1>1, UnexplainedKept DEF VerdictInv, DivergedInv
<1>4. FailuresInv'
  BY <1>1, <1>2 DEF VerdictInv, FailuresInv
<1>5. QED
  BY <1>3, <1>4 DEF VerdictInv

(* validate() takes over the States and the failures of histories it has met,
   and leaves an episode at its first failure: its verdict is still that of
   replaying every recorded episode whole and from nothing.                  *)
THEOREM VerdictHolds == Spec => []VerdictTrue
<1>1. Init => VerdictInv
  <2>1. SUFFICES ASSUME Init PROVE VerdictInv
    OBVIOUS
  <2>2. /\ diverged = {} /\ phase = "validate" /\ verdict = "none" /\ episode = 1
    BY <2>1 DEF Init
  <2>3. failed # TRUE
    BY <2>1, Zenon DEF Init
  <2>4. 1..(episode - 1) = {}
    BY <2>2
  <2>5. diverged = {} /\ verdict = "none" /\ verdict \notin {"accepted", "rejected"}
    BY <2>2
  <2>6. QED
    BY <2>3, <2>4, <2>5, Zenon DEF VerdictInv, DivergedInv, FailuresInv
<1>2. ModelInv /\ TypesInv /\ CarriedInv /\ VerdictInv /\ [Next]_vars => VerdictInv'
  <2>1. SUFFICES ASSUME ModelInv, TypesInv, CarriedInv, VerdictInv, [Next]_vars PROVE VerdictInv'
    OBVIOUS
  <2>2. CASE Replay
    BY <2>1, <2>2, ReplayVerdict
  <2>3. CASE Explore
    BY <2>1, <2>3, ExploreVerdict
  <2>4. CASE Plans
    <3>1. UNCHANGED <<inputs, log, validation, evidence>> /\ phase' # "validate"
      BY <2>4 DEF Plans, PlanFrom
    <3>2. QED
      BY <2>1, <3>1, SameVerdict
  <2>5. CASE Search
    <3>1. UNCHANGED <<inputs, log, validation, evidence>> /\ phase' # "validate"
      BY <2>5, SearchFrame
    <3>2. QED
      BY <2>1, <3>1, SameVerdict
  <2>6. CASE UNCHANGED vars
    <3>1. UNCHANGED <<inputs, log, validation, evidence>> /\ phase' = phase
      BY <2>6 DEF vars
    <3>2. QED
      BY <2>1, <3>1, SameVerdict
  <2>7. QED
    BY <2>1, <2>2, <2>3, <2>4, <2>5, <2>6, NextCases
<1>3. TypesInv /\ VerdictInv => VerdictTrue
  <2>1. SUFFICES ASSUME TypesInv, VerdictInv, verdict \in {"accepted", "rejected"}, evidence = 0
                 PROVE  failed <=> \E e \in 1..Len(log) : \A state \in States : ~Explains(log[e], state)
    BY DEF VerdictTrue
  <2>2. failed = TRUE <=> \E e \in 1..Len(log) : \A state \in States : ~Explains(log[e], state)
    BY <2>1 DEF VerdictInv, FailuresInv, Unexplained
  <2>3. failed \in BOOLEAN
    BY <2>1, Zenon DEF TypesInv, FailedTyped
  <2>4. QED
    BY <2>2, <2>3, Zenon
<1>4. QED
  BY <1>1, <1>2, <1>3, WorldModelHolds, TypesHold, CarriedHolds, PTL DEF Spec

-----------------------------------------------------------------------------
(* The plan. *)

(* Each node but the first is what one action of its parent leads to. *)
Grown(i) ==
  LET p == nodes[i].parent IN
  /\ p \in 1..(i - 1) /\ nodes[i].depth = nodes[p].depth + 1
  /\ nodes[p].obs \notin DoneObs /\ nodes[i].action \in Actions
  /\ \E j \in 1..Fan(p) : nodes[i].action = ActionsFor[nodes[p].obs][j]
  /\ nodes[i].state = model.step[<<nodes[p].state, nodes[i].action>>]
  /\ nodes[i].novel = TRUE <=> nodes[p].novel = TRUE \/ nodes[i].obs \notin Known(log)
TreeInv ==
  phase \in {"search", "planned"} => nodes[1].depth = 0 /\ \A i \in 2..Len(nodes) : Grown(i)

(* The search goes by depth: no node is deeper than one found later, and none
   more than a step deeper than the one that is expanded.                    *)
DepthsInv ==
  phase \in {"search", "planned"} =>
    /\ \A i, j \in 1..Len(nodes) : i < j => nodes[i].depth <= nodes[j].depth
    /\ cursor <= Len(nodes) => \A i \in 1..Len(nodes) : nodes[i].depth <= nodes[cursor].depth + 1

(* What one action leads to from a node that was passed was found as early. *)
Open(i) == nodes[i].obs \notin DoneObs /\ ~Reached(nodes[i].depth, MaxDepth)
Tried(i, j) == i < cursor \/ (i = cursor /\ j < choice)
Found(i, j) == \E m \in 1..Len(nodes) : NodeKey(m) = After(i, j) /\ nodes[m].depth <= nodes[i].depth + 1
BreadthInv ==
  phase \in {"search", "planned"} =>
    \A i \in 1..Len(nodes) : Open(i) => \A j \in 1..Fan(i) : Tried(i, j) => Found(i, j)

(* Of the nodes that were ranked with the highest utility, the best is among the
   least deep.                                                                  *)
FirstInv ==
  phase \in {"search", "planned"} /\ reason # "max_seconds" =>
    \A i \in 1..Len(nodes) : nodes[i].novel = TRUE =>
      /\ best # 0
      /\ \/ utility[nodes[i].state] < utility[nodes[best].state]
         \/ utility[nodes[i].state] = utility[nodes[best].state] /\ nodes[best].depth <= nodes[i].depth
PlanInv == TreeInv /\ DepthsInv /\ BreadthInv /\ FirstInv

LEMMA KeyParts ==
  ASSUME NEW i
  PROVE  NodeKey(i)[1] = nodes[i].state /\ NodeKey(i)[2] = nodes[i].novel
BY DEF NodeKey

LEMMA NodeFacts ==
  ASSUME SearchRanges, NEW i \in 1..Len(nodes)
  PROVE  /\ nodes[i] \in Nodes /\ nodes[i].state \in States /\ nodes[i].obs \in Observations
         /\ nodes[i].depth \in Nat /\ nodes[i].novel \in BOOLEAN /\ Fan(i) \in Nat
<1>1. nodes[i] \in Nodes
  BY ElementOfSeq DEF SearchRanges
<1>2. nodes[i].obs \in Observations
  BY <1>1 DEF Nodes
<1>3. ActionsFor[nodes[i].obs] \in Seq(Actions)
  BY <1>2, WorldModelAssumption
<1>4. QED
  BY <1>1, <1>3 DEF Nodes, Fan

(* What is known of a node found stays so. *)
LEMMA NodeKept ==
  ASSUME Ranges, SearchRanges, NodesInv, Search
  PROVE  /\ phase = "search" /\ model' = model /\ log' = log /\ utility' = utility
         /\ Len(nodes) \in Nat /\ Len(nodes) >= 1 /\ Len(nodes') \in {Len(nodes), Len(nodes) + 1}
         /\ \A i \in 1..Len(nodes) :
              /\ nodes'[i] = nodes[i] /\ NodeKey(i)' = NodeKey(i) /\ Fan(i)' = Fan(i)
              /\ \A j : After(i, j)' = After(i, j)
<1>1. phase = "search" /\ model' = model /\ log' = log /\ utility' = utility
  BY SearchFrame DEF inputs
<1>2. Len(nodes) >= 1
  BY <1>1 DEF NodesInv
<1>3. QED
  BY <1>1, <1>2, ReachableKept, ExpandedKept

LEMMA TreeStep ==
  ASSUME Ranges, SearchRanges, NodesInv, TreeInv, Search
  PROVE  TreeInv'
<1>1. /\ Len(nodes) \in Nat /\ Len(nodes) >= 1 /\ nodes[1].depth = 0 /\ nodes'[1] = nodes[1]
      /\ model' = model /\ log' = log
  BY NodeKept DEF TreeInv
<1>2. ASSUME NEW i \in 2..Len(nodes) PROVE Grown(i)'
  <2> DEFINE p == nodes[i].parent
  <2>1. Grown(i) /\ i \in 1..Len(nodes)
    BY <1>1, NodeKept DEF TreeInv
  <2>2. p \in 1..(i - 1) /\ p \in 1..Len(nodes)
    BY <1>1, <2>1 DEF Grown
  <2>3. nodes'[i] = nodes[i] /\ nodes'[p] = nodes[p] /\ Fan(p)' = Fan(p)
    BY <2>1, <2>2, NodeKept
  <2>4. \A j : j \in 1..Fan(p)' <=> j \in 1..Fan(p)
    BY <2>3
  <2> HIDE DEF p
  <2>5. nodes'[i].parent = p /\ nodes[i].parent = p
    BY <2>3 DEF p
  <2>6. QED
    BY <1>1, <2>1, <2>2, <2>3, <2>4, <2>5 DEF Grown, Fan
<1>3. CASE nodes' = nodes
  BY <1>1, <1>2, <1>3 DEF TreeInv
<1>4. CASE Store
  <2>1. /\ Tries /\ Len(nodes') = Len(nodes) + 1 /\ nodes'[Len(nodes) + 1] = Child
        /\ \A i \in 1..Len(nodes) : nodes'[i] = nodes[i]
    BY <1>4, StoreFacts
  <2>2. /\ cursor \in 1..Len(nodes) /\ Node = nodes[cursor] /\ Node \in Nodes /\ Node.obs \notin DoneObs
        /\ choice \in 1..Fan(cursor) /\ Child \in Nodes /\ Child.novel = Novel /\ Novel \in BOOLEAN
    BY <2>1, ChildFacts
  <2>3. /\ Child.parent = cursor /\ Child.depth = Node.depth + 1 /\ Child.action = Action
        /\ Child.state = Successor /\ Child.obs = model.render[Successor]
    BY DEF Child
  <2>4. Action = ActionsFor[Node.obs][choice] /\ Action \in Actions
    <3>1. ActionsFor[Node.obs] \in Seq(Actions)
      BY <2>2, WorldModelAssumption DEF Nodes
    <3>2. QED
      BY <2>2, <3>1, ElementOfSeq DEF Action, Fan
  <2>5. Successor = model.step[<<Node.state, Action>>]
    BY DEF Successor
  <2>6. Child.novel = TRUE <=> Node.novel = TRUE \/ Child.obs \notin Known(log)
    <3>1. Node.novel \in BOOLEAN
      BY <2>2, NodeFacts, Zenon
    <3>2. QED
      BY <2>2, <2>3, <3>1, Zenon DEF Novel
  <2>7. ASSUME NEW n, n = Len(nodes) + 1 PROVE Grown(n)'
    <3>1. nodes'[n] = Child /\ nodes'[cursor] = Node /\ cursor \in 1..(n - 1)
      BY <1>1, <2>1, <2>2, <2>7
    <3>2. \E j \in 1..Len(ActionsFor[Node.obs]) : Child.action = ActionsFor[Node.obs][j]
      BY <2>2, <2>3, <2>4 DEF Fan
    <3>3. nodes'[n].parent = cursor
      BY <2>3, <3>1
    <3>4. QED
      BY <1>1, <2>2, <2>3, <2>4, <2>5, <2>6, <3>1, <3>2, <3>3 DEF Grown, Fan
  <2>8. \A i \in 2..Len(nodes') : i \in 2..Len(nodes) \/ i = Len(nodes) + 1
    BY <1>1, <2>1
  <2>9. QED
    BY <1>1, <1>2, <2>7, <2>8 DEF TreeInv
<1>5. QED
  BY <1>3, <1>4, StoredOrSame

LEMMA DepthsStep ==
  ASSUME Ranges, SearchRanges, NodesInv, DepthsInv, Search
  PROVE  DepthsInv'
<1>1. /\ Len(nodes) \in Nat /\ cursor \in Nat \ {0} /\ \A i \in 1..Len(nodes) : nodes[i].depth \in Nat
      /\ \A i, j \in 1..Len(nodes) : i < j => nodes[i].depth <= nodes[j].depth
      /\ cursor <= Len(nodes) => \A i \in 1..Len(nodes) : nodes[i].depth <= nodes[cursor].depth + 1
  BY NodeKept, NodeFacts DEF DepthsInv, SearchRanges
<1>2. CASE nodes' = nodes
  <2>1. cursor' = cursor \/ (cursor' = cursor + 1 /\ cursor <= Len(nodes))
    BY DEF Search, SkipNode, LeaveNode, LimitStops, TimeStops, SeenBefore, MemoryStops, GoalTimesOut,
           FindNode, PlanFails, Exhausted, search, NextNode, Searching, Expands
  <2>2. CASE cursor' = cursor
    BY <1>1, <1>2, <2>2 DEF DepthsInv
  <2>3. CASE cursor' = cursor + 1 /\ cursor <= Len(nodes)
    <3>1. SUFFICES ASSUME cursor' <= Len(nodes'), NEW i \in 1..Len(nodes')
                   PROVE  nodes'[i].depth <= nodes'[cursor'].depth + 1
      BY <1>1, <1>2 DEF DepthsInv
    <3>2. cursor \in 1..Len(nodes) /\ cursor + 1 \in 1..Len(nodes) /\ i \in 1..Len(nodes)
      BY <1>1, <1>2, <2>3, <3>1
    <3>3. nodes[i].depth <= nodes[cursor].depth + 1 /\ nodes[cursor].depth <= nodes[cursor + 1].depth
      BY <1>1, <3>2
    <3>4. QED
      BY <1>1, <1>2, <2>3, <3>2, <3>3, SMTT(30)
  <2>4. QED
    BY <2>1, <2>2, <2>3
<1>3. CASE Store
  <2>1. /\ Tries /\ Len(nodes') = Len(nodes) + 1 /\ nodes'[Len(nodes) + 1] = Child
        /\ \A i \in 1..Len(nodes) : nodes'[i] = nodes[i]
    BY <1>3, StoreFacts
  <2>2. cursor \in 1..Len(nodes) /\ cursor' = cursor /\ Child.depth = nodes[cursor].depth + 1
    <3>1. cursor \in 1..Len(nodes) /\ Node = nodes[cursor]
      BY <2>1, ChildFacts
    <3>2. cursor' = cursor
      <4>1. cursor' = cursor \/ nodes' = nodes
        BY DEF Search, SkipNode, LeaveNode, LimitStops, TimeStops, SeenBefore, MemoryStops, GoalTimesOut,
               FindNode, PlanFails, Exhausted, search
      <4>2. nodes' # nodes
        BY <1>1, <2>1
      <4>3. QED
        BY <4>1, <4>2
    <3>3. QED
      BY <3>1, <3>2 DEF Child
  <2>3. \A i \in 1..Len(nodes) : nodes[i].depth <= Child.depth /\ nodes'[i].depth = nodes[i].depth
    BY <1>1, <2>1, <2>2
  <2>4. \A i \in 1..Len(nodes') : i \in 1..Len(nodes) \/ i = Len(nodes) + 1
    BY <1>1, <2>1
  <2>5. nodes'[Len(nodes) + 1].depth = Child.depth /\ Child.depth \in Nat
    BY <1>1, <2>1, <2>2
  <2>6. \A i, j \in 1..Len(nodes') : i < j => nodes'[i].depth <= nodes'[j].depth
    <3>1. SUFFICES ASSUME NEW i \in 1..Len(nodes'), NEW j \in 1..Len(nodes'), i < j
                   PROVE  nodes'[i].depth <= nodes'[j].depth
      OBVIOUS
    <3>2. i \in 1..Len(nodes)
      BY <1>1, <2>1, <3>1
    <3>3. QED
      BY <1>1, <2>3, <2>4, <2>5, <3>1, <3>2
  <2>7. ASSUME NEW i \in 1..Len(nodes') PROVE nodes'[i].depth <= nodes'[cursor'].depth + 1
    <3>1. nodes'[cursor'].depth = nodes[cursor].depth
      BY <2>2, <2>3
    <3>2. QED
      BY <1>1, <2>2, <2>3, <2>4, <2>5, <3>1
  <2>8. QED
    BY <2>6, <2>7 DEF DepthsInv
<1>4. QED
  BY <1>2, <1>3, StoredOrSame

LEMMA BreadthStep ==
  ASSUME Ranges, SearchRanges, NodesInv, SeenInv, DepthsInv, BreadthInv, Search
  PROVE  BreadthInv'
<1>1. /\ phase = "search" /\ Len(nodes) \in Nat /\ Len(nodes') \in {Len(nodes), Len(nodes) + 1}
      /\ cursor \in Nat \ {0} /\ cursor <= Len(nodes) + 1 /\ choice \in Nat \ {0}
  BY NodeKept DEF SearchRanges
<1>2. \A i \in 1..Len(nodes) : Open(i)' <=> Open(i)
  BY NodeKept DEF Open
<1>3. ASSUME NEW i \in 1..Len(nodes), NEW j, Found(i, j) PROVE Found(i, j)'
  <2>1. PICK m \in 1..Len(nodes) : NodeKey(m) = After(i, j) /\ nodes[m].depth <= nodes[i].depth + 1
    BY <1>3 DEF Found
  <2>2. NodeKey(m)' = NodeKey(m) /\ After(i, j)' = After(i, j) /\ nodes'[m] = nodes[m] /\ nodes'[i] = nodes[i]
    BY NodeKept
  <2>3. m \in 1..Len(nodes')
    BY <1>1
  <2>4. QED
    BY <2>1, <2>2, <2>3 DEF Found
<1>4. ASSUME \A i \in 1..Len(nodes) : Open(i) => \A j \in 1..Fan(i) : Tried(i, j)' => Tried(i, j) \/ Found(i, j)',
             cursor' <= Len(nodes) + 1, Len(nodes') = Len(nodes) \/ (cursor' <= Len(nodes) /\ cursor' \in Nat)
      PROVE  BreadthInv'
  <2>1. SUFFICES ASSUME NEW i \in 1..Len(nodes'), Open(i)', NEW j \in 1..Fan(i)', Tried(i, j)'
                 PROVE  Found(i, j)'
    BY DEF BreadthInv
  <2>2. i \in 1..Len(nodes)
    BY <1>1, <1>4, <2>1 DEF Tried
  <2>3. Open(i) /\ j \in 1..Fan(i)
    BY <1>2, <2>1, <2>2, NodeKept
  <2>4. QED
    BY <1>1, <1>3, <1>4, <2>1, <2>2, <2>3 DEF BreadthInv
<1>5. CASE SkipNode \/ LeaveNode
  <2>1. nodes' = nodes /\ cursor' = cursor + 1 /\ cursor \in 1..Len(nodes) /\ choice' = 1
    BY <1>1, <1>5 DEF SkipNode, LeaveNode, NextNode, Searching, Expands
  <2>2. Open(cursor) => choice > Fan(cursor)
    BY <1>1, <1>5, <2>1, NodeFacts DEF SkipNode, LeaveNode, Expands, Tries, Open, Node, Fan, Searching
  <2>3. ASSUME NEW i \in 1..Len(nodes), Open(i), NEW j \in 1..Fan(i), Tried(i, j)' PROVE Tried(i, j)
    <3>1. i < cursor \/ i = cursor
      BY <1>1, <2>1, <2>3 DEF Tried
    <3>2. CASE i = cursor
      <4>1. Fan(i) \in Nat /\ j < choice
        BY <1>1, <2>2, <2>3, <3>2, NodeFacts
      <4>2. QED
        BY <3>2, <4>1 DEF Tried
    <3>3. QED
      BY <3>1, <3>2 DEF Tried
  <2>4. QED
    BY <1>1, <1>4, <2>1, <2>3
<1>6. CASE Stops \/ PlanFails \/ Exhausted
  <2>1. nodes' = nodes /\ cursor' = cursor /\ choice' = choice
    BY <1>6, StopsFacts DEF PlanFails, Exhausted, search
  <2>2. \A i, j : Tried(i, j)' => Tried(i, j)
    BY <2>1 DEF Tried
  <2>3. QED
    BY <1>1, <1>4, <2>1, <2>2
<1>7. CASE SeenBefore \/ GoalTimesOut \/ FindNode
  <2>1. Tries /\ cursor' = cursor /\ choice' \in {choice, choice + 1}
    BY <1>7 DEF SeenBefore, GoalTimesOut, FindNode, Store, MayCall
  <2>2. cursor \in 1..Len(nodes) /\ choice \in 1..Fan(cursor) /\ Key = After(cursor, choice)
    BY <2>1, ChildFacts
  <2>3. ASSUME NEW i, i = cursor, NEW j, j = choice PROVE Found(i, j)'
    <3>1. /\ i \in 1..Len(nodes) /\ Key = After(i, j) /\ nodes'[i] = nodes[i]
          /\ After(i, j)' = After(i, j)
      BY <2>2, <2>3, NodeKept
    <3>2. CASE Key \in visited
      <4>1. PICK m \in 1..Len(nodes) : Key = NodeKey(m)
        BY <1>1, <3>2 DEF SeenInv
      <4>2. nodes[m].depth <= nodes[i].depth + 1
        BY <1>1, <2>2, <2>3 DEF DepthsInv
      <4>3. Found(i, j)
        BY <3>1, <4>1, <4>2 DEF Found
      <4>4. QED
        BY <1>3, <3>1, <4>3
    <3>3. CASE Store
      <4>1. /\ Len(nodes) + 1 \in 1..Len(nodes') /\ nodes'[Len(nodes) + 1] = Child
            /\ Node = nodes[i] /\ Child.novel = Novel
        BY <1>1, <2>1, <2>2, <2>3, <3>3, StoreFacts, ChildFacts
      <4>2. ASSUME NEW n, n = Len(nodes) + 1 PROVE NodeKey(n)' = Key
        <5>1. nodes'[n] = Child /\ Child.state = Successor
          BY <4>1, <4>2 DEF Child
        <5>2. QED
          BY <4>1, <5>1, Zenon DEF NodeKey, Key
      <4>3. Child.depth = nodes[i].depth + 1 /\ nodes[i].depth \in Nat
        BY <3>1, <4>1, NodeFacts DEF Child
      <4>4. QED
        BY <3>1, <4>1, <4>2, <4>3 DEF Found
    <3>4. QED
      BY <1>7, <3>2, <3>3 DEF SeenBefore, GoalTimesOut, FindNode
  <2>4. ASSUME NEW i \in 1..Len(nodes), NEW j \in 1..Fan(i), Tried(i, j)' PROVE Tried(i, j) \/ Found(i, j)'
    <3>1. i < cursor \/ (i = cursor /\ j < choice) \/ (i = cursor /\ j = choice)
      BY <1>1, <2>1, <2>2, <2>4 DEF Tried
    <3>2. QED
      BY <2>3, <3>1 DEF Tried
  <2>5. QED
    BY <1>1, <1>4, <2>1, <2>2, <2>4
<1>8. QED
  BY <1>5, <1>6, <1>7 DEF Search, Stops

(* A node that is found: ranked before, or not ranked at all. *)
LEMMA FirstStep ==
  ASSUME Ranges, SearchRanges, NodesInv, ReasonInv, FirstInv, Search
  PROVE  FirstInv'
<1> DEFINE AsGood(i, j) ==
      \/ utility[nodes[i].state] < utility[nodes[j].state]
      \/ utility[nodes[i].state] = utility[nodes[j].state] /\ nodes[j].depth <= nodes[i].depth
<1>1. /\ phase = "search" /\ reason = "frontier_exhausted" /\ Len(nodes) \in Nat /\ utility' = utility
      /\ best \in Nat /\ best <= Len(nodes)
      /\ \A i \in 1..Len(nodes) : nodes[i].novel = TRUE => best # 0 /\ AsGood(i, best)
  BY NodeKept DEF FirstInv, ReasonInv, SearchRanges
<1>2. CASE nodes' = nodes /\ best' = best
  BY <1>1, <1>2 DEF FirstInv
<1>3. CASE GoalTimesOut
  BY <1>3 DEF GoalTimesOut, Stop, FirstInv
<1>4. CASE FindNode
  <2>1. Store /\ Tries /\ best' = IF Better THEN Len(nodes) + 1 ELSE best
    BY <1>4, StoreFacts DEF FindNode
  <2>2. /\ Len(nodes') = Len(nodes) + 1 /\ nodes'[Len(nodes) + 1] = Child
        /\ \A i \in 1..Len(nodes) : nodes'[i] = nodes[i]
    BY <2>1, StoreFacts
  <2>3. /\ Child.state = Successor /\ Child.novel = Novel /\ Novel \in BOOLEAN /\ Child \in Nodes
        /\ Child.depth \in Nat
    <3>1. Child.state = Successor /\ Child.novel = Novel /\ Novel \in BOOLEAN /\ Child \in Nodes
      BY <2>1, ChildFacts
    <3>2. QED
      BY <3>1 DEF Nodes
  <2>4. /\ utility[Successor] \in Nat
        /\ \A i \in 1..Len(nodes) : utility[nodes[i].state] \in Nat /\ nodes[i].depth \in Nat
    <3>1. \A state \in States : utility[state] \in Nat
      BY WorldModelAssumption DEF Ranges
    <3>2. QED
      BY <2>3, <3>1, NodeFacts DEF Nodes
  <2>5. \A i \in 1..Len(nodes') : i \in 1..Len(nodes) \/ i = Len(nodes) + 1
    BY <1>1, <2>2
  <2>6. CASE Better
    <3>1. /\ best' = Len(nodes) + 1 /\ best' # 0
          /\ nodes'[best'].state = Successor /\ nodes'[best'].depth = Child.depth
      BY <1>1, <2>1, <2>2, <2>3, <2>6
    <3>2. \/ best = 0
          \/ utility[Successor] > utility[nodes[best].state]
          \/ utility[Successor] = utility[nodes[best].state] /\ Child.depth < nodes[best].depth
      BY <2>6 DEF Better
    <3>3. ASSUME NEW i \in 1..Len(nodes'), nodes'[i].novel = TRUE
          PROVE  \/ utility[nodes'[i].state] < utility[nodes'[best'].state]
                 \/ /\ utility[nodes'[i].state] = utility[nodes'[best'].state]
                    /\ nodes'[best'].depth <= nodes'[i].depth
      <4>1. CASE i = Len(nodes) + 1
        BY <2>2, <2>3, <3>1, <4>1
      <4>2. CASE i \in 1..Len(nodes)
        <5>1. nodes'[i] = nodes[i] /\ best # 0 /\ AsGood(i, best)
          BY <1>1, <2>2, <3>3, <4>2
        <5>2. best \in 1..Len(nodes)
          BY <1>1, <5>1
        <5>3. QED
          BY <2>3, <2>4, <3>1, <3>2, <4>2, <5>1, <5>2, SMTT(30)
      <4>3. QED
        BY <2>5, <4>1, <4>2
    <3>4. QED
      BY <1>1, <3>1, <3>3 DEF FirstInv
  <2>7. CASE ~Better
    <3>1. best' = best
      BY <2>1, <2>7
    <3>2. best # 0 => best \in 1..Len(nodes) /\ nodes'[best] = nodes[best]
      BY <1>1, <2>2
    <3>3. Novel => /\ best # 0
                   /\ \/ utility[Successor] < utility[nodes[best].state]
                      \/ /\ utility[Successor] = utility[nodes[best].state]
                         /\ nodes[best].depth <= Child.depth
      BY <2>3, <2>4, <2>7, <3>2 DEF Better
    <3>4. ASSUME NEW i \in 1..Len(nodes'), nodes'[i].novel = TRUE
          PROVE  /\ best # 0
                 /\ \/ utility[nodes'[i].state] < utility[nodes[best].state]
                    \/ /\ utility[nodes'[i].state] = utility[nodes[best].state]
                       /\ nodes[best].depth <= nodes'[i].depth
      <4>1. CASE i = Len(nodes) + 1
        <5>1. nodes'[i] = Child
          BY <2>2, <4>1
        <5>2. Novel
          BY <2>3, <3>4, <5>1
        <5>3. QED
          BY <2>3, <3>3, <5>1, <5>2
      <4>2. CASE i \in 1..Len(nodes)
        BY <1>1, <2>2, <3>4, <4>2
      <4>3. QED
        BY <2>5, <4>1, <4>2
    <3>5. QED
      BY <1>1, <3>1, <3>2, <3>4 DEF FirstInv
  <2>8. QED
    BY <2>6, <2>7
<1>5. QED
  <2>1. (nodes' = nodes /\ best' = best) \/ GoalTimesOut \/ FindNode
    BY DEF Search, SkipNode, LeaveNode, LimitStops, TimeStops, SeenBefore, MemoryStops, PlanFails,
           Exhausted, search
  <2>2. QED
    BY <1>2, <1>3, <1>4, <2>1

LEMMA PlanInvHolds == Spec => []PlanInv
<1>1. Init => PlanInv
  BY DEF Init, PlanInv, TreeInv, DepthsInv, BreadthInv, FirstInv
<1>2. ModelInv /\ PlanInv /\ [Next]_vars => PlanInv'
  <2>1. SUFFICES ASSUME ModelInv, PlanInv, [Next]_vars PROVE PlanInv'
    OBVIOUS
  <2>2. Ranges /\ SearchRanges /\ SearchInv /\ TreeInv /\ DepthsInv /\ BreadthInv /\ FirstInv
    BY <2>1 DEF ModelInv, PlanInv
  <2>3. CASE Replay \/ Explore
    <3>1. phase' \notin {"search", "planned"}
      BY <2>3, ReplayFrame, ExploreFrame
    <3>2. QED
      BY <3>1 DEF PlanInv, TreeInv, DepthsInv, BreadthInv, FirstInv
  <2>4. CASE Plans
    <3>1. PICK state \in States, obs \in Observations : PlanFrom(state, obs)
      BY <2>4 DEF Plans
    <3> DEFINE first == [state |-> state, obs |-> obs, parent |-> 0, action |-> None, depth |-> 0,
                         novel |-> FALSE]
    <3>2. /\ nodes' = <<first>> /\ first.depth = 0 /\ first.novel = FALSE
          /\ phase = "explore" /\ cursor' = cursor /\ choice' = choice
      BY <3>1 DEF PlanFrom
    <3> HIDE DEF first
    <3>3. Len(nodes') = 1 /\ nodes'[1] = first
      BY <3>2
    <3>4. cursor' = 1 /\ choice' = 1
      BY <2>2, <3>2 DEF SearchInv, IdleInv
    <3>5. TreeInv'
      BY <3>2, <3>3 DEF TreeInv
    <3>6. DepthsInv'
      BY <3>2, <3>3, <3>4 DEF DepthsInv
    <3>7. BreadthInv'
      BY <3>3, <3>4 DEF BreadthInv, Tried
    <3>8. FirstInv'
      <4>1. \A i \in 1..Len(nodes') : ~ (nodes'[i].novel = TRUE)
        <5>1. \A i \in 1..Len(nodes') : nodes'[i] = first
          BY <3>3
        <5>2. QED
          BY <3>2, <5>1, Zenon
      <4>2. QED
        BY <4>1, Zenon DEF FirstInv
    <3>9. QED
      BY <3>5, <3>6, <3>7, <3>8 DEF PlanInv
  <2>5. CASE Search
    BY <2>2, <2>5, TreeStep, DepthsStep, BreadthStep, FirstStep DEF PlanInv, SearchInv
  <2>6. CASE UNCHANGED vars
    <3>1. /\ model' = model /\ utility' = utility /\ log' = log /\ phase' = phase
          /\ UNCHANGED <<nodes, visited, cursor, choice, best, reason>>
      BY <2>6 DEF vars, inputs, search
    <3>2. TreeInv'
      BY <2>2, <3>1, SMTT(30) DEF TreeInv, Grown, Fan
    <3>3. DepthsInv' /\ FirstInv'
      BY <2>2, <3>1 DEF DepthsInv, FirstInv
    <3>4. BreadthInv'
      BY <2>2, <3>1 DEF BreadthInv, Open, Tried, Found, Fan, After, NodeKey
    <3>5. QED
      BY <3>2, <3>3, <3>4 DEF PlanInv
  <2>7. QED
    BY <2>1, <2>3, <2>4, <2>5, <2>6, NextCases
<1>3. QED
  BY <1>1, <1>2, WorldModelHolds, PTL DEF Spec

-----------------------------------------------------------------------------
(* The path to a node, and the plan along it. *)

IsPath(f, j) ==
  /\ f \in [0..nodes[j].depth -> 1..Len(nodes)] /\ f[0] = 1 /\ f[nodes[j].depth] = j
  /\ \A d \in 0..nodes[j].depth : nodes[f[d]].depth = d
  /\ \A d \in 1..nodes[j].depth : f[d] \in 2..Len(nodes) /\ nodes[f[d]].parent = f[d - 1]

(* Of the nodes without a path the first one would have a parent with one. *)
LEMMA PathExists ==
  ASSUME SearchRanges, NodesInv, TreeInv, phase = "planned", NEW j \in 1..Len(nodes)
  PROVE  \E f : IsPath(f, j)
<1>1. /\ Len(nodes) \in Nat /\ Len(nodes) >= 1 /\ nodes[1].depth = 0
      /\ \A i \in 2..Len(nodes) : Grown(i)
  BY DEF TreeInv, NodesInv, SearchRanges
<1> DEFINE Lost == {i \in 1..Len(nodes) : ~\E f : IsPath(f, i)}
<1>2. SUFFICES ASSUME Lost # {} PROVE FALSE
  OBVIOUS
<1>3. PICK k \in Lost : \A i \in Lost : k <= i
  <2>1. Lost \in SUBSET Nat
    BY <1>1
  <2>2. QED
    BY <1>2, <2>1, Least
<1>4. k \in 1..Len(nodes) /\ ~\E f : IsPath(f, k)
  BY <1>3
<1>5. CASE k = 1
  <2> DEFINE f == [d \in 0..0 |-> 1]
  <2>1. f \in [0..0 -> 1..Len(nodes)] /\ f[0] = 1 /\ \A d \in 0..0 : d = 0
    BY <1>1
  <2> HIDE DEF f
  <2>2. IsPath(f, k)
    BY <1>1, <1>5, <2>1 DEF IsPath
  <2>3. QED
    BY <1>4, <2>2
<1>6. CASE k # 1
  <2> DEFINE p == nodes[k].parent
             D == nodes[k].depth
  <2>1. k \in 2..Len(nodes) /\ Grown(k)
    BY <1>1, <1>4, <1>6
  <2>2. p \in 1..(k - 1) /\ p \in 1..Len(nodes) /\ D = nodes[p].depth + 1
    <3>1. p \in 1..(k - 1) /\ D = nodes[p].depth + 1
      BY <2>1 DEF Grown
    <3>2. k \in Nat /\ k <= Len(nodes)
      BY <1>1, <2>1
    <3> HIDE DEF p, D
    <3>3. QED
      BY <1>1, <3>1, <3>2
  <2>3. p \notin Lost
    BY <1>1, <1>3, <2>1, <2>2
  <2>4. PICK g : IsPath(g, p)
    BY <2>2, <2>3
  <2>5. nodes[p].depth \in Nat /\ D \in Nat /\ D - 1 = nodes[p].depth
    <3>1. nodes[p].depth \in Nat
      BY <2>2, NodeFacts
    <3> HIDE DEF p, D
    <3>2. QED
      BY <2>2, <3>1
  <2> DEFINE f == [d \in 0..D |-> IF d = D THEN k ELSE g[d]]
  <2> HIDE DEF p, Lost
  <2>6. /\ g \in [0..(D - 1) -> 1..Len(nodes)] /\ g[0] = 1 /\ g[D - 1] = p
        /\ \A d \in 0..(D - 1) : nodes[g[d]].depth = d
        /\ \A d \in 1..(D - 1) : g[d] \in 2..Len(nodes) /\ nodes[g[d]].parent = g[d - 1]
    BY <2>4, <2>5 DEF IsPath
  <2>7. nodes[k].depth = D /\ nodes[k].parent = p
    BY DEF p
  <2> HIDE DEF D
  <2>8. f[D] = k /\ \A d \in 0..(D - 1) : f[d] = g[d]
    BY <2>5
  <2>9. f \in [0..D -> 1..Len(nodes)]
    BY <1>4, <2>5, <2>6
  <2> HIDE DEF f
  <2>10. \A d \in 0..D : nodes[f[d]].depth = d
    <3>1. \A d \in 0..D : d = D \/ d \in 0..(D - 1)
      BY <2>5
    <3>2. QED
      BY <2>6, <2>7, <2>8, <3>1
  <2>11. ASSUME NEW d \in 1..D PROVE f[d] \in 2..Len(nodes) /\ nodes[f[d]].parent = f[d - 1]
    <3>1. d - 1 \in 0..(D - 1) /\ f[d - 1] = g[d - 1]
      BY <2>5, <2>8
    <3>2. CASE d = D
      BY <2>1, <2>6, <2>7, <2>8, <3>1, <3>2
    <3>3. CASE d # D
      <4>1. d \in 1..(D - 1) /\ d \in 0..(D - 1)
        BY <2>5, <3>3
      <4>2. QED
        BY <2>6, <2>8, <3>1, <4>1
    <3>4. QED
      BY <3>2, <3>3
  <2>12. f[0] = 1
    <3>1. 0 \in 0..(D - 1)
      BY <2>2, <2>5
    <3>2. QED
      BY <2>6, <2>8, <3>1
  <2>13. IsPath(f, k)
    BY <2>7, <2>8, <2>9, <2>10, <2>11, <2>12 DEF IsPath
  <2>14. QED
    BY <1>4, <2>13
<1>7. QED
  BY <1>5, <1>6

(* What OnPath computes, and that there is such a function: a node, and what
   every set that holds it and the parents of its members holds.             *)
Back[k \in 0..Len(nodes)] == IF k = 0 THEN {} ELSE {k} \cup Back[nodes[k].parent]
Upward(S) == \A m \in S : m # 0 => nodes[m].parent \in S
Line(k) == {i \in 1..Len(nodes) : \A S \in SUBSET (0..Len(nodes)) : k \in S /\ Upward(S) => i \in S}

LEMMA LineUnfolds ==
  ASSUME SearchRanges, TreeLimited, NEW k \in 0..Len(nodes)
  PROVE  Line(k) = IF k = 0 THEN {} ELSE {k} \cup Line(nodes[k].parent)
<1>1. Len(nodes) \in Nat
  BY DEF SearchRanges
<1>2. CASE k = 0
  <2>1. {0} \in SUBSET (0..Len(nodes)) /\ Upward({0})
    BY <1>1 DEF Upward
  <2>2. \A i \in Line(k) : i \in {0} /\ i \in 1..Len(nodes)
    BY <1>2, <2>1 DEF Line
  <2>3. QED
    BY <1>1, <1>2, <2>2
<1>3. CASE k # 0
  <2> DEFINE p == nodes[k].parent
  <2>1. k \in 1..Len(nodes) /\ p \in 0..Len(nodes)
    BY <1>1, <1>3 DEF TreeLimited
  <2>2. ASSUME NEW i \in {k} \cup Line(p) PROVE i \in Line(k)
    <3>1. i \in 1..Len(nodes)
      BY <2>1, <2>2 DEF Line
    <3>2. ASSUME NEW S \in SUBSET (0..Len(nodes)), k \in S, Upward(S) PROVE i \in S
      <4>1. p \in S
        BY <1>3, <3>2 DEF Upward
      <4>2. QED
        BY <2>2, <3>2, <4>1 DEF Line
    <3>3. QED
      BY <3>1, <3>2 DEF Line
  <2>3. ASSUME NEW i \in Line(k), i # k PROVE i \in Line(p)
    <3>1. i \in 1..Len(nodes)
      BY DEF Line
    <3>2. ASSUME NEW S \in SUBSET (0..Len(nodes)), p \in S, Upward(S) PROVE i \in S
      <4>1. S \cup {k} \in SUBSET (0..Len(nodes)) /\ k \in S \cup {k}
        OBVIOUS
      <4>2. Upward(S \cup {k})
        BY <3>2 DEF Upward
      <4>3. i \in S \cup {k}
        BY <4>1, <4>2 DEF Line
      <4>4. QED
        BY <2>3, <4>3
    <3>3. QED
      BY <3>1, <3>2 DEF Line
  <2> HIDE DEF p
  <2>4. Line(k) = {k} \cup Line(p)
    BY <2>2, <2>3
  <2>5. QED
    BY <1>3, <2>4 DEF p
<1>4. QED
  BY <1>2, <1>3

LEMMA BackUnfolds ==
  ASSUME SearchRanges, TreeLimited, NEW k \in 0..Len(nodes)
  PROVE  Back[k] = IF k = 0 THEN {} ELSE {k} \cup Back[nodes[k].parent]
<1> DEFINE g == [i \in 0..Len(nodes) |-> Line(i)]
<1>1. \A i \in 1..Len(nodes) : nodes[i].parent \in 0..Len(nodes)
  BY DEF TreeLimited, SearchRanges
<1>2. ASSUME NEW i \in 0..Len(nodes)
      PROVE  g[i] = IF i = 0 THEN {} ELSE {i} \cup g[nodes[i].parent]
  <2>1. i # 0 => nodes[i].parent \in 0..Len(nodes)
    BY <1>1 DEF SearchRanges
  <2>2. i # 0 => g[nodes[i].parent] = Line(nodes[i].parent)
    BY <2>1
  <2>3. g[i] = Line(i)
    OBVIOUS
  <2>4. QED
    BY <2>2, <2>3, LineUnfolds
<1>3. g = [i \in 0..Len(nodes) |-> g[i]]
  OBVIOUS
<1> HIDE DEF g
<1>4. g = [i \in 0..Len(nodes) |-> IF i = 0 THEN {} ELSE {i} \cup g[nodes[i].parent]]
  BY <1>2, <1>3
<1>5. Back = [i \in 0..Len(nodes) |-> IF i = 0 THEN {} ELSE {i} \cup Back[nodes[i].parent]]
  BY <1>4, Zenon DEF Back
<1>6. QED
  BY <1>5

(* OnPath holds of the nodes of the path. *)
LEMMA OnPathIs ==
  ASSUME SearchRanges, TreeLimited, NEW j \in 1..Len(nodes), NEW f, IsPath(f, j), NEW i
  PROVE  OnPath(i, j) <=> \E d \in 0..nodes[j].depth : i = f[d]
<1> DEFINE D == nodes[j].depth
           Along(d) == {f[e] : e \in 0..d}
           Off == {d \in 0..D : Back[f[d]] # Along(d)}
<1>1. /\ D \in Nat /\ f \in [0..D -> 1..Len(nodes)] /\ f[0] = 1 /\ f[D] = j /\ Len(nodes) \in Nat
      /\ \A d \in 1..D : nodes[f[d]].parent = f[d - 1]
  BY NodeFacts DEF IsPath, SearchRanges
<1> HIDE DEF D
<1>2. ASSUME Off # {} PROVE FALSE
  <2>1. PICK n \in Off : \A d \in Off : n <= d
    <3>1. Off \in SUBSET Nat
      BY <1>1
    <3>2. QED
      BY <1>2, <3>1, Least
  <2>2. n \in 0..D /\ Back[f[n]] # Along(n) /\ f[n] \in 1..Len(nodes)
    BY <1>1, <2>1
  <2>3. Back[f[n]] = {f[n]} \cup Back[nodes[f[n]].parent]
    <3>1. f[n] \in 0..Len(nodes) /\ f[n] # 0
      BY <1>1, <2>2
    <3>2. QED
      BY <3>1, BackUnfolds
  <2>4. CASE n = 0
    <3>1. nodes[1].parent = 0
      <4>1. 1 \in 1..Len(nodes) /\ nodes[1].parent \in 0..(1 - 1)
        BY <1>1, <2>2, <2>4 DEF TreeLimited
      <4>2. QED
        BY <4>1
    <3>2. Back[0] = {}
      <4>1. 0 \in 0..Len(nodes)
        BY <1>1
      <4>2. QED
        BY <4>1, BackUnfolds
    <3>3. Along(0) = {1}
      BY <1>1
    <3>4. QED
      BY <1>1, <2>2, <2>3, <2>4, <3>1, <3>2, <3>3
  <2>5. CASE n # 0
    <3>1. n \in 1..D /\ n - 1 \in 0..D /\ n - 1 \notin Off
      <4>1. n \in 1..D /\ n - 1 \in 0..D /\ ~ (n <= n - 1)
        BY <1>1, <2>2, <2>5
      <4> HIDE DEF Off
      <4>2. QED
        BY <2>1, <4>1
    <3>2. Back[f[n - 1]] = Along(n - 1)
      BY <3>1
    <3>3. Back[f[n]] = {f[n]} \cup Along(n - 1)
      BY <1>1, <2>3, <3>1, <3>2
    <3>4. \A e : e \in 0..n <=> e \in 0..(n - 1) \/ e = n
      BY <1>1, <3>1
    <3>5. Along(n) = {f[n]} \cup Along(n - 1)
      BY <3>4
    <3>6. QED
      BY <2>2, <3>3, <3>5
  <2>6. QED
    BY <2>4, <2>5
<1>3. D \in 0..D
  BY <1>1
<1>4. Back[f[D]] = Along(D)
  BY <1>2, <1>3
<1>5. OnPath(i, j) <=> i \in Back[j]
  BY DEF OnPath, Back
<1>6. i \in Back[j] <=> \E d \in 0..D : i = f[d]
  BY <1>1, <1>4
<1>7. QED
  BY <1>5, <1>6 DEF D

(* The plan is the actions of the nodes along the path to the best one. *)
LEMMA PlanIs ==
  ASSUME SearchRanges, TreeLimited, best \in 1..Len(nodes), NEW f, IsPath(f, best)
  PROVE  Plan = [d \in 1..nodes[best].depth |-> nodes[f[d]].action]
<1> DEFINE D == nodes[best].depth
<1>1. /\ D \in Nat /\ f \in [0..D -> 1..Len(nodes)] /\ f[0] = 1 /\ Len(nodes) \in Nat
      /\ \A d \in 0..D : nodes[f[d]].depth = d
      /\ \A d \in 1..D : f[d] \in 2..Len(nodes)
  BY NodeFacts DEF IsPath, SearchRanges
<1>2. \A i : OnPath(i, best) <=> \E d \in 0..D : i = f[d]
  BY OnPathIs
<1> HIDE DEF D
<1>3. Path = {f[d] : d \in 1..D}
  <2>1. ASSUME NEW i \in Path PROVE \E d \in 1..D : i = f[d]
    <3>1. i \in 2..Len(nodes) /\ \E d \in 0..D : i = f[d]
      BY <1>2 DEF Path
    <3>2. PICK d \in 0..D : i = f[d]
      BY <3>1
    <3>3. d # 0
      BY <1>1, <3>1, <3>2
    <3>4. QED
      BY <1>1, <3>2, <3>3
  <2>2. ASSUME NEW d \in 1..D PROVE f[d] \in Path
    <3>1. d \in 0..D /\ f[d] \in 2..Len(nodes)
      BY <1>1
    <3>2. QED
      BY <1>2, <3>1 DEF Path
  <2>3. QED
    BY <2>1, <2>2
<1>4. \A d, e \in 1..D : f[d] = f[e] => d = e
  <2>1. SUFFICES ASSUME NEW d \in 1..D, NEW e \in 1..D, f[d] = f[e] PROVE d = e
    OBVIOUS
  <2>2. nodes[f[d]].depth = d /\ nodes[f[e]].depth = e
    BY <1>1
  <2>3. QED
    BY <2>1, <2>2
<1>5. Cardinality(Path) = D
  <2> DEFINE g == [d \in 1..D |-> f[d]]
  <2>1. g \in [1..D -> Path] /\ \A i \in Path : \E d \in 1..D : g[d] = i
    BY <1>3
  <2>2. \A d, e \in 1..D : g[d] = g[e] => d = e
    BY <1>4
  <2> HIDE DEF g
  <2>3. g \in Bijection(1..D, Path)
    BY <2>1, <2>2, Fun_IsBij
  <2>4. ExistsBijection(1..D, Path)
    BY <2>3 DEF ExistsBijection
  <2>5. QED
    BY <1>1, <2>4, FS_CountingElements
<1>6. ASSUME NEW d \in 1..D PROVE PlanAction(d) = nodes[f[d]].action
  <2>1. f[d] \in Path /\ nodes[f[d]].depth = d
    BY <1>1, <1>3
  <2>2. ASSUME NEW i \in Path, nodes[i].depth = d PROVE i = f[d]
    <3>1. PICK e \in 1..D : i = f[e]
      BY <1>3
    <3>2. nodes[f[e]].depth = e
      BY <1>1
    <3>3. QED
      BY <2>2, <3>1, <3>2
  <2>3. (CHOOSE i \in Path : nodes[i].depth = d) = f[d]
    BY <2>1, <2>2
  <2>4. QED
    BY <2>3 DEF PlanAction
<1>7. QED
  BY <1>5, <1>6 DEF Plan, D

(* Along the plan each action leads on, to the best node in the end, and on the
   way something new is met.                                                  *)
LEMMA PlanLeads ==
  ASSUME ModelInv, TreeLimited, TreeInv, phase = "planned", best # 0
  PROVE  /\ Len(Plan) = nodes[best].depth
         /\ \E run \in Ends(nodes[1].state, Plan) :
              run[Len(Plan)] = nodes[best].state /\ Eligible(run, Len(Plan))
<1> DEFINE D == nodes[best].depth
<1>1. /\ Ranges /\ SearchRanges /\ NodesInv /\ Len(nodes) \in Nat /\ Len(nodes) >= 1
      /\ best \in 1..Len(nodes) /\ nodes[best].novel = TRUE /\ nodes[1].novel = FALSE
      /\ \A i \in 1..Len(nodes) : nodes[i].obs = model.render[nodes[i].state]
      /\ \A i \in 2..Len(nodes) : Grown(i)
  BY DEF ModelInv, SearchInv, SearchRanges, NodesInv, RankInv, TreeInv
<1>2. PICK f : IsPath(f, best)
  BY <1>1, PathExists
<1>3. /\ D \in Nat /\ f \in [0..D -> 1..Len(nodes)] /\ f[0] = 1 /\ f[D] = best
      /\ \A d \in 1..D : f[d] \in 2..Len(nodes) /\ nodes[f[d]].parent = f[d - 1]
  BY <1>1, <1>2, NodeFacts DEF IsPath
<1>4. Plan = [d \in 1..D |-> nodes[f[d]].action]
  BY <1>1, <1>2, PlanIs, SMTT(30)
<1> HIDE DEF D
<1>5. ASSUME NEW d \in 1..D
      PROVE  /\ nodes[f[d - 1]].obs \notin DoneObs /\ nodes[f[d]].action \in Actions
             /\ \E j \in 1..Fan(f[d - 1]) : nodes[f[d]].action = ActionsFor[nodes[f[d - 1]].obs][j]
             /\ nodes[f[d]].state = model.step[<<nodes[f[d - 1]].state, nodes[f[d]].action>>]
             /\ nodes[f[d]].novel = TRUE <=>
                  nodes[f[d - 1]].novel = TRUE \/ nodes[f[d]].obs \notin Known(log)
  <2>1. f[d] \in 2..Len(nodes) /\ nodes[f[d]].parent = f[d - 1]
    BY <1>3
  <2>2. Grown(f[d])
    BY <1>1, <2>1
  <2>3. QED
    BY <2>1, <2>2 DEF Grown
<1>6. Plan \in Seq(Actions) /\ Len(Plan) = D /\ \A d \in 1..D : Plan[d] = nodes[f[d]].action
  <2>1. Plan \in [1..D -> Actions]
    BY <1>4, <1>5
  <2>2. Plan \in Seq(Actions) /\ Len(Plan) = D
    BY <1>3, <2>1
  <2>3. QED
    BY <1>4, <2>2
<1> DEFINE run == [d \in 0..D |-> nodes[f[d]].state]
<1>7. \A d \in 0..D : run[d] = nodes[f[d]].state /\ model.render[run[d]] = nodes[f[d]].obs
  BY <1>1, <1>3
<1>8. run \in [0..D -> States]
  <2>1. \A i \in 1..Len(nodes) : nodes[i].state \in States
    BY <1>1, NodeFacts
  <2>2. \A d \in 0..D : f[d] \in 1..Len(nodes)
    BY <1>3
  <2>3. QED
    BY <2>1, <2>2
<1> HIDE DEF run
<1>9. run[0] = nodes[1].state /\ run[D] = nodes[best].state
  BY <1>3, <1>7
<1>10. ASSUME NEW d \in 1..D
       PROVE  /\ model.render[run[d - 1]] \notin DoneObs
              /\ \E i \in 1..Len(ActionsFor[model.render[run[d - 1]]]) :
                   Plan[d] = ActionsFor[model.render[run[d - 1]]][i]
              /\ run[d] = model.step[<<run[d - 1], Plan[d]>>]
  <2>1. d - 1 \in 0..D /\ d \in 0..D
    BY <1>3
  <2>2. /\ run[d - 1] = nodes[f[d - 1]].state /\ model.render[run[d - 1]] = nodes[f[d - 1]].obs
        /\ run[d] = nodes[f[d]].state /\ Plan[d] = nodes[f[d]].action
    BY <1>6, <1>7, <2>1
  <2>3. /\ nodes[f[d - 1]].obs \notin DoneObs
        /\ nodes[f[d]].state = model.step[<<nodes[f[d - 1]].state, nodes[f[d]].action>>]
    BY <1>5
  <2>4. PICK j \in 1..Fan(f[d - 1]) : nodes[f[d]].action = ActionsFor[nodes[f[d - 1]].obs][j]
    BY <1>5
  <2>5. j \in 1..Len(ActionsFor[nodes[f[d - 1]].obs])
    BY <2>4 DEF Fan
  <2>6. QED
    BY <2>2, <2>3, <2>4, <2>5, Zenon
<1>11. run \in Ends(nodes[1].state, Plan)
  BY <1>6, <1>8, <1>9, <1>10 DEF Ends
<1>12. Eligible(run, D)
  <2> DEFINE New == {d \in 0..D : nodes[f[d]].novel = TRUE}
  <2>1. D \in New /\ New \in SUBSET Nat
    BY <1>1, <1>3
  <2>2. PICK n \in New : \A d \in New : n <= d
    BY <2>1, Least
  <2>3. n \in 0..D /\ nodes[f[n]].novel = TRUE
    BY <2>2
  <2>4. n # 0
    BY <1>1, <1>3, <2>3
  <2>5. n \in 1..D /\ n - 1 \in 0..D /\ ~ (n <= n - 1)
    BY <1>3, <2>3, <2>4
  <2>6. n - 1 \notin New
    BY <2>2, <2>5
  <2>7. ~ (nodes[f[n - 1]].novel = TRUE)
    BY <2>5, <2>6
  <2>8. nodes[f[n]].obs \notin Known(log)
    BY <1>5, <2>3, <2>5, <2>7
  <2>9. QED
    BY <1>7, <2>5, <2>8 DEF Eligible
<1>13. QED
  BY <1>6, <1>9, <1>11, <1>12 DEF D

(* A state that is reached in fewer actions than the best node is in a node that
   is no deeper, with what was met on the way.                                 *)
LEMMA ShorterFound ==
  ASSUME ModelInv, TreeLimited, TreeInv, DepthsInv, BreadthInv, phase = "planned", best # 0,
         NEW d \in 0..(nodes[best].depth - 1), NEW actions \in [1..d -> Actions],
         NEW run \in Ends(nodes[1].state, actions), NEW e \in 0..d
  PROVE  \E m \in 1..Len(nodes) : /\ nodes[m].state = run[e] /\ nodes[m].depth <= e
                                  /\ nodes[m].novel = TRUE <=> Eligible(run, e)
<1> DEFINE D == nodes[best].depth
           Meets(m, i) == /\ nodes[m].state = run[i] /\ nodes[m].depth <= i
                          /\ nodes[m].novel = TRUE <=> Eligible(run, i)
           Missed == {i \in 0..d : ~\E m \in 1..Len(nodes) : Meets(m, i)}
<1>1. /\ Ranges /\ SearchRanges /\ NodesInv /\ Len(nodes) \in Nat /\ Len(nodes) >= 1
      /\ best \in 1..Len(nodes) /\ nodes[1].novel = FALSE /\ nodes[1].depth = 0
      /\ \A i \in 1..Len(nodes) : nodes[i].obs = model.render[nodes[i].state]
      /\ cursor \in Nat \ {0}
  BY DEF ModelInv, SearchInv, SearchRanges, NodesInv, TreeInv
<1>2. D \in Nat /\ d \in Nat /\ d < D
  BY <1>1, NodeFacts
<1>3. /\ Len(actions) = d /\ run[0] = nodes[1].state
      /\ \A i \in 1..d :
           /\ model.render[run[i - 1]] \notin DoneObs
           /\ \E j \in 1..Len(ActionsFor[model.render[run[i - 1]]]) :
                actions[i] = ActionsFor[model.render[run[i - 1]]][j]
           /\ run[i] = model.step[<<run[i - 1], actions[i]>>]
  <2>1. Len(actions) = d
    BY <1>2
  <2>2. QED
    BY <2>1 DEF Ends
<1> HIDE DEF D
<1>4. SUFFICES ASSUME Missed # {} PROVE FALSE
  OBVIOUS
<1>5. PICK n \in Missed : \A i \in Missed : n <= i
  <2>1. Missed \in SUBSET Nat
    BY <1>2
  <2>2. QED
    BY <1>4, <2>1, Least
<1>6. n \in 0..d /\ ~\E m \in 1..Len(nodes) : Meets(m, n)
  BY <1>5
<1>7. CASE n = 0
  <2>1. ~Eligible(run, 0)
    BY DEF Eligible
  <2>2. ~ (nodes[1].novel = TRUE)
    BY <1>1
  <2>3. Meets(1, 0)
    BY <1>1, <1>3, <2>1, <2>2
  <2>4. QED
    BY <1>1, <1>6, <1>7, <2>3
<1>8. CASE n # 0
  <2>1. n \in 1..d /\ n - 1 \in 0..d /\ ~ (n <= n - 1) /\ n \in Nat
    BY <1>2, <1>6, <1>8
  <2>2. n - 1 \notin Missed
    BY <1>5, <2>1
  <2>3. PICK m \in 1..Len(nodes) : Meets(m, n - 1)
    BY <2>1, <2>2
  <2>4. nodes[m].state = run[n - 1] /\ nodes[m].depth <= n - 1 /\ nodes[m].depth \in Nat
    BY <2>3, NodeFacts, <1>1
  <2>5. nodes[m].depth + 1 < D
    BY <1>2, <2>1, <2>4
  <2>6. m < cursor
    <3>1. SUFFICES ASSUME cursor <= m PROVE FALSE
      BY <1>1
    <3>2. cursor \in 1..Len(nodes)
      BY <1>1, <3>1
    <3>3. nodes[best].depth <= nodes[cursor].depth + 1
      BY <1>1, <3>2 DEF DepthsInv
    <3>4. nodes[cursor].depth <= nodes[m].depth
      BY <1>1, <3>1, <3>2, NodeFacts DEF DepthsInv
    <3>5. nodes[cursor].depth \in Nat
      BY <1>1, <3>2, NodeFacts
    <3>6. QED
      BY <1>2, <2>4, <2>5, <3>3, <3>4, <3>5, SMTT(30) DEF D
  <2>7. nodes[m].obs = model.render[run[n - 1]] /\ nodes[m].obs \notin DoneObs
    <3>1. nodes[m].obs = model.render[nodes[m].state]
      BY <1>1
    <3>2. model.render[run[n - 1]] \notin DoneObs
      BY <1>3, <2>1
    <3>3. QED
      BY <2>4, <3>1, <3>2
  <2>8. Open(m)
    <3>1. MaxDepth # None => MaxDepth \in Nat /\ D <= MaxDepth
      BY <1>1, WorldModelAssumption DEF TreeLimited, D
    <3>2. ~Reached(nodes[m].depth, MaxDepth)
      BY <1>2, <2>4, <2>5, <3>1 DEF Reached
    <3>3. QED
      BY <2>7, <3>2 DEF Open
  <2>9. PICK j \in 1..Fan(m) : actions[n] = ActionsFor[nodes[m].obs][j]
    BY <1>3, <2>1, <2>7 DEF Fan
  <2>10. PICK k \in 1..Len(nodes) : NodeKey(k) = After(m, j) /\ nodes[k].depth <= nodes[m].depth + 1
    BY <2>6, <2>8, <2>9 DEF BreadthInv, Tried, Found
  <2>11. run[n] = model.step[<<nodes[m].state, ActionsFor[nodes[m].obs][j]>>]
    BY <1>3, <2>1, <2>4, <2>9
  <2>12. NodeKey(m)[1] = nodes[m].state /\ NodeKey(m)[2] = nodes[m].novel
    BY KeyParts, Zenon
  <2>13. After(m, j) = <<run[n], nodes[m].novel \/ model.render[run[n]] \notin Known(log)>>
    BY <1>1, <2>11, <2>12 DEF After, KeyAfter
  <2>14. nodes[k].state = run[n] /\ nodes[k].novel = (nodes[m].novel \/ model.render[run[n]] \notin Known(log))
    BY <2>10, <2>13 DEF NodeKey
  <2>15. nodes[k].novel = TRUE <=> nodes[m].novel = TRUE \/ model.render[run[n]] \notin Known(log)
    <3>1. nodes[m].novel \in BOOLEAN /\ nodes[k].novel \in BOOLEAN
      BY <1>1, NodeFacts
    <3>2. QED
      BY <2>14, <3>1, Zenon
  <2>16. Eligible(run, n) <=> Eligible(run, n - 1) \/ model.render[run[n]] \notin Known(log)
    <3>1. \A i : i \in 1..n <=> i \in 1..(n - 1) \/ i = n
      BY <2>1
    <3>2. QED
      BY <3>1, Zenon DEF Eligible
  <2>17. nodes[k].novel = TRUE <=> Eligible(run, n)
    BY <2>3, <2>15, <2>16
  <2>18. nodes[k].depth <= n
    <3>1. nodes[k].depth \in Nat /\ nodes[k].depth <= nodes[m].depth + 1
      BY <1>1, <2>10, NodeFacts
    <3>2. QED
      BY <2>1, <2>4, <3>1
  <2>19. QED
    BY <1>6, <2>14, <2>17, <2>18
<1>9. QED
  BY <1>7, <1>8

LEMMA PlanShortest ==
  ASSUME ModelInv, TreeLimited, PlanInv, phase = "planned", best # 0, reason # "max_seconds",
         NEW d \in 1..(nodes[best].depth - 1), NEW actions \in [1..d -> Actions],
         NEW run \in Ends(nodes[1].state, actions), Eligible(run, d)
  PROVE  utility[run[d]] < utility[nodes[best].state]
<1>1. TreeInv /\ DepthsInv /\ BreadthInv /\ FirstInv
  BY DEF PlanInv
<1>2. /\ SearchRanges /\ Ranges /\ best \in 1..Len(nodes) /\ nodes[best].depth \in Nat
      /\ d \in 0..(nodes[best].depth - 1) /\ d \in 0..d
  <2>1. SearchRanges /\ Ranges /\ best \in 1..Len(nodes)
    BY DEF ModelInv, SearchRanges
  <2>2. QED
    BY <2>1, NodeFacts
<1>3. PICK m \in 1..Len(nodes) : /\ nodes[m].state = run[d] /\ nodes[m].depth <= d
                                 /\ nodes[m].novel = TRUE <=> Eligible(run, d)
  <2>1. d \in 0..(nodes[best].depth - 1) /\ d \in 0..d
    BY <1>2
  <2>2. ASSUME NEW e \in 0..d
        PROVE  \E m \in 1..Len(nodes) : /\ nodes[m].state = run[e] /\ nodes[m].depth <= e
                                        /\ nodes[m].novel = TRUE <=> Eligible(run, e)
    BY <1>1, <2>1, ShorterFound
  <2>3. QED
    BY <2>1, <2>2, Zenon
<1>4. nodes[m].depth \in Nat /\ ~ (nodes[best].depth <= nodes[m].depth)
  <2>1. nodes[m].depth \in Nat /\ nodes[m].depth <= d
    BY <1>2, <1>3, NodeFacts
  <2>2. d \in Nat /\ d < nodes[best].depth
    BY <1>2
  <2>3. QED
    BY <1>2, <2>1, <2>2
<1>5. nodes[m].novel = TRUE
  BY <1>3
<1>6. QED
  BY <1>1, <1>2, <1>3, <1>4, <1>5 DEF FirstInv

(* The plan that PlanInCWM writes leads, action by action, through predictions
   that are not done to its endpoint, meets a screen that was never recorded,
   and when it is called optimal no shorter action list does as well, for every
   model, goal, record and limit.                                             *)
THEOREM PlanHolds == Spec => []PlanTrue
<1>1. ModelInv /\ TypesInv /\ PlanInv => PlanTrue
  <2>1. SUFFICES ASSUME ModelInv, TypesInv, PlanInv, phase = "planned", best # 0
                 PROVE  /\ \E run \in Ends(nodes[1].state, Plan) :
                             run[Len(Plan)] = nodes[best].state /\ Eligible(run, Len(Plan))
                        /\ OptimalityProven =>
                             \A d \in 1..(Len(Plan) - 1) : \A actions \in [1..d -> Actions] :
                               \A run \in Ends(nodes[1].state, actions) :
                                 Eligible(run, d) => utility[run[d]] < utility[nodes[best].state]
    BY DEF PlanTrue
  <2>2. TreeLimited /\ TreeInv
    BY <2>1 DEF TypesInv, LimitsInv, PlanInv
  <2>3. /\ Len(Plan) = nodes[best].depth
        /\ \E run \in Ends(nodes[1].state, Plan) :
             run[Len(Plan)] = nodes[best].state /\ Eligible(run, Len(Plan))
    BY <2>1, <2>2, PlanLeads
  <2>4. OptimalityProven => reason # "max_seconds"
    BY DEF OptimalityProven
  <2>5. QED
    BY <2>1, <2>2, <2>3, <2>4, PlanShortest
<1>2. QED
  BY <1>1, WorldModelHolds, TypesHold, PlanInvHolds, PTL

(* Of plans that are not called optimal as well: unless the deadline fell, which
   can be between storing a node and ranking it, no action list that is shorter
   than the plan meets something new and ends as well, however the search was
   limited in calls, nodes or depth.                                          *)
Shortest ==
  phase = "planned" /\ best # 0 /\ reason # "max_seconds" =>
    \A d \in 1..(Len(Plan) - 1) : \A actions \in [1..d -> Actions] :
      \A run \in Ends(nodes[1].state, actions) :
        Eligible(run, d) => utility[run[d]] < utility[nodes[best].state]
THEOREM ShortestHolds == Spec => []Shortest
<1>1. ModelInv /\ TypesInv /\ PlanInv => Shortest
  <2>1. SUFFICES ASSUME ModelInv, TypesInv, PlanInv, phase = "planned", best # 0, reason # "max_seconds"
                 PROVE  \A d \in 1..(Len(Plan) - 1) : \A actions \in [1..d -> Actions] :
                          \A run \in Ends(nodes[1].state, actions) :
                            Eligible(run, d) => utility[run[d]] < utility[nodes[best].state]
    BY DEF Shortest
  <2>2. TreeLimited /\ TreeInv
    BY <2>1 DEF TypesInv, LimitsInv, PlanInv
  <2>3. Len(Plan) = nodes[best].depth
    BY <2>1, <2>2, PlanLeads
  <2>4. QED
    BY <2>1, <2>2, <2>3, PlanShortest
<1>2. QED
  BY <1>1, WorldModelHolds, TypesHold, PlanInvHolds, PTL
=============================================================================
