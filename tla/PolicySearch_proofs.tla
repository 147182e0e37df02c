------------------------- MODULE PolicySearch_proofs -------------------------
(***************************************************************************)
(* For every number of submissions, versions and episodes: submissions are *)
(* scored one at a time in the order of their indices, `solved' is earned, *)
(* and an undisturbed teardown leaves the official score.                  *)
(***************************************************************************)
EXTENDS PolicySearch, TLAPS

Ats == {"off", "load", "reset", "roll", "scored"}
Outcomes == {"perfect", "flawed"}
Evaluations == [at : Ats, version : Versions, episode : 1..Episodes, outcome : Outcomes]

(* The evaluations that are running belong to the submission with the lock and
   to the teardown; an index is reserved for good.                           *)
LockInv ==
  /\ \A s \in Submissions : Scoring(s) <=> call[s] \in {"scoring", "abandoned"}
  /\ \A s \in Submissions : Scoring(s) => holder = s
  /\ \A s \in Submissions : index[s] < count
  /\ \A s, t \in Submissions : Scoring(s) /\ t # s => index[t] < index[s]
  /\ last.by \in Submissions => call[last.by] \in {"done", "cancelled"}

(* The teardown scores in one phase only, and beside no submission unless
   `overlapped' says so.                                                     *)
PhaseInv ==
  /\ phase = "session" => reason = "running"
  /\ phase # "hook" => ~Scoring(Final)
  /\ phase = "session" => ~overlapped
  /\ phase \in {"session", "ended"} => ~filed
  /\ phase \notin {"session", "ended"} /\ ~overlapped => \A s \in Submissions : ~Scoring(s)

(* Alone on the environment, a scorer that has won all its episodes so far, or
   a perfect result, has a version that wins.                                *)
EarnedInv ==
  /\ \A u \in Scorers : score[u].at = "load" => score[u].episode = 1
  /\ ~overlapped /\ ~explored =>
       /\ \A u \in Scorers : Rolling(u) => own = u
       /\ \A u \in Scorers :
            (Scoring(u) /\ score[u].outcome = "perfect" /\ (score[u].at = "scored" \/ score[u].episode > 1))
               => score[u].version \in Winning
       /\ last.outcome = "perfect" => last.version \in Winning

(* What has been saved is the last result, which is the teardown's. *)
SavedInv ==
  ~overlapped =>
    /\ phase \in {"finalized", "saved", "over"} /\ filed => last.by = Final
    /\ phase \in {"saved", "over"} => saved.metrics = last
    /\ phase = "over" => saved.state = last

PolicyInv == TypeOK /\ LockInv /\ PhaseInv /\ EarnedInv /\ SavedInv

LEMMA SubmissionsInt == /\ \A s \in Submissions : s \in Nat /\ s \in Scorers /\ s # Final /\ s # None
                        /\ Final \in Scorers /\ Final # None
                        /\ \A u \in Scorers : u = Final \/ u \in Submissions
BY PolicyAssumption DEF Submissions, Scorers, Final, None

LEMMA IdleFacts ==
  /\ Idle \in Evaluations /\ Idle.at = "off" /\ Idle.episode = 1
  /\ [Idle EXCEPT !.at = "load"] \in Evaluations
  /\ [Idle EXCEPT !.at = "load"].at = "load" /\ [Idle EXCEPT !.at = "load"].episode = 1
BY PolicyAssumption DEF Idle, Evaluations, Ats, Outcomes

(* An evaluation goes on to its next episode, or is scored. *)
LEMMA NextEpisodeFacts ==
  ASSUME NEW e \in Evaluations
  PROVE  /\ NextEpisode(e) \in Evaluations
         /\ NextEpisode(e).at \in {"reset", "scored"}
         /\ NextEpisode(e).version = e.version /\ NextEpisode(e).outcome = e.outcome
<1>1. CASE e.episode = Episodes
  BY <1>1 DEF NextEpisode, Evaluations, Ats
<1>2. CASE e.episode # Episodes
  <2>1. e.episode + 1 \in 1..Episodes
    BY <1>2, PolicyAssumption DEF Evaluations
  <2>2. NextEpisode(e) = [e EXCEPT !.at = "reset", !.episode = e.episode + 1]
    BY <1>2 DEF NextEpisode
  <2>3. QED
    BY <2>1, <2>2 DEF Evaluations, Ats
<1>3. QED
  BY <1>1, <1>2

LEMMA FlawedFacts ==
  ASSUME NEW e \in Evaluations
  PROVE  /\ [e EXCEPT !.outcome = "flawed"] \in Evaluations
         /\ [e EXCEPT !.outcome = "flawed"].outcome = "flawed"
         /\ [e EXCEPT !.outcome = "flawed"].version = e.version
BY DEF Evaluations, Outcomes

(* What one evaluation is after a step of its own. *)
LEMMA LoadFacts ==
  ASSUME TypeOK, NEW u \in Scorers, Load(u)
  PROVE  \E e \in Evaluations :
           /\ score' = [score EXCEPT ![u] = e]
           /\ e.at \in {"reset", "scored"} /\ e.episode = score[u].episode
           /\ e.at = "scored" => e.outcome = "flawed"
<1>1. score[u] \in Evaluations /\ solution \in Versions
  BY DEF TypeOK, Evaluations, Ats, Outcomes
<1>2. CASE solution \in Missing
  <2> DEFINE e == [score[u] EXCEPT !.at = "scored", !.version = solution, !.outcome = "flawed"]
  <2>1. e \in Evaluations /\ e.at = "scored" /\ e.episode = score[u].episode /\ e.outcome = "flawed"
    BY <1>1 DEF Evaluations, Ats, Outcomes
  <2>2. score' = [score EXCEPT ![u] = e]
    BY <1>2 DEF Load
  <2>3. QED
    BY <2>1, <2>2
<1>3. CASE solution \notin Missing
  <2> DEFINE e == [score[u] EXCEPT !.at = "reset", !.version = solution]
  <2>1. e \in Evaluations /\ e.at = "reset" /\ e.episode = score[u].episode
    BY <1>1 DEF Evaluations, Ats, Outcomes
  <2>2. score' = [score EXCEPT ![u] = e]
    BY <1>3 DEF Load
  <2>3. QED
    BY <2>1, <2>2
<1>4. QED
  BY <1>2, <1>3

LEMMA ResetFacts ==
  ASSUME TypeOK, NEW u \in Scorers, ResetEpisode(u)
  PROVE  \E e \in Evaluations :
           /\ score' = [score EXCEPT ![u] = e]
           /\ e.at = "roll" /\ e.episode = score[u].episode
           /\ e.version = score[u].version /\ e.outcome = score[u].outcome
<1> DEFINE e == [score[u] EXCEPT !.at = "roll"]
<1>1. score[u] \in Evaluations
  BY DEF TypeOK, Evaluations, Ats, Outcomes
<1>2. e \in Evaluations /\ e.at = "roll" /\ e.episode = score[u].episode
      /\ e.version = score[u].version /\ e.outcome = score[u].outcome
  BY <1>1 DEF Evaluations, Ats
<1>3. score' = [score EXCEPT ![u] = e]
  BY DEF ResetEpisode
<1>4. QED
  BY <1>2, <1>3

LEMMA EndFacts ==
  ASSUME TypeOK, NEW u \in Scorers, EndEpisode(u)
  PROVE  \E e \in Evaluations :
           /\ score' = [score EXCEPT ![u] = e]
           /\ e.at \in {"reset", "scored"} /\ e.version = score[u].version
           /\ e.outcome = "perfect" /\ own = u => e.version \in Winning
<1>1. score[u] \in Evaluations
  BY DEF TypeOK, Evaluations, Ats, Outcomes
<1>2. PICK won \in BOOLEAN :
        /\ own = u => (won <=> score[u].version \in Winning)
        /\ score' = [score EXCEPT ![u] = NextEpisode(IF won THEN @ ELSE [@ EXCEPT !.outcome = "flawed"])]
  BY DEF EndEpisode
<1>3. CASE won
  <2>1. score' = [score EXCEPT ![u] = NextEpisode(score[u])]
    BY <1>2, <1>3
  <2>2. QED
    BY <1>1, <1>2, <1>3, <2>1, NextEpisodeFacts
<1>4. CASE ~won
  <2> DEFINE lost == [score[u] EXCEPT !.outcome = "flawed"]
  <2>1. score' = [score EXCEPT ![u] = NextEpisode(lost)]
    BY <1>2, <1>4
  <2>2. lost \in Evaluations /\ lost.outcome = "flawed" /\ lost.version = score[u].version
    BY <1>1, FlawedFacts
  <2> HIDE DEF lost
  <2>3. QED
    BY <2>1, <2>2, NextEpisodeFacts
<1>5. QED
  BY <1>3, <1>4

LEMMA FaultFacts ==
  ASSUME TypeOK, NEW u \in Scorers, EpisodeFaults(u)
  PROVE  \E e \in Evaluations :
           /\ score' = [score EXCEPT ![u] = e]
           /\ e.at \in {"reset", "scored"} /\ e.outcome = "flawed"
<1> DEFINE lost == [score[u] EXCEPT !.outcome = "flawed"]
<1>1. score[u] \in Evaluations
  BY DEF TypeOK, Evaluations, Ats, Outcomes
<1>2. score' = [score EXCEPT ![u] = NextEpisode(lost)]
  BY DEF EpisodeFaults
<1>3. lost \in Evaluations /\ lost.outcome = "flawed"
  BY <1>1, FlawedFacts
<1> HIDE DEF lost
<1>4. QED
  BY <1>2, <1>3, NextEpisodeFacts

(* A step of an evaluation starts and ends none. *)
LEMMA ScoringKept ==
  ASSUME TypeOK, NEW u \in Scorers, Evaluate(u)
  PROVE  /\ \A v \in Scorers : Scoring(v)' <=> Scoring(v)
         /\ \A v \in Scorers : v # u => score'[v] = score[v]
         /\ score[u].at \in {"load", "reset", "roll"}
         /\ UNCHANGED <<solution, submitting, last, task, explored, overlapped, filed>>
<1>1. CASE Load(u)
  BY <1>1, LoadFacts DEF Load, Scoring, TypeOK
<1>2. CASE ResetEpisode(u)
  BY <1>2, ResetFacts DEF ResetEpisode, Scoring, TypeOK
<1>3. CASE EndEpisode(u)
  BY <1>3, EndFacts DEF EndEpisode, Rolling, Scoring, TypeOK
<1>4. CASE EpisodeFaults(u)
  BY <1>4, FaultFacts DEF EpisodeFaults, Scoring, TypeOK
<1>5. QED
  BY <1>1, <1>2, <1>3, <1>4 DEF Evaluate

(* A published result, and the evaluation it leaves. *)
LEMMA PublishFacts ==
  ASSUME TypeOK, NEW s \in Submissions, Publish(s) \/ EvaluationFails(s)
  PROVE  /\ score' = [score EXCEPT ![s] = Idle] /\ Scoring(s) /\ holder' = None
         /\ call' = [call EXCEPT ![s] = IF @ = "abandoned" THEN "cancelled" ELSE "done"]
         /\ last' \in Results
         /\ last' = last \/ (last'.by = s /\ last'.version = score[s].version
                             /\ (last'.outcome = "perfect" => score[s].at = "scored" /\ score[s].outcome = "perfect"))
         /\ own' = IF own = s THEN None ELSE own
         /\ UNCHANGED <<solution, index, count, task, explored, overlapped, filed>>
<1>1. score[s] \in Evaluations /\ last \in Results
  BY SubmissionsInt DEF TypeOK, Evaluations, Ats, Outcomes
<1>2. \A outcome \in Outcomes : /\ Result(s, outcome) \in Results /\ Result(s, outcome).by = s
                                /\ Result(s, outcome).version = score[s].version
                                /\ Result(s, outcome).outcome = outcome
  BY <1>1, SubmissionsInt DEF Result, Results, Evaluations, Outcomes
<1>3. CASE Publish(s)
  <2>1. score[s].outcome \in Outcomes /\ last' = Result(s, score[s].outcome)
    BY <1>1, <1>3 DEF Publish, Evaluations
  <2>2. QED
    BY <1>2, <1>3, <2>1 DEF Publish, Release, Ends, Scoring
<1>4. CASE EvaluationFails(s)
  <2>1. last' \in {last, Result(s, "flawed")} /\ "flawed" \in Outcomes
    BY <1>4 DEF EvaluationFails, Outcomes
  <2>2. QED
    BY <1>1, <1>2, <1>4, <2>1 DEF EvaluationFails, Release, Ends, Scoring
<1>5. QED
  BY <1>3, <1>4

LEMMA FinishFacts ==
  ASSUME TypeOK, FinishHook
  PROVE  /\ score' = [score EXCEPT ![Final] = Idle]
         /\ last' \in Results /\ last'.by = Final /\ last'.version = score[Final].version
         /\ last'.outcome = "perfect" => score[Final].at = "scored" /\ score[Final].outcome = "perfect"
         /\ own' = IF own = Final THEN None ELSE own
         /\ phase = "hook" /\ phase' = "finalized"
         /\ UNCHANGED <<solution, submitting, reason, saved, explored, overlapped, filed>>
<1>1. score[Final] \in Evaluations
  BY SubmissionsInt DEF TypeOK, Evaluations, Ats, Outcomes
<1>2. \A outcome \in Outcomes : /\ Result(Final, outcome) \in Results /\ Result(Final, outcome).by = Final
                                /\ Result(Final, outcome).version = score[Final].version
                                /\ Result(Final, outcome).outcome = outcome
  BY <1>1, SubmissionsInt DEF Result, Results, Evaluations, Outcomes
<1>3. PICK outcome \in {score[Final].outcome, "flawed"} :
        /\ outcome = "perfect" => score[Final].at = "scored"
        /\ last' = Result(Final, outcome)
  BY DEF FinishHook
<1>4. outcome \in Outcomes /\ (outcome = "perfect" => score[Final].outcome = "perfect")
  BY <1>1, <1>3 DEF Evaluations, Outcomes
<1>5. QED
  BY <1>2, <1>3, <1>4 DEF FinishHook, Ends

(* Every step keeps the types. *)
LEMMA TypesStep == TypeOK /\ [Next]_vars => TypeOK'
<1> SUFFICES ASSUME TypeOK, [Next]_vars PROVE TypeOK'
  OBVIOUS
<1>1. CASE Edit
  <2>1. score' \in [Scorers -> Evaluations]
    BY <1>1 DEF TypeOK, Evaluations, Ats, Outcomes, submitting, Edit
  <2>2. explored' \in BOOLEAN /\ overlapped' \in BOOLEAN /\ filed' \in BOOLEAN
    BY <1>1 DEF TypeOK, Edit
  <2>3. last' \in Results /\ saved' \in [metrics : Results, state : Results]
    BY <1>1 DEF TypeOK, task, Edit
  <2>4. /\ solution' \in Versions /\ index' \in [Submissions -> Int] /\ count' \in Nat
        /\ call' \in [Submissions -> {"new", "queued", "scoring", "abandoned", "done", "cancelled"}]
        /\ holder' \in Submissions \cup {None}
    BY <1>1 DEF TypeOK, submitting, Edit
  <2>5. /\ own' \in Scorers \cup {None} /\ reason' \in {"running", "solved", "unsolved"}
        /\ phase' \in {"session", "ended", "hook", "finalized", "saved", "over"}
    BY <1>1, SubmissionsInt DEF TypeOK, task, Ends, Edit
  <2>6. QED
    BY <2>1, <2>2, <2>3, <2>4, <2>5 DEF TypeOK, Evaluations, Ats, Outcomes
<1>2. CASE Explore
  <2>1. score' \in [Scorers -> Evaluations]
    BY <1>2 DEF TypeOK, Evaluations, Ats, Outcomes, submitting, Explore
  <2>2. explored' \in BOOLEAN /\ overlapped' \in BOOLEAN /\ filed' \in BOOLEAN
    BY <1>2 DEF TypeOK, Explore
  <2>3. last' \in Results /\ saved' \in [metrics : Results, state : Results]
    BY <1>2 DEF TypeOK, task, Explore
  <2>4. /\ solution' \in Versions /\ index' \in [Submissions -> Int] /\ count' \in Nat
        /\ call' \in [Submissions -> {"new", "queued", "scoring", "abandoned", "done", "cancelled"}]
        /\ holder' \in Submissions \cup {None}
    BY <1>2 DEF TypeOK, submitting, Explore
  <2>5. /\ own' \in Scorers \cup {None} /\ reason' \in {"running", "solved", "unsolved"}
        /\ phase' \in {"session", "ended", "hook", "finalized", "saved", "over"}
    BY <1>2, SubmissionsInt DEF TypeOK, task, Ends, Explore
  <2>6. QED
    BY <2>1, <2>2, <2>3, <2>4, <2>5 DEF TypeOK, Evaluations, Ats, Outcomes
<1>3. ASSUME NEW s \in Submissions, Submit(s) PROVE TypeOK'
  <2>1. score' \in [Scorers -> Evaluations]
    BY <1>3 DEF TypeOK, Evaluations, Ats, Outcomes, submitting, Submit
  <2>2. explored' \in BOOLEAN /\ overlapped' \in BOOLEAN /\ filed' \in BOOLEAN
    BY <1>3 DEF TypeOK, Submit
  <2>3. last' \in Results /\ saved' \in [metrics : Results, state : Results]
    BY <1>3 DEF TypeOK, task, Submit
  <2>4. /\ solution' \in Versions /\ index' \in [Submissions -> Int] /\ count' \in Nat
        /\ call' \in [Submissions -> {"new", "queued", "scoring", "abandoned", "done", "cancelled"}]
        /\ holder' \in Submissions \cup {None}
    BY <1>3 DEF TypeOK, submitting, Submit
  <2>5. /\ own' \in Scorers \cup {None} /\ reason' \in {"running", "solved", "unsolved"}
        /\ phase' \in {"session", "ended", "hook", "finalized", "saved", "over"}
    BY <1>3, SubmissionsInt DEF TypeOK, task, Ends, Submit
  <2>6. QED
    BY <2>1, <2>2, <2>3, <2>4, <2>5 DEF TypeOK, Evaluations, Ats, Outcomes
<1>4. ASSUME NEW s \in Submissions, Cancel(s) PROVE TypeOK'
  <2>1. score' \in [Scorers -> Evaluations]
    BY <1>4 DEF TypeOK, Evaluations, Ats, Outcomes, submitting, Cancel
  <2>2. explored' \in BOOLEAN /\ overlapped' \in BOOLEAN /\ filed' \in BOOLEAN
    BY <1>4 DEF TypeOK, Cancel
  <2>3. last' \in Results /\ saved' \in [metrics : Results, state : Results]
    BY <1>4 DEF TypeOK, task, Cancel
  <2>4. /\ solution' \in Versions /\ index' \in [Submissions -> Int] /\ count' \in Nat
        /\ call' \in [Submissions -> {"new", "queued", "scoring", "abandoned", "done", "cancelled"}]
        /\ holder' \in Submissions \cup {None}
    BY <1>4 DEF TypeOK, submitting, Cancel
  <2>5. /\ own' \in Scorers \cup {None} /\ reason' \in {"running", "solved", "unsolved"}
        /\ phase' \in {"session", "ended", "hook", "finalized", "saved", "over"}
    BY <1>4, SubmissionsInt DEF TypeOK, task, Ends, Cancel
  <2>6. QED
    BY <2>1, <2>2, <2>3, <2>4, <2>5 DEF TypeOK, Evaluations, Ats, Outcomes
<1>5. ASSUME NEW s \in Submissions, Reserve(s) PROVE TypeOK'
  <2>1. score' \in [Scorers -> Evaluations]
    BY <1>5, IdleFacts, SubmissionsInt DEF Reserve, TypeOK, Evaluations, Ats, Outcomes
  <2>2. explored' \in BOOLEAN /\ overlapped' \in BOOLEAN /\ filed' \in BOOLEAN
    BY <1>5 DEF TypeOK, Reserve
  <2>3. last' \in Results /\ saved' \in [metrics : Results, state : Results]
    BY <1>5 DEF TypeOK, task, Reserve
  <2>4. /\ solution' \in Versions /\ index' \in [Submissions -> Int] /\ count' \in Nat
        /\ call' \in [Submissions -> {"new", "queued", "scoring", "abandoned", "done", "cancelled"}]
        /\ holder' \in Submissions \cup {None}
    BY <1>5 DEF TypeOK, submitting, Reserve
  <2>5. /\ own' \in Scorers \cup {None} /\ reason' \in {"running", "solved", "unsolved"}
        /\ phase' \in {"session", "ended", "hook", "finalized", "saved", "over"}
    BY <1>5, SubmissionsInt DEF TypeOK, task, Ends, Reserve
  <2>6. QED
    BY <2>1, <2>2, <2>3, <2>4, <2>5 DEF TypeOK, Evaluations, Ats, Outcomes
<1>6. ASSUME NEW s \in Submissions, Publish(s) \/ EvaluationFails(s) PROVE TypeOK'
  <2>1. score' \in [Scorers -> Evaluations]
    <3>1. score' = [score EXCEPT ![s] = Idle]
      BY <1>6, PublishFacts
    <3>2. score \in [Scorers -> Evaluations]
      BY DEF TypeOK, Evaluations, Ats, Outcomes
    <3>3. QED
      BY <3>1, <3>2, IdleFacts
  <2>2. explored' \in BOOLEAN /\ overlapped' \in BOOLEAN /\ filed' \in BOOLEAN
    BY <1>6, PublishFacts DEF TypeOK
  <2>3. last' \in Results /\ saved' \in [metrics : Results, state : Results]
    BY <1>6, PublishFacts DEF TypeOK, task
  <2>4. /\ solution' \in Versions /\ index' \in [Submissions -> Int] /\ count' \in Nat
        /\ call' \in [Submissions -> {"new", "queued", "scoring", "abandoned", "done", "cancelled"}]
        /\ holder' \in Submissions \cup {None}
    BY <1>6, PublishFacts DEF TypeOK, submitting
  <2>5. /\ own' \in Scorers \cup {None} /\ reason' \in {"running", "solved", "unsolved"}
        /\ phase' \in {"session", "ended", "hook", "finalized", "saved", "over"}
    BY <1>6, PublishFacts, SubmissionsInt DEF TypeOK, task, Ends
  <2>6. QED
    BY <2>1, <2>2, <2>3, <2>4, <2>5 DEF TypeOK, Evaluations, Ats, Outcomes
<1>7. ASSUME NEW u \in Scorers, Load(u) PROVE TypeOK'
  <2>1. score' \in [Scorers -> Evaluations]
    BY <1>7, LoadFacts DEF TypeOK, Evaluations, Ats, Outcomes
  <2>2. explored' \in BOOLEAN /\ overlapped' \in BOOLEAN /\ filed' \in BOOLEAN
    BY <1>7, LoadFacts DEF TypeOK, Load
  <2>3. last' \in Results /\ saved' \in [metrics : Results, state : Results]
    BY <1>7, LoadFacts DEF TypeOK, task, Load
  <2>4. /\ solution' \in Versions /\ index' \in [Submissions -> Int] /\ count' \in Nat
        /\ call' \in [Submissions -> {"new", "queued", "scoring", "abandoned", "done", "cancelled"}]
        /\ holder' \in Submissions \cup {None}
    BY <1>7, LoadFacts DEF TypeOK, submitting, Load
  <2>5. /\ own' \in Scorers \cup {None} /\ reason' \in {"running", "solved", "unsolved"}
        /\ phase' \in {"session", "ended", "hook", "finalized", "saved", "over"}
    BY <1>7, LoadFacts, SubmissionsInt DEF TypeOK, task, Ends, Load
  <2>6. QED
    BY <2>1, <2>2, <2>3, <2>4, <2>5 DEF TypeOK, Evaluations, Ats, Outcomes
<1>8. ASSUME NEW u \in Scorers, ResetEpisode(u) PROVE TypeOK'
  <2>1. score' \in [Scorers -> Evaluations]
    BY <1>8, ResetFacts DEF TypeOK, Evaluations, Ats, Outcomes
  <2>2. explored' \in BOOLEAN /\ overlapped' \in BOOLEAN /\ filed' \in BOOLEAN
    BY <1>8, ResetFacts DEF TypeOK, ResetEpisode
  <2>3. last' \in Results /\ saved' \in [metrics : Results, state : Results]
    BY <1>8, ResetFacts DEF TypeOK, task, ResetEpisode
  <2>4. /\ solution' \in Versions /\ index' \in [Submissions -> Int] /\ count' \in Nat
        /\ call' \in [Submissions -> {"new", "queued", "scoring", "abandoned", "done", "cancelled"}]
        /\ holder' \in Submissions \cup {None}
    BY <1>8, ResetFacts DEF TypeOK, submitting, ResetEpisode
  <2>5. /\ own' \in Scorers \cup {None} /\ reason' \in {"running", "solved", "unsolved"}
        /\ phase' \in {"session", "ended", "hook", "finalized", "saved", "over"}
    BY <1>8, ResetFacts, SubmissionsInt DEF TypeOK, task, Ends, ResetEpisode
  <2>6. QED
    BY <2>1, <2>2, <2>3, <2>4, <2>5 DEF TypeOK, Evaluations, Ats, Outcomes
<1>9. ASSUME NEW u \in Scorers, EndEpisode(u) PROVE TypeOK'
  <2>1. score' \in [Scorers -> Evaluations]
    BY <1>9, EndFacts DEF TypeOK, Evaluations, Ats, Outcomes
  <2>2. explored' \in BOOLEAN /\ overlapped' \in BOOLEAN /\ filed' \in BOOLEAN
    BY <1>9, EndFacts DEF TypeOK, EndEpisode
  <2>3. last' \in Results /\ saved' \in [metrics : Results, state : Results]
    BY <1>9, EndFacts DEF TypeOK, task, EndEpisode
  <2>4. /\ solution' \in Versions /\ index' \in [Submissions -> Int] /\ count' \in Nat
        /\ call' \in [Submissions -> {"new", "queued", "scoring", "abandoned", "done", "cancelled"}]
        /\ holder' \in Submissions \cup {None}
    BY <1>9, EndFacts DEF TypeOK, submitting, EndEpisode
  <2>5. /\ own' \in Scorers \cup {None} /\ reason' \in {"running", "solved", "unsolved"}
        /\ phase' \in {"session", "ended", "hook", "finalized", "saved", "over"}
    BY <1>9, EndFacts, SubmissionsInt DEF TypeOK, task, Ends, EndEpisode
  <2>6. QED
    BY <2>1, <2>2, <2>3, <2>4, <2>5 DEF TypeOK, Evaluations, Ats, Outcomes
<1>10. ASSUME NEW u \in Scorers, EpisodeFaults(u) PROVE TypeOK'
  <2>1. score' \in [Scorers -> Evaluations]
    BY <1>10, FaultFacts DEF TypeOK, Evaluations, Ats, Outcomes
  <2>2. explored' \in BOOLEAN /\ overlapped' \in BOOLEAN /\ filed' \in BOOLEAN
    BY <1>10, FaultFacts DEF TypeOK, EpisodeFaults
  <2>3. last' \in Results /\ saved' \in [metrics : Results, state : Results]
    BY <1>10, FaultFacts DEF TypeOK, task, EpisodeFaults
  <2>4. /\ solution' \in Versions /\ index' \in [Submissions -> Int] /\ count' \in Nat
        /\ call' \in [Submissions -> {"new", "queued", "scoring", "abandoned", "done", "cancelled"}]
        /\ holder' \in Submissions \cup {None}
    BY <1>10, FaultFacts DEF TypeOK, submitting, EpisodeFaults
  <2>5. /\ own' \in Scorers \cup {None} /\ reason' \in {"running", "solved", "unsolved"}
        /\ phase' \in {"session", "ended", "hook", "finalized", "saved", "over"}
    BY <1>10, FaultFacts, SubmissionsInt DEF TypeOK, task, Ends, EpisodeFaults
  <2>6. QED
    BY <2>1, <2>2, <2>3, <2>4, <2>5 DEF TypeOK, Evaluations, Ats, Outcomes
<1>11. ASSUME NEW u \in Scorers, Roll(u) PROVE TypeOK'
  <2>1. score' \in [Scorers -> Evaluations]
    BY <1>11 DEF TypeOK, Evaluations, Ats, Outcomes, submitting, Roll
  <2>2. explored' \in BOOLEAN /\ overlapped' \in BOOLEAN /\ filed' \in BOOLEAN
    BY <1>11 DEF TypeOK, Roll
  <2>3. last' \in Results /\ saved' \in [metrics : Results, state : Results]
    BY <1>11 DEF TypeOK, task, Roll
  <2>4. /\ solution' \in Versions /\ index' \in [Submissions -> Int] /\ count' \in Nat
        /\ call' \in [Submissions -> {"new", "queued", "scoring", "abandoned", "done", "cancelled"}]
        /\ holder' \in Submissions \cup {None}
    BY <1>11 DEF TypeOK, submitting, Roll
  <2>5. /\ own' \in Scorers \cup {None} /\ reason' \in {"running", "solved", "unsolved"}
        /\ phase' \in {"session", "ended", "hook", "finalized", "saved", "over"}
    BY <1>11, SubmissionsInt DEF TypeOK, task, Ends, Roll
  <2>6. QED
    BY <2>1, <2>2, <2>3, <2>4, <2>5 DEF TypeOK, Evaluations, Ats, Outcomes
<1>12. CASE EndSession
  <2>1. score' \in [Scorers -> Evaluations]
    BY <1>12 DEF TypeOK, Evaluations, Ats, Outcomes, submitting, EndSession
  <2>2. explored' \in BOOLEAN /\ overlapped' \in BOOLEAN /\ filed' \in BOOLEAN
    BY <1>12 DEF TypeOK, EndSession
  <2>3. last' \in Results /\ saved' \in [metrics : Results, state : Results]
    BY <1>12 DEF TypeOK, task, EndSession
  <2>4. /\ solution' \in Versions /\ index' \in [Submissions -> Int] /\ count' \in Nat
        /\ call' \in [Submissions -> {"new", "queued", "scoring", "abandoned", "done", "cancelled"}]
        /\ holder' \in Submissions \cup {None}
    BY <1>12 DEF TypeOK, submitting, EndSession
  <2>5. /\ own' \in Scorers \cup {None} /\ reason' \in {"running", "solved", "unsolved"}
        /\ phase' \in {"session", "ended", "hook", "finalized", "saved", "over"}
    BY <1>12, SubmissionsInt DEF TypeOK, task, Ends, EndSession
  <2>6. QED
    BY <2>1, <2>2, <2>3, <2>4, <2>5 DEF TypeOK, Evaluations, Ats, Outcomes
<1>13. CASE StartHook
  <2>1. score' \in [Scorers -> Evaluations]
    BY <1>13, IdleFacts, SubmissionsInt DEF StartHook, TypeOK, Evaluations, Ats, Outcomes
  <2>2. explored' \in BOOLEAN /\ overlapped' \in BOOLEAN /\ filed' \in BOOLEAN
    BY <1>13 DEF TypeOK, StartHook
  <2>3. last' \in Results /\ saved' \in [metrics : Results, state : Results]
    BY <1>13 DEF TypeOK, task, StartHook
  <2>4. /\ solution' \in Versions /\ index' \in [Submissions -> Int] /\ count' \in Nat
        /\ call' \in [Submissions -> {"new", "queued", "scoring", "abandoned", "done", "cancelled"}]
        /\ holder' \in Submissions \cup {None}
    BY <1>13 DEF TypeOK, submitting, StartHook
  <2>5. /\ own' \in Scorers \cup {None} /\ reason' \in {"running", "solved", "unsolved"}
        /\ phase' \in {"session", "ended", "hook", "finalized", "saved", "over"}
    BY <1>13, SubmissionsInt DEF TypeOK, task, Ends, StartHook
  <2>6. QED
    BY <2>1, <2>2, <2>3, <2>4, <2>5 DEF TypeOK, Evaluations, Ats, Outcomes
<1>14. CASE SkipHook
  <2>1. score' \in [Scorers -> Evaluations]
    BY <1>14 DEF TypeOK, Evaluations, Ats, Outcomes, submitting, SkipHook
  <2>2. explored' \in BOOLEAN /\ overlapped' \in BOOLEAN /\ filed' \in BOOLEAN
    BY <1>14 DEF TypeOK, SkipHook
  <2>3. last' \in Results /\ saved' \in [metrics : Results, state : Results]
    BY <1>14 DEF TypeOK, task, SkipHook
  <2>4. /\ solution' \in Versions /\ index' \in [Submissions -> Int] /\ count' \in Nat
        /\ call' \in [Submissions -> {"new", "queued", "scoring", "abandoned", "done", "cancelled"}]
        /\ holder' \in Submissions \cup {None}
    BY <1>14 DEF TypeOK, submitting, SkipHook
  <2>5. /\ own' \in Scorers \cup {None} /\ reason' \in {"running", "solved", "unsolved"}
        /\ phase' \in {"session", "ended", "hook", "finalized", "saved", "over"}
    BY <1>14, SubmissionsInt DEF TypeOK, task, Ends, SkipHook
  <2>6. QED
    BY <2>1, <2>2, <2>3, <2>4, <2>5 DEF TypeOK, Evaluations, Ats, Outcomes
<1>15. CASE FinishHook
  <2>1. score' \in [Scorers -> Evaluations]
    <3>1. score' = [score EXCEPT ![Final] = Idle]
      BY <1>15, FinishFacts
    <3>2. score \in [Scorers -> Evaluations]
      BY DEF TypeOK, Evaluations, Ats, Outcomes
    <3>3. QED
      BY <3>1, <3>2, IdleFacts
  <2>2. explored' \in BOOLEAN /\ overlapped' \in BOOLEAN /\ filed' \in BOOLEAN
    BY <1>15, FinishFacts DEF TypeOK
  <2>3. last' \in Results /\ saved' \in [metrics : Results, state : Results]
    BY <1>15, FinishFacts DEF TypeOK, task
  <2>4. /\ solution' \in Versions /\ index' \in [Submissions -> Int] /\ count' \in Nat
        /\ call' \in [Submissions -> {"new", "queued", "scoring", "abandoned", "done", "cancelled"}]
        /\ holder' \in Submissions \cup {None}
    BY <1>15, FinishFacts DEF TypeOK, submitting
  <2>5. /\ own' \in Scorers \cup {None} /\ reason' \in {"running", "solved", "unsolved"}
        /\ phase' \in {"session", "ended", "hook", "finalized", "saved", "over"}
    BY <1>15, FinishFacts, SubmissionsInt DEF TypeOK, task, Ends
  <2>6. QED
    BY <2>1, <2>2, <2>3, <2>4, <2>5 DEF TypeOK, Evaluations, Ats, Outcomes
<1>16. CASE SaveMetrics
  <2>1. score' \in [Scorers -> Evaluations]
    BY <1>16 DEF TypeOK, Evaluations, Ats, Outcomes, submitting, SaveMetrics
  <2>2. explored' \in BOOLEAN /\ overlapped' \in BOOLEAN /\ filed' \in BOOLEAN
    BY <1>16 DEF TypeOK, SaveMetrics
  <2>3. last' \in Results /\ saved' \in [metrics : Results, state : Results]
    BY <1>16 DEF TypeOK, task, SaveMetrics
  <2>4. /\ solution' \in Versions /\ index' \in [Submissions -> Int] /\ count' \in Nat
        /\ call' \in [Submissions -> {"new", "queued", "scoring", "abandoned", "done", "cancelled"}]
        /\ holder' \in Submissions \cup {None}
    BY <1>16 DEF TypeOK, submitting, SaveMetrics
  <2>5. /\ own' \in Scorers \cup {None} /\ reason' \in {"running", "solved", "unsolved"}
        /\ phase' \in {"session", "ended", "hook", "finalized", "saved", "over"}
    BY <1>16, SubmissionsInt DEF TypeOK, task, Ends, SaveMetrics
  <2>6. QED
    BY <2>1, <2>2, <2>3, <2>4, <2>5 DEF TypeOK, Evaluations, Ats, Outcomes
<1>17. CASE CloseTask
  <2>1. score' \in [Scorers -> Evaluations]
    BY <1>17 DEF TypeOK, Evaluations, Ats, Outcomes, submitting, CloseTask
  <2>2. explored' \in BOOLEAN /\ overlapped' \in BOOLEAN /\ filed' \in BOOLEAN
    BY <1>17 DEF TypeOK, CloseTask
  <2>3. last' \in Results /\ saved' \in [metrics : Results, state : Results]
    BY <1>17 DEF TypeOK, task, CloseTask
  <2>4. /\ solution' \in Versions /\ index' \in [Submissions -> Int] /\ count' \in Nat
        /\ call' \in [Submissions -> {"new", "queued", "scoring", "abandoned", "done", "cancelled"}]
        /\ holder' \in Submissions \cup {None}
    BY <1>17 DEF TypeOK, submitting, CloseTask
  <2>5. /\ own' \in Scorers \cup {None} /\ reason' \in {"running", "solved", "unsolved"}
        /\ phase' \in {"session", "ended", "hook", "finalized", "saved", "over"}
    BY <1>17, SubmissionsInt DEF TypeOK, task, Ends, CloseTask
  <2>6. QED
    BY <2>1, <2>2, <2>3, <2>4, <2>5 DEF TypeOK, Evaluations, Ats, Outcomes
<1>18. CASE UNCHANGED vars
  <2>1. score' \in [Scorers -> Evaluations]
    BY <1>18 DEF TypeOK, Evaluations, Ats, Outcomes, submitting, vars
  <2>2. explored' \in BOOLEAN /\ overlapped' \in BOOLEAN /\ filed' \in BOOLEAN
    BY <1>18 DEF TypeOK, vars
  <2>3. last' \in Results /\ saved' \in [metrics : Results, state : Results]
    BY <1>18 DEF TypeOK, task, vars
  <2>4. /\ solution' \in Versions /\ index' \in [Submissions -> Int] /\ count' \in Nat
        /\ call' \in [Submissions -> {"new", "queued", "scoring", "abandoned", "done", "cancelled"}]
        /\ holder' \in Submissions \cup {None}
    BY <1>18 DEF TypeOK, submitting, vars
  <2>5. /\ own' \in Scorers \cup {None} /\ reason' \in {"running", "solved", "unsolved"}
        /\ phase' \in {"session", "ended", "hook", "finalized", "saved", "over"}
    BY <1>18, SubmissionsInt DEF TypeOK, task, Ends, vars
  <2>6. QED
    BY <2>1, <2>2, <2>3, <2>4, <2>5 DEF TypeOK, Evaluations, Ats, Outcomes
<1>19. QED
  BY <1>1, <1>2, <1>3, <1>4, <1>5, <1>6, <1>7, <1>8, <1>9, <1>10, <1>11, <1>12, <1>13, <1>14, <1>15, <1>16, <1>17, <1>18 DEF Next, Evaluate

(* Only the holder of the lock is scored, and it has the largest index. *)
LEMMA LockStep == (TypeOK /\ LockInv) /\ [Next]_vars => LockInv'
<1> SUFFICES ASSUME (TypeOK /\ LockInv), [Next]_vars PROVE LockInv'
  OBVIOUS
<1>1. CASE Edit
  BY <1>1, IdleFacts, SubmissionsInt DEF LockInv, TypeOK, Scoring, Evaluations, submitting, task, Edit
<1>2. CASE Explore
  BY <1>2, IdleFacts, SubmissionsInt DEF LockInv, TypeOK, Scoring, Evaluations, submitting, task, Explore
<1>3. ASSUME NEW s \in Submissions, Submit(s) PROVE LockInv'
  BY <1>3, IdleFacts, SubmissionsInt DEF LockInv, TypeOK, Scoring, Evaluations, submitting, task, Submit
<1>4. ASSUME NEW s \in Submissions, Cancel(s) PROVE LockInv'
  BY <1>4, IdleFacts, SubmissionsInt DEF LockInv, TypeOK, Scoring, Evaluations, submitting, task, Cancel
<1>5. ASSUME NEW s \in Submissions, Reserve(s) PROVE LockInv'
  BY <1>5, IdleFacts, SubmissionsInt DEF LockInv, TypeOK, Scoring, Evaluations, submitting, task, Reserve
<1>6. ASSUME NEW s \in Submissions, Publish(s) \/ EvaluationFails(s) PROVE LockInv'
  <2>1. \A v \in Scorers : Scoring(v)' <=> (Scoring(v) /\ v # s)
    BY <1>6, PublishFacts, IdleFacts DEF Scoring, TypeOK
  <2>2. call'[s] \in {"done", "cancelled"} /\ \A t \in Submissions : t # s => call'[t] = call[t]
    BY <1>6, PublishFacts DEF TypeOK
  <2>3. Scoring(s) /\ UNCHANGED <<index, count>> /\ (last'.by = last.by \/ last'.by = s)
    BY <1>6, PublishFacts
  <2>4. \A t \in Submissions : Scoring(t)' <=> call'[t] \in {"scoring", "abandoned"}
    BY <2>1, <2>2, SubmissionsInt DEF LockInv
  <2>5. \A t \in Submissions : ~Scoring(t)'
    BY <2>1, <2>3, SubmissionsInt DEF LockInv
  <2>6. (last.by \in Submissions => call[last.by] \in {"done", "cancelled"})'
    BY <2>2, <2>3 DEF LockInv
  <2>7. QED
    BY <2>3, <2>4, <2>5, <2>6 DEF LockInv
<1>7. ASSUME NEW u \in Scorers, Load(u) PROVE LockInv'
  <2>1. Evaluate(u)
    BY <1>7 DEF Evaluate
  <2>2. QED
    BY <2>1, ScoringKept, SubmissionsInt DEF LockInv, submitting, task
<1>8. ASSUME NEW u \in Scorers, ResetEpisode(u) PROVE LockInv'
  <2>1. Evaluate(u)
    BY <1>8 DEF Evaluate
  <2>2. QED
    BY <2>1, ScoringKept, SubmissionsInt DEF LockInv, submitting, task
<1>9. ASSUME NEW u \in Scorers, EndEpisode(u) PROVE LockInv'
  <2>1. Evaluate(u)
    BY <1>9 DEF Evaluate
  <2>2. QED
    BY <2>1, ScoringKept, SubmissionsInt DEF LockInv, submitting, task
<1>10. ASSUME NEW u \in Scorers, EpisodeFaults(u) PROVE LockInv'
  <2>1. Evaluate(u)
    BY <1>10 DEF Evaluate
  <2>2. QED
    BY <2>1, ScoringKept, SubmissionsInt DEF LockInv, submitting, task
<1>11. ASSUME NEW u \in Scorers, Roll(u) PROVE LockInv'
  BY <1>11, IdleFacts, SubmissionsInt DEF LockInv, TypeOK, Scoring, Evaluations, submitting, task, Roll
<1>12. CASE EndSession
  BY <1>12, IdleFacts, SubmissionsInt DEF LockInv, TypeOK, Scoring, Evaluations, submitting, task, EndSession
<1>13. CASE StartHook
  BY <1>13, IdleFacts, SubmissionsInt DEF LockInv, TypeOK, Scoring, Evaluations, submitting, task, StartHook
<1>14. CASE SkipHook
  BY <1>14, IdleFacts, SubmissionsInt DEF LockInv, TypeOK, Scoring, Evaluations, submitting, task, SkipHook
<1>15. CASE FinishHook
  BY <1>15, FinishFacts, IdleFacts, SubmissionsInt DEF LockInv, TypeOK, Scoring, Evaluations, submitting, task
<1>16. CASE SaveMetrics
  BY <1>16, IdleFacts, SubmissionsInt DEF LockInv, TypeOK, Scoring, Evaluations, submitting, task, SaveMetrics
<1>17. CASE CloseTask
  BY <1>17, IdleFacts, SubmissionsInt DEF LockInv, TypeOK, Scoring, Evaluations, submitting, task, CloseTask
<1>18. CASE UNCHANGED vars
  BY <1>18, IdleFacts, SubmissionsInt DEF LockInv, TypeOK, Scoring, Evaluations, submitting, task, vars
<1>19. QED
  BY <1>1, <1>2, <1>3, <1>4, <1>5, <1>6, <1>7, <1>8, <1>9, <1>10, <1>11, <1>12, <1>13, <1>14, <1>15, <1>16, <1>17, <1>18 DEF Next, Evaluate

(* The teardown's place among the submissions. *)
LEMMA PhaseStep == (TypeOK /\ PhaseInv) /\ [Next]_vars => PhaseInv'
<1> SUFFICES ASSUME (TypeOK /\ PhaseInv), [Next]_vars PROVE PhaseInv'
  OBVIOUS
<1>1. CASE Edit
  BY <1>1, IdleFacts, SubmissionsInt DEF PhaseInv, TypeOK, Scoring, Evaluations, submitting, task, Edit
<1>2. CASE Explore
  BY <1>2, IdleFacts, SubmissionsInt DEF PhaseInv, TypeOK, Scoring, Evaluations, submitting, task, Explore
<1>3. ASSUME NEW s \in Submissions, Submit(s) PROVE PhaseInv'
  BY <1>3, IdleFacts, SubmissionsInt DEF PhaseInv, TypeOK, Scoring, Evaluations, submitting, task, Submit
<1>4. ASSUME NEW s \in Submissions, Cancel(s) PROVE PhaseInv'
  BY <1>4, IdleFacts, SubmissionsInt DEF PhaseInv, TypeOK, Scoring, Evaluations, submitting, task, Cancel
<1>5. ASSUME NEW s \in Submissions, Reserve(s) PROVE PhaseInv'
  <2>1. \A v \in Scorers : v # s => (Scoring(v)' <=> Scoring(v))
    BY <1>5 DEF Reserve, Scoring, TypeOK
  <2>2. UNCHANGED <<phase, reason, filed>> /\ overlapped' = (overlapped \/ phase # "session")
    BY <1>5 DEF Reserve, task
  <2>3. ~overlapped' => phase = "session" /\ ~overlapped
    BY <2>2
  <2>4. phase = "session" => ~overlapped'
    BY <2>2 DEF PhaseInv
  <2>5. QED
    BY <2>1, <2>2, <2>3, <2>4, SubmissionsInt DEF PhaseInv
<1>6. ASSUME NEW s \in Submissions, Publish(s) \/ EvaluationFails(s) PROVE PhaseInv'
  BY <1>6, PublishFacts, IdleFacts, SubmissionsInt DEF PhaseInv, TypeOK, Scoring, Evaluations, submitting, task
<1>7. ASSUME NEW u \in Scorers, Load(u) PROVE PhaseInv'
  <2>1. Evaluate(u)
    BY <1>7 DEF Evaluate
  <2>2. QED
    BY <2>1, ScoringKept, SubmissionsInt DEF PhaseInv, submitting, task
<1>8. ASSUME NEW u \in Scorers, ResetEpisode(u) PROVE PhaseInv'
  <2>1. Evaluate(u)
    BY <1>8 DEF Evaluate
  <2>2. QED
    BY <2>1, ScoringKept, SubmissionsInt DEF PhaseInv, submitting, task
<1>9. ASSUME NEW u \in Scorers, EndEpisode(u) PROVE PhaseInv'
  <2>1. Evaluate(u)
    BY <1>9 DEF Evaluate
  <2>2. QED
    BY <2>1, ScoringKept, SubmissionsInt DEF PhaseInv, submitting, task
<1>10. ASSUME NEW u \in Scorers, EpisodeFaults(u) PROVE PhaseInv'
  <2>1. Evaluate(u)
    BY <1>10 DEF Evaluate
  <2>2. QED
    BY <2>1, ScoringKept, SubmissionsInt DEF PhaseInv, submitting, task
<1>11. ASSUME NEW u \in Scorers, Roll(u) PROVE PhaseInv'
  BY <1>11, IdleFacts, SubmissionsInt DEF PhaseInv, TypeOK, Scoring, Evaluations, submitting, task, Roll
<1>12. CASE EndSession
  BY <1>12, IdleFacts, SubmissionsInt DEF PhaseInv, TypeOK, Scoring, Evaluations, submitting, task, EndSession
<1>13. CASE StartHook
  BY <1>13, IdleFacts, SubmissionsInt DEF PhaseInv, TypeOK, Scoring, Evaluations, submitting, task, StartHook
<1>14. CASE SkipHook
  BY <1>14, IdleFacts, SubmissionsInt DEF PhaseInv, TypeOK, Scoring, Evaluations, submitting, task, SkipHook
<1>15. CASE FinishHook
  BY <1>15, FinishFacts, IdleFacts, SubmissionsInt DEF PhaseInv, TypeOK, Scoring, Evaluations, submitting, task
<1>16. CASE SaveMetrics
  BY <1>16, IdleFacts, SubmissionsInt DEF PhaseInv, TypeOK, Scoring, Evaluations, submitting, task, SaveMetrics
<1>17. CASE CloseTask
  BY <1>17, IdleFacts, SubmissionsInt DEF PhaseInv, TypeOK, Scoring, Evaluations, submitting, task, CloseTask
<1>18. CASE UNCHANGED vars
  BY <1>18, IdleFacts, SubmissionsInt DEF PhaseInv, TypeOK, Scoring, Evaluations, submitting, task, vars
<1>19. QED
  BY <1>1, <1>2, <1>3, <1>4, <1>5, <1>6, <1>7, <1>8, <1>9, <1>10, <1>11, <1>12, <1>13, <1>14, <1>15, <1>16, <1>17, <1>18 DEF Next, Evaluate

(* Without an overlap nobody else is being scored. *)
LEMMA Alone ==
  ASSUME TypeOK, LockInv, PhaseInv, ~overlapped,
         NEW u \in Scorers, NEW v \in Scorers, Scoring(u), Scoring(v)
  PROVE  u = v
<1>1. CASE u \in Submissions /\ v \in Submissions
  BY <1>1 DEF LockInv
<1>2. ASSUME Scoring(Final), NEW s \in Submissions PROVE ~Scoring(s)
  BY <1>2 DEF PhaseInv
<1>3. QED
  BY <1>1, <1>2, SubmissionsInt

(* A perfect score of a scorer that is alone is earned. *)
LEMMA EarnedStep == (TypeOK /\ LockInv /\ PhaseInv /\ EarnedInv) /\ [Next]_vars => EarnedInv'
<1> SUFFICES ASSUME (TypeOK /\ LockInv /\ PhaseInv /\ EarnedInv), [Next]_vars PROVE EarnedInv'
  OBVIOUS
<1>1. CASE Edit
  BY <1>1, IdleFacts, SubmissionsInt DEF EarnedInv, TypeOK, Scoring, Rolling, Evaluations, submitting, task, Edit
<1>2. CASE Explore
  BY <1>2, IdleFacts, SubmissionsInt DEF EarnedInv, TypeOK, Scoring, Rolling, Evaluations, submitting, task, Explore
<1>3. ASSUME NEW s \in Submissions, Submit(s) PROVE EarnedInv'
  BY <1>3, IdleFacts, SubmissionsInt DEF EarnedInv, TypeOK, Scoring, Rolling, Evaluations, submitting, task, Submit
<1>4. ASSUME NEW s \in Submissions, Cancel(s) PROVE EarnedInv'
  BY <1>4, IdleFacts, SubmissionsInt DEF EarnedInv, TypeOK, Scoring, Rolling, Evaluations, submitting, task, Cancel
<1>5. ASSUME NEW s \in Submissions, Reserve(s) PROVE EarnedInv'
  BY <1>5, IdleFacts, SubmissionsInt DEF EarnedInv, TypeOK, Scoring, Rolling, Evaluations, submitting, task, Reserve
<1>6. ASSUME NEW s \in Submissions, Publish(s) \/ EvaluationFails(s) PROVE EarnedInv'
  <2>1. \A v \in Scorers : v # s => score'[v] = score[v]
    BY <1>6, PublishFacts DEF TypeOK
  <2>2. score'[s] = Idle /\ Scoring(s)
    BY <1>6, PublishFacts, SubmissionsInt DEF TypeOK
  <2>3. UNCHANGED <<explored, overlapped>>
    BY <1>6, PublishFacts
  <2>4. \A v \in Scorers : score'[v].at = "load" => score'[v].episode = 1
    BY <2>1, <2>2, IdleFacts DEF EarnedInv
  <2>5. ASSUME ~overlapped, NEW v \in Scorers PROVE score'[v].at = "off"
    BY <2>1, <2>2, <2>5, Alone, IdleFacts, SubmissionsInt DEF Scoring
  <2>6. ASSUME ~overlapped, ~explored, last'.outcome = "perfect" PROVE last'.version \in Winning
    <3>1. CASE last' = last
      BY <2>6, <3>1 DEF EarnedInv
    <3>2. CASE last' # last
      <4>1. last'.version = score[s].version /\ score[s].at = "scored" /\ score[s].outcome = "perfect"
        BY <1>6, <2>6, <3>2, PublishFacts
      <4>2. QED
        BY <2>2, <2>6, <4>1, SubmissionsInt DEF EarnedInv
    <3>3. QED
      BY <3>1, <3>2
  <2>7. QED
    BY <2>3, <2>4, <2>5, <2>6 DEF EarnedInv, Rolling, Scoring
<1>7. ASSUME NEW u \in Scorers, Load(u) PROVE EarnedInv'
  <2>1. Evaluate(u)
    BY <1>7 DEF Evaluate
  <2>2. PICK e \in Evaluations : score' = [score EXCEPT ![u] = e] /\ e.at \in {"reset", "scored"} /\ e.episode = score[u].episode /\ (e.at = "scored" => e.outcome = "flawed")
    BY <1>7, LoadFacts
  <2>3. score'[u] = e /\ \A v \in Scorers : v # u => score'[v] = score[v]
    BY <2>2 DEF TypeOK
  <2>4. UNCHANGED <<last, explored, overlapped>> /\ own' = own
    BY <1>7 DEF Load, Ends
  <2>5. \A v \in Scorers : score'[v].at = "load" => score'[v].episode = 1
    BY <2>2, <2>3 DEF EarnedInv
  <2>6. ASSUME ~overlapped, NEW v \in Scorers, Scoring(v)' PROVE v = u
    BY <2>1, <2>6, ScoringKept, Alone DEF Scoring
  <2>7. ASSUME ~overlapped, ~explored, NEW v \in Scorers, score'[v].at = "roll" PROVE own' = v
    <3>1. Scoring(v)'
      BY <2>7 DEF Scoring
    <3>2. v = u
      BY <2>6, <2>7, <3>1
    <3>3. QED
      BY <2>2, <2>3, <2>4, <2>7, <3>2
  <2>8. ASSUME ~overlapped, ~explored, NEW v \in Scorers, score'[v].at # "off",
               score'[v].outcome = "perfect", score'[v].at = "scored" \/ score'[v].episode > 1
        PROVE  score'[v].version \in Winning
    <3>1. v = u
      BY <2>6, <2>8 DEF Scoring
    <3>2. score[u].at # "off" /\ (Rolling(u) => own = u)
      BY <2>1, <2>8, ScoringKept DEF EarnedInv
    <3>3. QED
      BY <1>7, <2>2, <2>3, <2>8, <3>1, <3>2 DEF EarnedInv, Load, Scoring
  <2>9. QED
    BY <2>4, <2>5, <2>7, <2>8 DEF EarnedInv, Rolling, Scoring
<1>8. ASSUME NEW u \in Scorers, ResetEpisode(u) PROVE EarnedInv'
  <2>1. Evaluate(u)
    BY <1>8 DEF Evaluate
  <2>2. PICK e \in Evaluations : score' = [score EXCEPT ![u] = e] /\ e.at = "roll" /\ e.episode = score[u].episode /\ e.version = score[u].version /\ e.outcome = score[u].outcome
    BY <1>8, ResetFacts
  <2>3. score'[u] = e /\ \A v \in Scorers : v # u => score'[v] = score[v]
    BY <2>2 DEF TypeOK
  <2>4. UNCHANGED <<last, explored, overlapped>> /\ own' = u
    BY <1>8 DEF ResetEpisode, Ends
  <2>5. \A v \in Scorers : score'[v].at = "load" => score'[v].episode = 1
    BY <2>2, <2>3 DEF EarnedInv
  <2>6. ASSUME ~overlapped, NEW v \in Scorers, Scoring(v)' PROVE v = u
    BY <2>1, <2>6, ScoringKept, Alone DEF Scoring
  <2>7. ASSUME ~overlapped, ~explored, NEW v \in Scorers, score'[v].at = "roll" PROVE own' = v
    <3>1. Scoring(v)'
      BY <2>7 DEF Scoring
    <3>2. v = u
      BY <2>6, <2>7, <3>1
    <3>3. QED
      BY <2>2, <2>3, <2>4, <2>7, <3>2
  <2>8. ASSUME ~overlapped, ~explored, NEW v \in Scorers, score'[v].at # "off",
               score'[v].outcome = "perfect", score'[v].at = "scored" \/ score'[v].episode > 1
        PROVE  score'[v].version \in Winning
    <3>1. v = u
      BY <2>6, <2>8 DEF Scoring
    <3>2. score[u].at # "off" /\ (Rolling(u) => own = u)
      BY <2>1, <2>8, ScoringKept DEF EarnedInv
    <3>3. QED
      BY <1>8, <2>2, <2>3, <2>8, <3>1, <3>2 DEF EarnedInv, ResetEpisode, Scoring
  <2>9. QED
    BY <2>4, <2>5, <2>7, <2>8 DEF EarnedInv, Rolling, Scoring
<1>9. ASSUME NEW u \in Scorers, EndEpisode(u) PROVE EarnedInv'
  <2>1. Evaluate(u)
    BY <1>9 DEF Evaluate
  <2>2. PICK e \in Evaluations : score' = [score EXCEPT ![u] = e] /\ e.at \in {"reset", "scored"} /\ e.version = score[u].version /\ (e.outcome = "perfect" /\ own = u => e.version \in Winning)
    BY <1>9, EndFacts
  <2>3. score'[u] = e /\ \A v \in Scorers : v # u => score'[v] = score[v]
    BY <2>2 DEF TypeOK
  <2>4. UNCHANGED <<last, explored, overlapped>> /\ own' = IF own = u THEN None ELSE own
    BY <1>9 DEF EndEpisode, Ends
  <2>5. \A v \in Scorers : score'[v].at = "load" => score'[v].episode = 1
    BY <2>2, <2>3 DEF EarnedInv
  <2>6. ASSUME ~overlapped, NEW v \in Scorers, Scoring(v)' PROVE v = u
    BY <2>1, <2>6, ScoringKept, Alone DEF Scoring
  <2>7. ASSUME ~overlapped, ~explored, NEW v \in Scorers, score'[v].at = "roll" PROVE own' = v
    <3>1. Scoring(v)'
      BY <2>7 DEF Scoring
    <3>2. v = u
      BY <2>6, <2>7, <3>1
    <3>3. QED
      BY <2>2, <2>3, <2>4, <2>7, <3>2
  <2>8. ASSUME ~overlapped, ~explored, NEW v \in Scorers, score'[v].at # "off",
               score'[v].outcome = "perfect", score'[v].at = "scored" \/ score'[v].episode > 1
        PROVE  score'[v].version \in Winning
    <3>1. v = u
      BY <2>6, <2>8 DEF Scoring
    <3>2. score[u].at # "off" /\ (Rolling(u) => own = u)
      BY <2>1, <2>8, ScoringKept DEF EarnedInv
    <3>3. QED
      BY <1>9, <2>2, <2>3, <2>8, <3>1, <3>2 DEF EarnedInv, EndEpisode, Scoring
  <2>9. QED
    BY <2>4, <2>5, <2>7, <2>8 DEF EarnedInv, Rolling, Scoring
<1>10. ASSUME NEW u \in Scorers, EpisodeFaults(u) PROVE EarnedInv'
  <2>1. Evaluate(u)
    BY <1>10 DEF Evaluate
  <2>2. PICK e \in Evaluations : score' = [score EXCEPT ![u] = e] /\ e.at \in {"reset", "scored"} /\ e.outcome = "flawed"
    BY <1>10, FaultFacts
  <2>3. score'[u] = e /\ \A v \in Scorers : v # u => score'[v] = score[v]
    BY <2>2 DEF TypeOK
  <2>4. UNCHANGED <<last, explored, overlapped>> /\ own' = IF own = u THEN None ELSE own
    BY <1>10 DEF EpisodeFaults, Ends
  <2>5. \A v \in Scorers : score'[v].at = "load" => score'[v].episode = 1
    BY <2>2, <2>3 DEF EarnedInv
  <2>6. ASSUME ~overlapped, NEW v \in Scorers, Scoring(v)' PROVE v = u
    BY <2>1, <2>6, ScoringKept, Alone DEF Scoring
  <2>7. ASSUME ~overlapped, ~explored, NEW v \in Scorers, score'[v].at = "roll" PROVE own' = v
    <3>1. Scoring(v)'
      BY <2>7 DEF Scoring
    <3>2. v = u
      BY <2>6, <2>7, <3>1
    <3>3. QED
      BY <2>2, <2>3, <2>4, <2>7, <3>2
  <2>8. ASSUME ~overlapped, ~explored, NEW v \in Scorers, score'[v].at # "off",
               score'[v].outcome = "perfect", score'[v].at = "scored" \/ score'[v].episode > 1
        PROVE  score'[v].version \in Winning
    <3>1. v = u
      BY <2>6, <2>8 DEF Scoring
    <3>2. score[u].at # "off" /\ (Rolling(u) => own = u)
      BY <2>1, <2>8, ScoringKept DEF EarnedInv
    <3>3. QED
      BY <1>10, <2>2, <2>3, <2>8, <3>1, <3>2 DEF EarnedInv, EpisodeFaults, Scoring
  <2>9. QED
    BY <2>4, <2>5, <2>7, <2>8 DEF EarnedInv, Rolling, Scoring
<1>11. ASSUME NEW u \in Scorers, Roll(u) PROVE EarnedInv'
  BY <1>11, IdleFacts, SubmissionsInt DEF EarnedInv, TypeOK, Scoring, Rolling, Evaluations, submitting, task, Roll
<1>12. CASE EndSession
  BY <1>12, IdleFacts, SubmissionsInt DEF EarnedInv, TypeOK, Scoring, Rolling, Evaluations, submitting, task, EndSession
<1>13. CASE StartHook
  BY <1>13, IdleFacts, SubmissionsInt DEF EarnedInv, TypeOK, Scoring, Rolling, Evaluations, submitting, task, StartHook
<1>14. CASE SkipHook
  BY <1>14, IdleFacts, SubmissionsInt DEF EarnedInv, TypeOK, Scoring, Rolling, Evaluations, submitting, task, SkipHook
<1>15. CASE FinishHook
  BY <1>15, FinishFacts, IdleFacts, SubmissionsInt DEF EarnedInv, TypeOK, Scoring, Rolling, Evaluations, submitting, task
<1>16. CASE SaveMetrics
  BY <1>16, IdleFacts, SubmissionsInt DEF EarnedInv, TypeOK, Scoring, Rolling, Evaluations, submitting, task, SaveMetrics
<1>17. CASE CloseTask
  BY <1>17, IdleFacts, SubmissionsInt DEF EarnedInv, TypeOK, Scoring, Rolling, Evaluations, submitting, task, CloseTask
<1>18. CASE UNCHANGED vars
  BY <1>18, IdleFacts, SubmissionsInt DEF EarnedInv, TypeOK, Scoring, Rolling, Evaluations, submitting, task, vars
<1>19. QED
  BY <1>1, <1>2, <1>3, <1>4, <1>5, <1>6, <1>7, <1>8, <1>9, <1>10, <1>11, <1>12, <1>13, <1>14, <1>15, <1>16, <1>17, <1>18 DEF Next, Evaluate

(* What is saved stays the last result. *)
LEMMA SavedStep == (TypeOK /\ PhaseInv /\ SavedInv) /\ [Next]_vars => SavedInv'
<1> SUFFICES ASSUME (TypeOK /\ PhaseInv /\ SavedInv), [Next]_vars PROVE SavedInv'
  OBVIOUS
<1>1. CASE Edit
  BY <1>1, IdleFacts, SubmissionsInt DEF SavedInv, PhaseInv, TypeOK, Scoring, submitting, task, Edit
<1>2. CASE Explore
  BY <1>2, IdleFacts, SubmissionsInt DEF SavedInv, PhaseInv, TypeOK, Scoring, submitting, task, Explore
<1>3. ASSUME NEW s \in Submissions, Submit(s) PROVE SavedInv'
  BY <1>3, IdleFacts, SubmissionsInt DEF SavedInv, PhaseInv, TypeOK, Scoring, submitting, task, Submit
<1>4. ASSUME NEW s \in Submissions, Cancel(s) PROVE SavedInv'
  BY <1>4, IdleFacts, SubmissionsInt DEF SavedInv, PhaseInv, TypeOK, Scoring, submitting, task, Cancel
<1>5. ASSUME NEW s \in Submissions, Reserve(s) PROVE SavedInv'
  BY <1>5, IdleFacts, SubmissionsInt DEF SavedInv, PhaseInv, TypeOK, Scoring, submitting, task, Reserve
<1>6. ASSUME NEW s \in Submissions, Publish(s) \/ EvaluationFails(s) PROVE SavedInv'
  BY <1>6, PublishFacts, IdleFacts, SubmissionsInt DEF SavedInv, PhaseInv, TypeOK, Scoring, submitting, task
<1>7. ASSUME NEW u \in Scorers, Load(u) PROVE SavedInv'
  BY <1>7, LoadFacts, IdleFacts, SubmissionsInt DEF SavedInv, PhaseInv, TypeOK, Scoring, submitting, task, Load
<1>8. ASSUME NEW u \in Scorers, ResetEpisode(u) PROVE SavedInv'
  BY <1>8, ResetFacts, IdleFacts, SubmissionsInt DEF SavedInv, PhaseInv, TypeOK, Scoring, submitting, task, ResetEpisode
<1>9. ASSUME NEW u \in Scorers, EndEpisode(u) PROVE SavedInv'
  BY <1>9, EndFacts, IdleFacts, SubmissionsInt DEF SavedInv, PhaseInv, TypeOK, Scoring, submitting, task, EndEpisode
<1>10. ASSUME NEW u \in Scorers, EpisodeFaults(u) PROVE SavedInv'
  BY <1>10, FaultFacts, IdleFacts, SubmissionsInt DEF SavedInv, PhaseInv, TypeOK, Scoring, submitting, task, EpisodeFaults
<1>11. ASSUME NEW u \in Scorers, Roll(u) PROVE SavedInv'
  BY <1>11, IdleFacts, SubmissionsInt DEF SavedInv, PhaseInv, TypeOK, Scoring, submitting, task, Roll
<1>12. CASE EndSession
  BY <1>12, IdleFacts, SubmissionsInt DEF SavedInv, PhaseInv, TypeOK, Scoring, submitting, task, EndSession
<1>13. CASE StartHook
  BY <1>13, IdleFacts, SubmissionsInt DEF SavedInv, PhaseInv, TypeOK, Scoring, submitting, task, StartHook
<1>14. CASE SkipHook
  BY <1>14, IdleFacts, SubmissionsInt DEF SavedInv, PhaseInv, TypeOK, Scoring, submitting, task, SkipHook
<1>15. CASE FinishHook
  BY <1>15, FinishFacts, IdleFacts, SubmissionsInt DEF SavedInv, PhaseInv, TypeOK, Scoring, submitting, task
<1>16. CASE SaveMetrics
  BY <1>16, IdleFacts, SubmissionsInt DEF SavedInv, PhaseInv, TypeOK, Scoring, submitting, task, SaveMetrics
<1>17. CASE CloseTask
  BY <1>17, IdleFacts, SubmissionsInt DEF SavedInv, PhaseInv, TypeOK, Scoring, submitting, task, CloseTask
<1>18. CASE UNCHANGED vars
  BY <1>18, IdleFacts, SubmissionsInt DEF SavedInv, PhaseInv, TypeOK, Scoring, submitting, task, vars
<1>19. QED
  BY <1>1, <1>2, <1>3, <1>4, <1>5, <1>6, <1>7, <1>8, <1>9, <1>10, <1>11, <1>12, <1>13, <1>14, <1>15, <1>16, <1>17, <1>18 DEF Next, Evaluate

(* The inductive invariant holds. *)
THEOREM PolicyHolds == Spec => []PolicyInv
<1>1. Init => PolicyInv
  <2> SUFFICES ASSUME Init PROVE PolicyInv
    OBVIOUS
  <2>1. NoResult \in Results /\ NoResult.by = None /\ NoResult.outcome = "flawed"
    BY PolicyAssumption DEF NoResult, Results
  <2>2. TypeOK
    <3>1. score \in [Scorers -> Evaluations]
      BY IdleFacts DEF Init
    <3>2. index \in [Submissions -> Int] /\ count \in Nat /\ holder \in Submissions \cup {None}
      BY DEF Init
    <3>3. explored \in BOOLEAN /\ overlapped \in BOOLEAN /\ filed \in BOOLEAN
      BY DEF Init
    <3>4. saved \in [metrics : Results, state : Results] /\ last \in Results
      BY <2>1 DEF Init
    <3>5. solution \in Versions /\ own \in Scorers \cup {None}
      BY PolicyAssumption DEF Init
    <3>6. QED
      BY <3>1, <3>2, <3>3, <3>4, <3>5 DEF Init, TypeOK, Evaluations, Ats, Outcomes
  <2>3. LockInv
    BY <2>1, IdleFacts, SubmissionsInt DEF Init, LockInv, Scoring
  <2>4. PhaseInv
    BY <2>1, IdleFacts, SubmissionsInt DEF Init, PhaseInv, Scoring
  <2>5. EarnedInv
    BY <2>1, IdleFacts, SubmissionsInt DEF Init, EarnedInv, Scoring, Rolling
  <2>6. SavedInv
    BY DEF Init, SavedInv
  <2>7. QED
    BY <2>2, <2>3, <2>4, <2>5, <2>6 DEF PolicyInv
<1>2. PolicyInv /\ [Next]_vars => PolicyInv'
  BY TypesStep, LockStep, PhaseStep, EarnedStep, SavedStep DEF PolicyInv
<1>3. QED
  BY <1>1, <1>2, PTL DEF Spec

(* Every variable has its type. *)
THEOREM TypeCorrect == Spec => []TypeOK
<1>1. PolicyInv => TypeOK
  BY DEF PolicyInv
<1>2. QED
  BY <1>1, PolicyHolds, PTL

(* Submissions are scored one at a time, in the order of their indices. *)
THEOREM SubmissionsHold == Spec => []SubmissionsOrdered
<1>1. PolicyInv => SubmissionsOrdered
  <2> SUFFICES ASSUME PolicyInv, NEW s \in Submissions, Scoring(s)
               PROVE  /\ \A t \in Submissions \ {s} : ~Scoring(t) /\ index[t] < index[s]
                      /\ last.by \in Submissions => index[last.by] < index[s]
    BY DEF SubmissionsOrdered
  <2>1. \A t \in Submissions \ {s} : ~Scoring(t) /\ index[t] < index[s]
    BY DEF PolicyInv, LockInv
  <2>2. last.by \in Submissions => last.by # s
    BY DEF PolicyInv, LockInv
  <2>3. QED
    BY <2>1, <2>2
<1>2. QED
  BY <1>1, PolicyHolds, PTL

(* No task is solved by a version that does not win, unless its agent plays
   while it is scored.                                                       *)
THEOREM SolvedHolds == Spec => SolvedIsEarned
<1>1. PolicyInv /\ [Next]_vars =>
        [(phase = "session" /\ reason' = "solved" /\ ~explored) => last.version \in Winning]_vars
  <2> SUFFICES ASSUME PolicyInv, Next, phase = "session", reason' = "solved", ~explored
               PROVE  last.version \in Winning
    OBVIOUS
  <2>1. reason # "solved" => EndSession
    BY DEF Next, Evaluate, Edit, Explore, Submit, Cancel, Reserve, Publish, EvaluationFails, Release, Load,
           ResetEpisode, EndEpisode, EpisodeFaults, Roll, StartHook, SkipHook, FinishHook, SaveMetrics,
           CloseTask, task
  <2>2. QED
    BY <2>1 DEF EndSession, Solved, PolicyInv, EarnedInv, PhaseInv
<1>2. QED
  BY <1>1, PolicyHolds, PTL DEF Spec, SolvedIsEarned

(* An undisturbed teardown leaves the official score. *)
THEOREM OfficialHolds == Spec => []OfficialResult
<1>1. PolicyInv => OfficialResult
  BY DEF PolicyInv, OfficialResult, SavedInv, EarnedInv
<1>2. QED
  BY <1>1, PolicyHolds, PTL
=============================================================================
