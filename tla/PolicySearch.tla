----------------------------- MODULE PolicySearch -----------------------------
(***************************************************************************)
(* A policy_search task (regact/protocols/policy_search.py): the agent     *)
(* edits solution.py, explores the environment over HTTP and submits; a    *)
(* submission is scored by rolling episodes on the task's environment      *)
(* (regact/tools/submit_solution.py, controllers/executor.py, runner.py),  *)
(* and the teardown hook scores the file that is left, as the official     *)
(* result (regact/features/controller.py).                                 *)
(*                                                                         *)
(* Everyone plays on the one live instance of the task's EnvSession        *)
(* (regact/env/session.py): a reset replaces it, a step plays on whichever *)
(* is live.  `own' is the scorer that made the live instance, as long as   *)
(* nobody else has reset, stepped or stopped it: an episode whose instance *)
(* is its own to the end shows what its controller is worth, another may   *)
(* show anything.                                                          *)
(*                                                                         *)
(* `holder' has the submission lock, which asyncio.Lock gives to the       *)
(* longest waiting of the "queued" calls.  The history variable `explored' *)
(* says that the agent played while an episode was being scored,           *)
(* `overlapped' that a submission was being scored at or after the start   *)
(* of the teardown, and `filed' that the teardown found a solution.py that *)
(* loads.                                                                  *)
(***************************************************************************)
EXTENDS Integers

CONSTANTS
  MaxSubmissions, \* bound: the calls of SubmitSolution the agent makes
  Versions,     \* what solution.py can be
  FirstVersion, \* the template the workspace starts with
  Winning,      \* the versions that win every episode
  Missing,      \* the versions that cannot be scored: no file, or one that does not load
  Episodes      \* controller.n_episodes

Submissions == 1..MaxSubmissions  \* in the order in which they arrive
Final == 0  \* FinalizeControllerHook, and its directory submissions/final
None == -1

ASSUME PolicyAssumption ==
  /\ FirstVersion \in Versions \ Missing /\ Winning \subseteq Versions \ Missing
  /\ Missing \subseteq Versions /\ Episodes \in Nat \ {0}
  /\ MaxSubmissions \in Nat

VARIABLES solution, call, holder, index, count, score, own, last,
          phase, reason, saved, explored, overlapped, filed

task == <<phase, reason, saved>>
submitting == <<call, holder, index, count>>
vars == <<solution, submitting, score, own, last, task, explored, overlapped, filed>>

Scorers == Submissions \cup {Final}

NoResult == [by |-> None, version |-> FirstVersion, outcome |-> "flawed"]
Idle == [at |-> "off", version |-> FirstVersion, episode |-> 1, outcome |-> "perfect"]

(* Who is between the start and the result of an evaluation. *)
Scoring(u) == score[u].at # "off"
(* Who is between the reset and the end of an episode. *)
Rolling(u) == score[u].at = "roll"

Init ==
  /\ solution = FirstVersion
  /\ call = [s \in Submissions |-> "new"] /\ holder = None
  /\ index = [s \in Submissions |-> -1] /\ count = 0
  /\ score = [u \in Scorers |-> Idle]
  /\ own = None
  /\ last = NoResult
  /\ phase = "session" /\ reason = "running"
  /\ saved = [metrics |-> NoResult, state |-> NoResult]
  /\ explored = FALSE /\ overlapped = FALSE /\ filed = FALSE

-----------------------------------------------------------------------------
(* The agent.  Its processes live until agent.close(), which follows the
   teardown hooks: nothing it does is over when the session is.             *)

Edit ==
  /\ phase # "over"
  /\ \E v \in Versions \ {solution} : solution' = v
  /\ UNCHANGED <<submitting, score, own, last, task, explored, overlapped, filed>>

(* POST /env/.../reset, /step or /stop from a script of the agent, while an
   episode is being scored; at other times it changes nothing that is kept. *)
Explore ==
  /\ phase # "over" /\ own # None
  /\ own' = None /\ explored' = TRUE
  /\ UNCHANGED <<solution, submitting, score, last, task, overlapped, filed>>

(* SubmitSolution.call: acquire the lock, or wait for it behind the others.
   Calls are numbered as they come.                                         *)
Submit(s) ==
  /\ phase # "over" /\ call[s] = "new" /\ \A t \in 1..s - 1 : call[t] # "new"
  /\ call' = [call EXCEPT ![s] = "queued"]
  /\ UNCHANGED <<solution, holder, index, count, score, own, last, task, explored, overlapped, filed>>

(* Mutant: a cancelled caller releases the lock, whatever its thread does. *)
CancelReleases(s) ==
  /\ phase # "over" /\ call[s] \in {"queued", "scoring"}
  /\ call' = [call EXCEPT ![s] = IF @ = "queued" THEN "cancelled" ELSE "abandoned"]
  /\ holder' = IF holder = s THEN None ELSE holder
  /\ UNCHANGED <<solution, index, count, score, own, last, task, explored, overlapped, filed>>
(* The HTTP caller is cancelled.  One that waits for the lock gives up; one
   whose evaluation runs is shielded from it and keeps the lock.            *)
Cancel(s) ==
  /\ phase # "over" /\ call[s] \in {"queued", "scoring"}
  /\ call' = [call EXCEPT ![s] = IF @ = "queued" THEN "cancelled" ELSE "abandoned"]
  /\ UNCHANGED <<solution, holder, index, count, score, own, last, task, explored, overlapped, filed>>

-----------------------------------------------------------------------------
(* A submission, and the evaluation it shares with the teardown. *)

(* _submit: the index is reserved before the thread starts, so a failed
   evaluation never gives its directory to the next.                        *)
Reserve(s) ==
  /\ phase # "over" /\ call[s] = "queued"
  /\ holder = None /\ \A t \in 1..s - 1 : call[t] # "queued"
  /\ call' = [call EXCEPT ![s] = "scoring"] /\ holder' = s
  /\ index' = [index EXCEPT ![s] = count] /\ count' = count + 1
  /\ score' = [score EXCEPT ![s] = [Idle EXCEPT !.at = "load"]]
  /\ overlapped' = (overlapped \/ phase # "session")
  /\ UNCHANGED <<solution, own, last, task, explored, filed>>

(* run_episodes_raw imports solution.py as it is now; one that is missing or
   does not load fails every episode.                                       *)
Load(u) ==
  /\ phase # "over" /\ score[u].at = "load"
  /\ score' = [score EXCEPT ![u] =
       IF solution \in Missing
       THEN [@ EXCEPT !.at = "scored", !.version = solution, !.outcome = "flawed"]
       ELSE [@ EXCEPT !.at = "reset", !.version = solution]]
  /\ UNCHANGED <<solution, submitting, own, last, task, explored, overlapped, filed>>

(* env.reset(seed): a fresh instance takes the place of the live one. *)
ResetEpisode(u) ==
  /\ phase # "over" /\ score[u].at = "reset"
  /\ own' = u
  /\ score' = [score EXCEPT ![u].at = "roll"]
  /\ UNCHANGED <<solution, submitting, last, task, explored, overlapped, filed>>

(* env.step on an instance that is another scorer's. *)
Roll(u) ==
  /\ phase # "over" /\ Rolling(u) /\ own \notin {u, None}
  /\ own' = None
  /\ UNCHANGED <<solution, submitting, score, last, task, explored, overlapped, filed>>

(* Mutant: one episode too many. *)
NextEpisodeLate(evaluation) ==
  IF evaluation.episode > Episodes THEN [evaluation EXCEPT !.at = "scored"]
  ELSE [evaluation EXCEPT !.at = "reset", !.episode = @ + 1]
NextEpisode(evaluation) ==
  IF evaluation.episode = Episodes THEN [evaluation EXCEPT !.at = "scored"]
  ELSE [evaluation EXCEPT !.at = "reset", !.episode = @ + 1]

Ends(u) == own' = IF own = u THEN None ELSE own

EndEpisode(u) ==
  /\ phase # "over" /\ Rolling(u)
  /\ \E won \in BOOLEAN :
       /\ own = u => (won <=> score[u].version \in Winning)
       /\ score' = [score EXCEPT ![u] = NextEpisode(IF won THEN @ ELSE [@ EXCEPT !.outcome = "flawed"])]
  /\ Ends(u)
  /\ UNCHANGED <<solution, submitting, last, task, explored, overlapped, filed>>

(* Mutant: an episode that the environment failed counts as played. *)
FaultsCounted(u) ==
  /\ phase # "over" /\ score[u].at \in {"reset", "roll"}
  /\ score' = [score EXCEPT ![u] = NextEpisode(@)]
  /\ Ends(u)
  /\ UNCHANGED <<solution, submitting, last, task, explored, overlapped, filed>>
(* The environment fails: the episode is not the controller's fault, and the
   evaluation is incomplete.  A step without a live instance is such a fault. *)
EpisodeFaults(u) ==
  /\ phase # "over" /\ score[u].at \in {"reset", "roll"}
  /\ score' = [score EXCEPT ![u] = NextEpisode([@ EXCEPT !.outcome = "flawed"])]
  /\ Ends(u)
  /\ UNCHANGED <<solution, submitting, last, task, explored, overlapped, filed>>

(* score_episodes and what _solved reads of it: `perfect' is a complete
   evaluation without an error that wins every episode, anything else, an
   incomplete evaluation or an error included, is `flawed'.                 *)
Result(u, outcome) == [by |-> u, version |-> score[u].version, outcome |-> outcome]

(* The thread is done: the result is published, the caller answered and the
   lock released to the next waiter.                                        *)
Release(s) ==
  /\ call' = [call EXCEPT ![s] = IF @ = "abandoned" THEN "cancelled" ELSE "done"]
  /\ holder' = None
  /\ score' = [score EXCEPT ![s] = Idle]
  /\ Ends(s)

Publish(s) ==
  /\ phase # "over" /\ s \in Submissions /\ score[s].at = "scored"
  /\ last' = Result(s, score[s].outcome)
  /\ Release(s)
  /\ UNCHANGED <<solution, index, count, task, explored, overlapped, filed>>

(* Mutant: the lock is held for ever by a submission whose evaluation raised. *)
FailureKeepsLock(s) ==
  /\ phase # "over" /\ s \in Submissions /\ Scoring(s)
  /\ last' = last
  /\ call' = [call EXCEPT ![s] = IF @ = "abandoned" THEN "cancelled" ELSE "done"]
  /\ holder' = holder
  /\ score' = [score EXCEPT ![s] = Idle]
  /\ Ends(s)
  /\ UNCHANGED <<solution, index, count, task, explored, overlapped, filed>>
(* The evaluation raises, and nothing is published, or its process times out
   or dies, and the result says so.                                         *)
EvaluationFails(s) ==
  /\ phase # "over" /\ s \in Submissions /\ Scoring(s)
  /\ last' \in {last, Result(s, "flawed")}
  /\ Release(s)
  /\ UNCHANGED <<solution, index, count, task, explored, overlapped, filed>>

-----------------------------------------------------------------------------
(* The session's end and its teardown. *)

Solved == last.outcome = "perfect"

(* The loop stops at an event or a turn's end, the protocol's reason first:
   `solved', or `unsolved' for ExitTask and every limit; or it is cut by the
   time limit, an interrupt or failing turns, whatever the protocol says.   *)
EndSession ==
  /\ phase = "session"
  /\ phase' = "ended" /\ reason' \in IF Solved THEN {"solved", "unsolved"} ELSE {"unsolved"}
  /\ UNCHANGED <<solution, submitting, score, own, last, saved, explored, overlapped, filed>>

(* Mutant: the last submission's result is good enough. *)
HookTrustsLast ==
  /\ phase = "ended"
  /\ IF last.by # None THEN phase' = "finalized" /\ UNCHANGED score
     ELSE phase' = "hook" /\ score' = [score EXCEPT ![Final] = [Idle EXCEPT !.at = "load"]]
  /\ overlapped' = (overlapped \/ \E s \in Submissions : Scoring(s))
  /\ filed' = (solution \notin Missing)
  /\ UNCHANGED <<solution, submitting, own, last, reason, saved, explored>>
(* FinalizeControllerHook.run: it takes no lock. *)
StartHook ==
  /\ phase = "ended"
  /\ phase' = "hook" /\ score' = [score EXCEPT ![Final] = [Idle EXCEPT !.at = "load"]]
  /\ overlapped' = (overlapped \/ \E s \in Submissions : Scoring(s))
  /\ filed' = (solution \notin Missing)
  /\ UNCHANGED <<solution, submitting, own, last, reason, saved, explored>>

(* No solution.py: nothing to finalize. *)
SkipHook ==
  /\ phase = "ended" /\ solution \in Missing
  /\ phase' = "finalized"
  /\ overlapped' = (overlapped \/ \E s \in Submissions : Scoring(s))
  /\ UNCHANGED <<solution, submitting, score, own, last, reason, saved, explored, filed>>

FinishHook ==
  /\ phase = "hook"
  /\ \E outcome \in {score[Final].outcome, "flawed"} :
       /\ outcome = "perfect" => score[Final].at = "scored"
       /\ last' = Result(Final, outcome)
  /\ score' = [score EXCEPT ![Final] = Idle]
  /\ Ends(Final)
  /\ phase' = "finalized"
  /\ UNCHANGED <<solution, submitting, reason, saved, explored, overlapped, filed>>

(* task_metrics() and the session's last save; then agent.close(), after which
   the runner saves the state again with the agent's usage.                 *)
SaveMetrics ==
  /\ phase = "finalized"
  /\ phase' = "saved" /\ saved' = [metrics |-> last, state |-> last]
  /\ UNCHANGED <<solution, submitting, score, own, last, reason, explored, overlapped, filed>>

CloseTask ==
  /\ phase = "saved"
  /\ phase' = "over" /\ saved' = [saved EXCEPT !.state = last]
  /\ UNCHANGED <<solution, submitting, score, own, last, reason, explored, overlapped, filed>>

-----------------------------------------------------------------------------
Evaluate(u) == Load(u) \/ ResetEpisode(u) \/ EndEpisode(u) \/ EpisodeFaults(u)

Next ==
  \/ Edit \/ Explore
  \/ \E s \in Submissions : Submit(s) \/ Cancel(s) \/ Reserve(s) \/ Publish(s) \/ EvaluationFails(s)
  \/ \E u \in Scorers : Evaluate(u) \/ Roll(u)
  \/ EndSession \/ StartHook \/ SkipHook \/ FinishHook \/ SaveMetrics \/ CloseTask

Spec == Init /\ [][Next]_vars

(* The server's event loop serves the lock, an evaluation moves on (its
   process is killed after _EVAL_TIMEOUT_S otherwise), a finished one is
   published.  Nothing makes the session end.                               *)
FairSpec ==
  /\ Spec
  /\ \A s \in Submissions : WF_vars(Reserve(s)) /\ WF_vars(Publish(s))
  /\ \A u \in Scorers : WF_vars(Evaluate(u))

-----------------------------------------------------------------------------
Results == [by : Scorers \cup {None}, version : Versions,
            outcome : {"perfect", "flawed"}]

(* Every variable has its type; an evaluation never goes past n_episodes. *)
TypeOK ==
  /\ solution \in Versions
  /\ call \in [Submissions -> {"new", "queued", "scoring", "abandoned", "done", "cancelled"}]
  /\ holder \in Submissions \cup {None}
  /\ index \in [Submissions -> Int] /\ count \in Nat
  /\ score \in [Scorers -> [at : {"off", "load", "reset", "roll", "scored"}, version : Versions,
                            episode : 1..Episodes,
                            outcome : {"perfect", "flawed"}]]
  /\ own \in Scorers \cup {None}
  /\ last \in Results
  /\ explored \in BOOLEAN /\ overlapped \in BOOLEAN /\ filed \in BOOLEAN
  /\ phase \in {"session", "ended", "hook", "finalized", "saved", "over"}
  /\ reason \in {"running", "solved", "unsolved"}
  /\ saved \in [metrics : Results, state : Results]

(* Submissions are scored one at a time, in the order of their indices, even
   when a caller goes away while its evaluation runs: when a submission is
   scored, every smaller index is published or failed, and the last published
   one has a smaller index (submit_solution.py's lock and shield).          *)
SubmissionsOrdered ==
  \A s \in Submissions : Scoring(s) =>
    /\ \A t \in Submissions \ {s} : ~Scoring(t) /\ index[t] < index[s]
    /\ last.by \in Submissions => index[last.by] < index[s]

(* A task is `solved' only by a complete evaluation of a submitted version that
   wins: unless the agent itself plays while it is scored, no other submission,
   no edit and no failed episode can make a losing one look perfect
   (policy_search._solved, executor._aggregate_results).                    *)
SolvedIsEarned ==
  [][(phase = "session" /\ reason' = "solved" /\ ~explored) => last.version \in Winning]_vars

(* What the task leaves behind is the score of the file that the teardown
   scored, not of a submission: the metrics and the saved result are the
   hook's, and perfect only for a version that wins, when no submission is
   scored beside the teardown and the agent plays no more
   (FinalizeControllerHook.run, run_session's end).                         *)
OfficialResult ==
  (phase = "over" /\ ~overlapped) =>
    /\ saved.metrics = saved.state
    /\ filed => saved.metrics.by = Final
    /\ (saved.metrics.outcome = "perfect" /\ ~explored) => saved.metrics.version \in Winning

(* A submission that waits for the lock is scored and answered, or its caller
   gives up: neither a failure nor a cancelled caller leaves the lock taken
   (test_submit_concurrency.py; asyncio.shield in SubmitSolution.call).      *)
SubmissionsAnswered ==
  \A s \in Submissions :
    (call[s] = "queued") ~> (call[s] \in {"done", "cancelled"} \/ phase = "over")
=============================================================================
