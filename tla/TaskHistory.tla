----------------------------- MODULE TaskHistory -----------------------------
(***************************************************************************)
(* What the coordinator and its store promise about a task's real history, *)
(* whatever process crashes, resumes, faults and commands happen: it is a  *)
(* log that only grows at its end; the environment runs at most one        *)
(* operation ahead of it; an operation that was not recorded is never      *)
(* built upon: the environment is rebuilt from the log first; and at most  *)
(* MaxActions steps and resets are ever recorded.                          *)
(***************************************************************************)
EXTENDS Naturals, Sequences, FiniteSets

CONSTANTS Entries, MaxActions

VARIABLES log,  \* recorded operations
          env   \* what the live environment has executed

Spent(h) == Cardinality({i \in DOMAIN h : h[i].op # "start"})

Init == log = <<>> /\ env = <<>>

Execute ==
  /\ env = log
  /\ \E e \in Entries : env' = Append(env, e)
  /\ Spent(env') <= MaxActions
  /\ UNCHANGED log

Commit ==
  /\ env # log
  /\ log' = env
  /\ UNCHANGED env

(* The environment's recorded start is one commit: it is never ahead. *)
StartRecorded ==
  /\ env = log
  /\ \E e \in Entries : e.op = "start" /\ env' = Append(env, e)
  /\ log' = env'

Rebuild ==
  /\ env # log
  /\ env' = log
  /\ UNCHANGED log

Next == Execute \/ Commit \/ StartRecorded \/ Rebuild

Spec == Init /\ [][Next]_<<log, env>>
=============================================================================
