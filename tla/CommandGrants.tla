---------------------------- MODULE CommandGrants ----------------------------
(***************************************************************************)
(* One framework command of each name per agent tool call                  *)
(* (regact/protocols/managed/grants.py), with the two independent streams  *)
(* that drive it: the agent's event stream, which the session loop reads   *)
(* and turns into call_started / call_finished, and the control channel,   *)
(* on which every shell command claims a grant before it executes.         *)
(*                                                                         *)
(* `open', `used', `hasLast', `last', `seen' and `requests' are the fields *)
(* of the CommandGrants object; `openedAt' is the insertion order of its   *)
(* dictionary.  `parallel', `running', `ended' and `stream' are the agent  *)
(* and the events the loop has not read yet.  `issued', `sinceStart' and   *)
(* `honest' are history variables.                                         *)
(***************************************************************************)
EXTENDS Naturals, FiniteSets, Sequences

CONSTANTS
  Calls,        \* ids of the tool calls the agent may start
  Names,        \* framework command names
  Requests,     \* commands sent on the control channel
  Anonymous,    \* the requests that carry no request id
  NameOf,       \* the command name of each request
  NoCall,       \* "issued by no call yet"
  MaxParallel,  \* the most calls an agent keeps running at once
  MaxErrors     \* bound on turns that end in a backend error

ASSUME CallsFinite == IsFiniteSet(Calls)
ASSUME NoCallFresh == NoCall \notin Calls
ASSUME NameOfType == NameOf \in [Requests -> Names] /\ Anonymous \subseteq Requests

VARIABLES open, used, openedAt, hasLast, last, seen, requests, starts,
          parallel, running, ended, stream, errors, claim, owner,
          issued, sinceStart, honest

grantVars == <<open, used, openedAt, hasLast, last, seen, requests, starts>>
agentVars == <<parallel, running, ended, stream, errors>>
claimVars == <<claim, owner>>
ghostVars == <<issued, sinceStart, honest>>
vars == <<grantVars, agentVars, claimVars, ghostVars>>

Outcomes == {"granted", "unattributed", "refused"}

Init ==
  /\ open = {} /\ used = [c \in Calls |-> {}] /\ openedAt = [c \in Calls |-> 0]
  /\ hasLast = FALSE /\ last = {} /\ seen = FALSE /\ requests = {} /\ starts = 0
  /\ parallel \in 1..MaxParallel
  /\ running = {} /\ ended = {} /\ stream = <<>> /\ errors = 0
  /\ claim = [r \in Requests |-> "none"] /\ owner = [r \in Requests |-> NoCall]
  /\ issued = [n \in Names |-> 0] /\ sinceStart = [n \in Names |-> 0] /\ honest = TRUE

-----------------------------------------------------------------------------
(* The agent: calls start and end on its event stream; a call's shell, or a
   process it left behind, sends commands on the control channel.           *)

AgentStartsCall(c) ==
  /\ c \notin running \cup ended
  /\ Cardinality(running) < parallel
  /\ running' = running \cup {c}
  /\ stream' = Append(stream, [kind |-> "start", call |-> c])
  /\ UNCHANGED <<grantVars, parallel, ended, errors, claimVars, ghostVars>>

(* A call that returns while a command of its own is unanswered left that
   command in the background: such an agent is no longer `honest'.          *)
AgentEndsCall(c) ==
  /\ c \in running
  /\ running' = running \ {c} /\ ended' = ended \cup {c}
  /\ stream' = Append(stream, [kind |-> "finish", call |-> c])
  /\ honest' = (honest /\ \A r \in Requests : owner[r] = c => claim[r] # "polling")
  /\ UNCHANGED <<grantVars, parallel, errors, claimVars, issued, sinceStart>>

Sibling(c, r) == \E q \in Requests : q # r /\ owner[q] = c /\ NameOf[q] = NameOf[r]

IssueCommand(c, r) ==
  /\ c \in running \cup ended
  /\ claim[r] = "none"
  /\ claim' = [claim EXCEPT ![r] = "polling"]
  /\ owner' = [owner EXCEPT ![r] = c]
  /\ honest' = (honest /\ c \in running /\ ~ Sibling(c, r))
  /\ UNCHANGED <<grantVars, agentVars, issued, sinceStart>>

(* The answer was lost and the client sends the same command again.  Without
   a request id it is a second command.                                     *)
Retry(r) ==
  /\ claim[r] \in Outcomes
  /\ claim' = [claim EXCEPT ![r] = "polling"]
  /\ honest' = (honest /\ r \notin Anonymous /\ owner[r] \in running)
  /\ UNCHANGED <<grantVars, agentVars, owner, issued, sinceStart>>

-----------------------------------------------------------------------------
(* The session loop dispatches one event of the stream. *)

(* Mutant: the start of a call keeps the last call's unused grants. *)
StartKeepsLast(c) ==
  /\ seen' = TRUE /\ starts' = starts + 1
  /\ open' = open \cup {c}
  /\ used' = [used EXCEPT ![c] = {}]
  /\ openedAt' = [openedAt EXCEPT ![c] = IF c \in open THEN @ ELSE starts + 1]
  /\ sinceStart' = [n \in Names |-> 0]
  /\ UNCHANGED <<hasLast, last, requests>>

CallStarted(c) ==
  /\ seen' = TRUE
  /\ starts' = starts + 1
  /\ open' = open \cup {c}
  /\ used' = [used EXCEPT ![c] = {}]
  /\ openedAt' = [openedAt EXCEPT ![c] = IF c \in open THEN @ ELSE starts + 1]
  /\ hasLast' = FALSE /\ last' = {}
  /\ sinceStart' = [n \in Names |-> 0]
  /\ UNCHANGED requests

(* Mutant: the finished call's uses are forgotten. *)
FinishForgetsUses(c) ==
  /\ IF c \in open
       THEN open' = open \ {c} /\ hasLast' = TRUE /\ last' = {}
       ELSE UNCHANGED <<open, hasLast, last>>
  /\ UNCHANGED <<used, openedAt, seen, requests, starts, sinceStart>>

CallFinished(c) ==
  /\ IF c \in open
       THEN open' = open \ {c} /\ hasLast' = TRUE /\ last' = used[c]
       ELSE UNCHANGED <<open, hasLast, last>>
  /\ UNCHANGED <<used, openedAt, seen, requests, starts, sinceStart>>

Dispatch ==
  /\ stream # <<>>
  /\ LET event == Head(stream)
     IN  IF event.kind = "start" THEN CallStarted(event.call) ELSE CallFinished(event.call)
  /\ stream' = Tail(stream)
  /\ UNCHANGED <<parallel, running, ended, errors, claimVars, issued, honest>>

(* An AgentError ends the turn: the loop stops reading it, so the calls it
   was waiting for are never finished here.  A command of theirs goes on
   polling, like one left in the background.                                *)
TurnError ==
  /\ errors < MaxErrors
  /\ errors' = errors + 1
  /\ stream' = <<>>
  /\ running' = {} /\ ended' = ended \cup running
  /\ honest' = (honest /\ \A r \in Requests : owner[r] \in running => claim[r] # "polling")
  /\ UNCHANGED <<grantVars, parallel, claimVars, issued, sinceStart>>

-----------------------------------------------------------------------------
(* The control channel: one poll of claim(). *)

Unspent(n) == {c \in open : n \notin used[c]}
LastUnspent(n) == hasLast /\ n \notin last

(* The open call that is charged: the earliest in the dictionary's order. *)
Charged(n, c) ==
  /\ c \in Unspent(n)
  /\ \A d \in Unspent(n) : openedAt[c] <= openedAt[d]

(* Mutant: request ids are never recognised. *)
NeverReplayed(r) == FALSE

Replayed(r) == r \notin Anonymous /\ r \in requests
Exhausted(r) == seen /\ ~ Replayed(r) /\ Unspent(NameOf[r]) = {} /\ ~ LastUnspent(NameOf[r])

Remembered(r) == requests \cup ({r} \ Anonymous)

Spend(r) ==
  LET n == NameOf[r]
  IN  /\ seen /\ ~ Replayed(r)
      /\ \/ /\ \E c \in Calls : /\ Charged(n, c)
                                /\ used' = [used EXCEPT ![c] = @ \cup {n}]
            /\ UNCHANGED last
         \/ /\ Unspent(n) = {} /\ LastUnspent(n)
            /\ last' = last \cup {n}
            /\ UNCHANGED used
      /\ requests' = Remembered(r)
      /\ issued' = [issued EXCEPT ![n] = @ + 1]
      /\ sinceStart' = [sinceStart EXCEPT ![n] = @ + 1]
      /\ claim' = [claim EXCEPT ![r] = "granted"]

(* A granted request id, or no tool call ever seen, lets the command through
   without charging any call.                                               *)
LetThrough(r) ==
  /\ Replayed(r) \/ ~ seen
  /\ claim' = [claim EXCEPT ![r] = IF Replayed(r) THEN "granted" ELSE "unattributed"]
  /\ UNCHANGED <<used, last, requests, issued, sinceStart>>

(* Mutant: a claim waits for the next call without a limit. *)
NeverRefuse(r) == FALSE

(* GRANT_WAIT_SECONDS have passed: how many polls that takes is not modelled. *)
Refuse(r) ==
  /\ Exhausted(r)
  /\ claim' = [claim EXCEPT ![r] = "refused"]
  /\ UNCHANGED <<used, last, requests, issued, sinceStart>>

Poll(r) ==
  /\ claim[r] = "polling"
  /\ Spend(r) \/ LetThrough(r) \/ Refuse(r)
  /\ UNCHANGED <<open, openedAt, hasLast, seen, starts, agentVars, owner, honest>>

-----------------------------------------------------------------------------
Next ==
  \/ \E c \in Calls : AgentStartsCall(c) \/ AgentEndsCall(c)
  \/ \E c \in Calls, r \in Requests : IssueCommand(c, r)
  \/ \E r \in Requests : Retry(r) \/ Poll(r)
  \/ Dispatch
  \/ TurnError

Spec == Init /\ [][Next]_vars

(* The loop keeps reading its stream and the event loop keeps running polls. *)
FairSpec == Spec /\ WF_vars(Dispatch) /\ \A r \in Requests : WF_vars(Poll(r))

-----------------------------------------------------------------------------
(* Types, and the shape of the grant table: a call is open only if its start
   was read, and a command that was sent has an owner.                      *)
TypeOK ==
  /\ open \subseteq Calls /\ used \in [Calls -> SUBSET Names]
  /\ openedAt \in [Calls -> Nat] /\ starts \in Nat
  /\ hasLast \in BOOLEAN /\ last \subseteq Names /\ seen \in BOOLEAN
  /\ requests \subseteq Requests \ Anonymous
  /\ running \subseteq Calls /\ ended \subseteq Calls /\ errors \in Nat /\ parallel \in 1..MaxParallel
  /\ stream \in Seq([kind : {"start", "finish"}, call : Calls])
  /\ claim \in [Requests -> Outcomes \cup {"none", "polling"}]
  /\ owner \in [Requests -> Calls \cup {NoCall}]
  /\ issued \in [Names -> Nat] /\ sinceStart \in [Names -> Nat] /\ honest \in BOOLEAN
  /\ \A c \in open : openedAt[c] > 0
  /\ \A r \in Requests : claim[r] # "none" <=> owner[r] # NoCall

(* The budget a run is compared on: however claims, retries, background
   processes, parallel calls and failed turns interleave, no command name has
   been granted more often than tool calls were started.                    *)
GrantBudget == \A n \in Names : issued[n] <= starts

(* Why: a grant not issued yet belongs to one open call or to the last one
   finished, and every start brought one of each name.                      *)
Owed(n) == Cardinality(Unspent(n)) + (IF LastUnspent(n) THEN 1 ELSE 0)
GrantsCovered == \A n \in Names : issued[n] + Owed(n) <= starts

(* The refusal's promise: between two call starts at most one command of each
   name is granted.  A call that is still open keeps its unused grants, so for
   calls side by side, or left open by a failed turn, it is too much to say;
   an agent that runs one call at a time through whole turns, retries and
   background commands included, is held to it.                             *)
OneSinceLastStart == parallel = 1 => \A n \in Names : sinceStart[n] <= 1
OneWhileSequential == errors = 0 => OneSinceLastStart

(* Each tool call grants one command of each name: an agent that runs one call
   at a time, whose calls send one command of a name each, in the foreground,
   is never refused once the loop has read every call start that is on the
   stream.  Calls side by side are not held to it: the table charges the
   earliest of them, and a grant one leaves unused ends with the next start.  *)
StartsRead == \A i \in DOMAIN stream : stream[i].kind # "start"
HonestServed ==
  [][\A r \in Requests :
       claim[r] = "polling" /\ claim'[r] = "refused"
         => ~ (parallel = 1 /\ honest /\ StartsRead /\ owner[r] \in running)]_vars

(* No command waits forever for its grant: the wait is bounded, so every
   claim is answered.                                                       *)
ClaimEnds == \A r \in Requests : claim[r] = "polling" ~> claim[r] # "polling"
=============================================================================
