------------------------ MODULE CommandGrants_proofs ------------------------
(* Type correctness of CommandGrants, its budget, and what sequential calls
   are granted: each name once at most, and once when they ask for it.  For any
   set of calls, command names and requests, and any number of errors.      *)
EXTENDS CommandGrants, FiniteSetTheorems, SequenceTheorems, TLAPS

Events == [kind : {"start", "finish"}, call : Calls]

(* The grant table and the ghosts stay well typed, only calls whose start
   was read are open, and exactly the commands sent have an owner.          *)
THEOREM TypeCorrect == Spec => []TypeOK
<1>1. Init => TypeOK
  <2> SUFFICES ASSUME Init PROVE TypeOK
    OBVIOUS
  <2> USE DEF Init
  <2>1. open \subseteq Calls /\ used \in [Calls -> SUBSET Names] /\ openedAt \in [Calls -> Nat]
    OBVIOUS
  <2>2. /\ starts \in Nat /\ hasLast \in BOOLEAN /\ last \subseteq Names /\ seen \in BOOLEAN
        /\ requests \subseteq Requests \ Anonymous
    OBVIOUS
  <2>3. /\ running \subseteq Calls /\ ended \subseteq Calls /\ errors \in Nat
        /\ stream \in Seq([kind : {"start", "finish"}, call : Calls])
    OBVIOUS
  <2>4. /\ claim \in [Requests -> Outcomes \cup {"none", "polling"}]
        /\ owner \in [Requests -> Calls \cup {NoCall}]
        /\ \A r \in Requests : claim[r] # "none" <=> owner[r] # NoCall
    BY DEF Outcomes
  <2>5. issued \in [Names -> Nat] /\ sinceStart \in [Names -> Nat] /\ honest \in BOOLEAN
    OBVIOUS
  <2> QED BY <2>1, <2>2, <2>3, <2>4, <2>5, Zenon DEF TypeOK
<1>2. TypeOK /\ [Next]_vars => TypeOK'
  <2> SUFFICES ASSUME TypeOK, [Next]_vars PROVE TypeOK'
    OBVIOUS
  <2> USE NoCallFresh, NameOfType DEF TypeOK
  <2>1. ASSUME NEW c \in Calls, AgentStartsCall(c) PROVE TypeOK'
    <3>1. [kind |-> "start", call |-> c] \in Events
      BY DEF Events
    <3>2. stream' \in Seq(Events)
      BY <2>1, <3>1 DEF AgentStartsCall, Events
    <3> QED BY <2>1, <3>2 DEF AgentStartsCall, grantVars, claimVars, ghostVars, Events
  <2>2. ASSUME NEW c \in Calls, AgentEndsCall(c) PROVE TypeOK'
    <3>1. [kind |-> "finish", call |-> c] \in Events
      BY DEF Events
    <3>2. stream' \in Seq(Events)
      BY <2>2, <3>1 DEF AgentEndsCall, Events
    <3>3. honest' \in BOOLEAN
      BY <2>2, Zenon DEF AgentEndsCall
    <3> QED BY <2>2, <3>2, <3>3 DEF AgentEndsCall, grantVars, claimVars, Events
  <2>3. ASSUME NEW c \in Calls, NEW r \in Requests, IssueCommand(c, r) PROVE TypeOK'
    <3>1. honest' \in BOOLEAN
      BY <2>3, Zenon DEF IssueCommand
    <3> QED BY <2>3, <3>1 DEF IssueCommand, grantVars, agentVars
  <2>4. ASSUME NEW r \in Requests, Retry(r) PROVE TypeOK'
    <3>1. honest' \in BOOLEAN
      BY <2>4, Zenon DEF Retry
    <3> QED BY <2>4, <3>1 DEF Retry, grantVars, agentVars, Outcomes
  <2>5. ASSUME NEW r \in Requests, Poll(r) PROVE TypeOK'
    <3> NameOf[r] \in Names
      OBVIOUS
    <3>1. CASE Spend(r)
      <4>1. used' \in [Calls -> SUBSET Names] /\ last' \subseteq Names
        <5>1. CASE \E c \in Calls : used' = [used EXCEPT ![c] = @ \cup {NameOf[r]}]
                    /\ UNCHANGED last
          BY <5>1
        <5>2. CASE last' = last \cup {NameOf[r]} /\ UNCHANGED used
          BY <5>2
        <5> QED BY <3>1, <5>1, <5>2 DEF Spend
      <4>2. requests' \subseteq Requests \ Anonymous
        BY <3>1 DEF Spend, Remembered
      <4>3. issued' \in [Names -> Nat] /\ sinceStart' \in [Names -> Nat]
        BY <3>1 DEF Spend
      <4>4. /\ claim' \in [Requests -> Outcomes \cup {"none", "polling"}]
            /\ \A q \in Requests : claim'[q] # "none" <=> owner[q] # NoCall
        BY <2>5, <3>1 DEF Poll, Spend, Outcomes
      <4> QED BY <2>5, <4>1, <4>2, <4>3, <4>4 DEF Poll, agentVars
    <3>2. CASE LetThrough(r)
      BY <2>5, <3>2 DEF Poll, LetThrough, agentVars, Outcomes
    <3>3. CASE Refuse(r)
      BY <2>5, <3>3 DEF Poll, Refuse, agentVars, Outcomes
    <3> QED BY <2>5, <3>1, <3>2, <3>3 DEF Poll
  <2>6. CASE Dispatch
    <3> DEFINE event == Head(stream)
    <3>0. stream \in Seq(Events) /\ stream # <<>> /\ stream' = Tail(stream)
      BY <2>6 DEF Dispatch, Events
    <3>1. event \in Events /\ stream' \in Seq(Events)
      BY <3>0
    <3>2. event.call \in Calls /\ event.kind \in {"start", "finish"}
      BY <3>1 DEF Events
    <3>3. CallStarted(event.call) \/ CallFinished(event.call)
      BY <2>6 DEF Dispatch
    <3>4. CASE CallStarted(event.call)
      <4>1. ASSUME NEW c \in Calls, CallStarted(c)
            PROVE  /\ open' \subseteq Calls /\ used' \in [Calls -> SUBSET Names]
                   /\ openedAt' \in [Calls -> Nat] /\ starts' \in Nat
                   /\ hasLast' \in BOOLEAN /\ last' \subseteq Names /\ seen' \in BOOLEAN
                   /\ requests' = requests /\ sinceStart' \in [Names -> Nat]
                   /\ \A d \in open' : openedAt'[d] > 0
        <5>1. /\ open' \subseteq Calls /\ used' \in [Calls -> SUBSET Names]
              /\ starts' \in Nat /\ last' \subseteq Names /\ sinceStart' \in [Names -> Nat]
          BY <4>1 DEF CallStarted
        <5>2. openedAt' \in [Calls -> Nat] /\ \A d \in open' : openedAt'[d] > 0
          BY <4>1 DEF CallStarted
        <5>3. hasLast' \in BOOLEAN /\ seen' \in BOOLEAN /\ requests' = requests
          BY <4>1, Zenon DEF CallStarted
        <5> QED BY <5>1, <5>2, <5>3
      <4> HIDE DEF event
      <4>2. /\ open' \subseteq Calls /\ used' \in [Calls -> SUBSET Names]
            /\ openedAt' \in [Calls -> Nat] /\ starts' \in Nat
            /\ hasLast' \in BOOLEAN /\ last' \subseteq Names /\ seen' \in BOOLEAN
            /\ requests' = requests /\ sinceStart' \in [Names -> Nat]
            /\ \A d \in open' : openedAt'[d] > 0
        BY <3>2, <3>4, <4>1, Zenon
      <4> QED BY <2>6, <3>1, <4>2 DEF Dispatch, claimVars, Events
    <3>5. CASE CallFinished(event.call)
      <4>1. ASSUME NEW c \in Calls, CallFinished(c)
            PROVE  /\ open' \subseteq open /\ hasLast' \in BOOLEAN /\ last' \subseteq Names
                   /\ UNCHANGED <<used, openedAt, seen, requests, starts, sinceStart>>
        <5>1. /\ open' \subseteq open /\ last' \subseteq Names
              /\ UNCHANGED <<used, openedAt, seen, requests, starts, sinceStart>>
          BY <4>1 DEF CallFinished
        <5>2. hasLast' \in BOOLEAN
          BY <4>1, Zenon DEF CallFinished
        <5> QED BY <5>1, <5>2
      <4> HIDE DEF event
      <4>2. /\ open' \subseteq open /\ hasLast' \in BOOLEAN /\ last' \subseteq Names
            /\ UNCHANGED <<used, openedAt, seen, requests, starts, sinceStart>>
        BY <3>2, <3>5, <4>1, Zenon
      <4> QED BY <2>6, <3>1, <4>2 DEF Dispatch, claimVars, Events
    <3> QED BY <3>3, <3>4, <3>5
  <2>7. CASE TurnError
    <3>1. honest' \in BOOLEAN
      BY <2>7, Zenon DEF TurnError
    <3>2. stream' \in Seq(Events)
      BY <2>7 DEF TurnError
    <3> QED BY <2>7, <3>1, <3>2 DEF TurnError, grantVars, claimVars, Events
  <2>8. CASE UNCHANGED vars
    BY <2>8 DEF vars, grantVars, agentVars, claimVars, ghostVars
  <2> QED BY <2>1, <2>2, <2>3, <2>4, <2>5, <2>6, <2>7, <2>8 DEF Next
<1> QED BY <1>1, <1>2, PTL DEF Spec

-----------------------------------------------------------------------------
(* Any set of open calls is finite, so what is owed is a number. *)
LEMMA OwedNat ==
  ASSUME TypeOK, NEW n \in Names
  PROVE  IsFiniteSet(Unspent(n)) /\ Cardinality(Unspent(n)) \in Nat
<1>1. IsFiniteSet(Unspent(n))
  BY CallsFinite, FS_Subset DEF TypeOK, Unspent
<1> QED BY <1>1, FS_CardinalityType

(* The budget: no name is granted more often than calls were started,
   because every grant left is one a start brought.                         *)
THEOREM BudgetHolds == Spec => [](GrantsCovered /\ GrantBudget)
<1>1. Init => GrantsCovered
  <2> SUFFICES ASSUME Init, NEW n \in Names
               PROVE  issued[n] + Owed(n) <= starts
    BY DEF GrantsCovered
  <2>1. Unspent(n) = {} /\ ~ LastUnspent(n)
    BY DEF Init, Unspent, LastUnspent
  <2> QED BY <2>1, FS_EmptySet DEF Init, Owed
<1>2. TypeOK /\ TypeOK' /\ GrantsCovered /\ [Next]_vars => GrantsCovered'
  <2> SUFFICES ASSUME TypeOK, TypeOK', GrantsCovered, [Next]_vars, NEW n \in Names
               PROVE  (issued[n] + Owed(n) <= starts)'
    BY DEF GrantsCovered
  <2>0. /\ issued[n] + Owed(n) <= starts
        /\ issued[n] \in Nat /\ starts \in Nat /\ issued'[n] \in Nat /\ starts' \in Nat
        /\ IsFiniteSet(Unspent(n)) /\ Cardinality(Unspent(n)) \in Nat
    BY OwedNat DEF GrantsCovered, TypeOK
  <2>00. IsFiniteSet(Unspent(n)') /\ Cardinality(Unspent(n)') \in Nat
    <3>1. Unspent(n)' \subseteq Calls
      BY DEF Unspent, TypeOK
    <3> QED BY <3>1, CallsFinite, FS_Subset, FS_CardinalityType
  <2>1. ASSUME UNCHANGED <<open, used, hasLast, last, starts, issued>>
        PROVE  (issued[n] + Owed(n) <= starts)'
    <3>1. Unspent(n)' = Unspent(n) /\ LastUnspent(n)' = LastUnspent(n)
      BY <2>1 DEF Unspent, LastUnspent
    <3> QED BY <2>0, <2>1, <3>1 DEF Owed
  <2>2. ASSUME NEW c \in Calls, CallStarted(c), UNCHANGED issued
        PROVE  (issued[n] + Owed(n) <= starts)'
    <3>1. ~ LastUnspent(n)' /\ starts' = starts + 1
      BY <2>2 DEF CallStarted, LastUnspent
    <3>2. Unspent(n)' \subseteq Unspent(n) \cup {c}
      BY <2>2 DEF CallStarted, Unspent, TypeOK
    <3>3. /\ IsFiniteSet(Unspent(n) \cup {c})
          /\ Cardinality(Unspent(n) \cup {c}) <= Cardinality(Unspent(n)) + 1
      <4>1. /\ IsFiniteSet(Unspent(n) \cup {c})
            /\ Cardinality(Unspent(n) \cup {c}) =
                 IF c \in Unspent(n) THEN Cardinality(Unspent(n)) ELSE Cardinality(Unspent(n)) + 1
        BY <2>0, FS_AddElement, Zenon
      <4> QED BY <2>0, <4>1
    <3>4. Cardinality(Unspent(n)') <= Cardinality(Unspent(n) \cup {c})
      BY <3>2, <3>3, FS_Subset
    <3>5. Cardinality(Unspent(n) \cup {c}) \in Nat
      BY <3>3, FS_CardinalityType
    <3> QED BY <2>0, <2>00, <2>2, <3>1, <3>3, <3>4, <3>5 DEF Owed
  <2>3. ASSUME NEW c \in Calls, CallFinished(c), UNCHANGED issued
        PROVE  (issued[n] + Owed(n) <= starts)'
    <3>1. CASE c \notin open
      <4>1. UNCHANGED <<open, used, hasLast, last, starts, issued>>
        BY <2>3, <3>1 DEF CallFinished
      <4> QED BY <2>1, <4>1
    <3>2. CASE c \in open /\ n \in used[c]
      <4>1. Unspent(n)' = Unspent(n) /\ ~ LastUnspent(n)' /\ UNCHANGED starts
        BY <2>3, <3>2 DEF CallFinished, Unspent, LastUnspent
      <4> QED BY <2>0, <2>3, <4>1 DEF Owed
    <3>3. CASE c \in open /\ n \notin used[c]
      <4>1. c \in Unspent(n) /\ Unspent(n)' = Unspent(n) \ {c} /\ UNCHANGED starts
        BY <2>3, <3>3 DEF CallFinished, Unspent
      <4>2. Cardinality(Unspent(n)') = Cardinality(Unspent(n)) - 1
        BY <2>0, <4>1, FS_RemoveElement
      <4> QED BY <2>0, <2>00, <2>3, <4>1, <4>2 DEF Owed
    <3> QED BY <3>1, <3>2, <3>3
  <2>4. ASSUME NEW r \in Requests, Spend(r), UNCHANGED <<open, hasLast, starts>>
        PROVE  (issued[n] + Owed(n) <= starts)'
    <3>1. CASE NameOf[r] # n
      <4>1. issued'[n] = issued[n] /\ UNCHANGED starts
        BY <2>4, <3>1, NameOfType DEF Spend, TypeOK
      <4>2. Unspent(n)' = Unspent(n)
        <5>1. \A c \in Calls : n \in used'[c] <=> n \in used[c]
          <6>1. CASE UNCHANGED used
            BY <6>1
          <6>2. CASE \E c \in Calls : used' = [used EXCEPT ![c] = @ \cup {NameOf[r]}]
            BY <3>1, <6>2 DEF TypeOK
          <6> QED BY <2>4, <6>1, <6>2 DEF Spend
        <5> QED BY <2>4, <5>1 DEF Unspent, TypeOK
      <4>3. LastUnspent(n)' = LastUnspent(n)
        BY <2>4, <3>1, NameOfType DEF Spend, LastUnspent, TypeOK
      <4> QED BY <2>0, <4>1, <4>2, <4>3 DEF Owed
    <3>2. CASE NameOf[r] = n
      <4>1. issued'[n] = issued[n] + 1 /\ UNCHANGED starts
        BY <2>4, <3>2, NameOfType DEF Spend, TypeOK
      <4>2. ASSUME NEW c \in Calls, Charged(n, c), UNCHANGED last,
                   used' = [used EXCEPT ![c] = @ \cup {n}]
            PROVE  (issued[n] + Owed(n) <= starts)'
        <5>1. c \in Unspent(n) /\ Unspent(n)' = Unspent(n) \ {c}
          BY <2>4, <4>2 DEF Charged, Unspent, TypeOK
        <5>2. Cardinality(Unspent(n)') = Cardinality(Unspent(n)) - 1
          BY <2>0, <5>1, FS_RemoveElement
        <5>3. LastUnspent(n)' = LastUnspent(n)
          BY <2>4, <4>2 DEF LastUnspent
        <5> QED BY <2>0, <2>00, <4>1, <5>2, <5>3 DEF Owed
      <4>3. ASSUME Unspent(n) = {}, LastUnspent(n), last' = last \cup {n}, UNCHANGED used
            PROVE  (issued[n] + Owed(n) <= starts)'
        <5>1. Unspent(n)' = Unspent(n)
          BY <2>4, <4>3 DEF Unspent
        <5>2. ~ LastUnspent(n)'
          BY <4>3 DEF LastUnspent
        <5> QED BY <2>0, <4>1, <4>3, <5>1, <5>2 DEF Owed
      <4> QED BY <2>4, <3>2, <4>2, <4>3 DEF Spend
    <3> QED BY <3>1, <3>2
  <2>5. ASSUME NEW r \in Requests, Poll(r)
        PROVE  (issued[n] + Owed(n) <= starts)'
    <3>1. CASE Spend(r)
      BY <2>4, <2>5, <3>1 DEF Poll
    <3>2. CASE LetThrough(r) \/ Refuse(r)
      BY <2>1, <2>5, <3>2 DEF Poll, LetThrough, Refuse
    <3> QED BY <2>5, <3>1, <3>2 DEF Poll
  <2>6. CASE Dispatch
    <3> DEFINE event == Head(stream)
    <3>0. stream \in Seq(Events) /\ stream # <<>>
      BY <2>6 DEF Dispatch, TypeOK, Events
    <3>1. event \in Events
      BY <3>0
    <3>3. event.call \in Calls
      BY <3>1 DEF Events
    <3>4. UNCHANGED issued
      BY <2>6 DEF Dispatch
    <3>2. CallStarted(event.call) \/ CallFinished(event.call)
      BY <2>6 DEF Dispatch
    <3> HIDE DEF event
    <3> QED BY <2>2, <2>3, <3>2, <3>3, <3>4
  <2>7. ASSUME NEW c \in Calls, AgentStartsCall(c) \/ AgentEndsCall(c)
        PROVE  (issued[n] + Owed(n) <= starts)'
    BY <2>1, <2>7 DEF AgentStartsCall, AgentEndsCall, grantVars, ghostVars
  <2>8. ASSUME NEW c \in Calls, NEW r \in Requests, IssueCommand(c, r)
        PROVE  (issued[n] + Owed(n) <= starts)'
    BY <2>1, <2>8 DEF IssueCommand, grantVars
  <2>9. ASSUME NEW r \in Requests, Retry(r)
        PROVE  (issued[n] + Owed(n) <= starts)'
    BY <2>1, <2>9 DEF Retry, grantVars
  <2>10. CASE TurnError
    BY <2>1, <2>10 DEF TurnError, grantVars
  <2>11. CASE UNCHANGED vars
    BY <2>1, <2>11 DEF vars, grantVars, ghostVars
  <2> QED BY <2>5, <2>6, <2>7, <2>8, <2>9, <2>10, <2>11 DEF Next
<1>3. TypeOK /\ GrantsCovered => GrantBudget
  <2> SUFFICES ASSUME TypeOK, GrantsCovered, NEW n \in Names
               PROVE  issued[n] <= starts
    BY DEF GrantBudget
  <2>1. Cardinality(Unspent(n)) \in Nat
    BY OwedNat
  <2>2. issued[n] + Owed(n) <= starts /\ issued[n] \in Nat /\ starts \in Nat
    BY DEF GrantsCovered, TypeOK
  <2> QED BY <2>1, <2>2 DEF Owed
<1> QED BY <1>1, <1>2, <1>3, TypeCorrect, PTL DEF Spec

-----------------------------------------------------------------------------
(* An agent that runs one call at a time, through whole turns. *)
Sequential == parallel = 1 /\ errors = 0

(* Its unread events alternate, a call's finish after its start; the table
   is behind the stream's head, the agent is at its end.                    *)
Alternates ==
  \A i \in 1..(Len(stream) - 1) :
    IF stream[i].kind = "start" THEN stream[i + 1] = [kind |-> "finish", call |-> stream[i].call]
                                ELSE stream[i + 1].kind = "start"
TableBehindHead ==
  /\ stream # <<>> => open = IF stream[1].kind = "start" THEN {} ELSE {stream[1].call}
  /\ stream = <<>> => open = running
AgentAtEnd ==
  /\ stream # <<>> =>
       running = IF stream[Len(stream)].kind = "start" THEN {stream[Len(stream)].call} ELSE {}
  /\ \A c, d \in running : c = d
InOrder == Sequential => Alternates /\ TableBehindHead /\ AgentAtEnd

(* One call at most is open, none once the last one is kept; what has been
   granted since the last start is no longer owed.                          *)
OneOpen == (hasLast => open = {}) /\ \A c, d \in open : c = d
GrantedNotOwed ==
  \A n \in Names : \/ sinceStart[n] = 0
                   \/ sinceStart[n] = 1 /\ Unspent(n) = {} /\ ~ LastUnspent(n)
OneOwed == Sequential => OneOpen /\ GrantedNotOwed
(* Adding an event of call c at the agent's end of the stream. *)
LEMMA AppendShape ==
  ASSUME NEW s \in Seq(Events), NEW e
  PROVE  LET t == Append(s, e)
         IN  /\ t # <<>> /\ Len(t) = Len(s) + 1 /\ t[Len(t)] = e
             /\ \A i \in 1..Len(s) : t[i] = s[i]
BY DEF Events

(* Reading the event at the head. *)
LEMMA TailShape ==
  ASSUME NEW s \in Seq(Events), s # <<>>
  PROVE  LET t == Tail(s)
         IN  /\ Head(s) = s[1] /\ Len(s) \in Nat \ {0} /\ Len(t) = Len(s) - 1
             /\ \A i \in 1..Len(t) : t[i] = s[i + 1]
             /\ \A i \in 1..Len(s) : s[i] \in Events
             /\ (t = <<>> <=> Len(s) = 1)
<1>1. Head(s) = s[1] /\ Len(s) \in Nat \ {0} /\ \A i \in 1..Len(s) : s[i] \in Events
  OBVIOUS
<1>2. Len(Tail(s)) = Len(s) - 1
  OBVIOUS
<1>3. \A i \in 1..Len(Tail(s)) : Tail(s)[i] = s[i + 1]
  OBVIOUS
<1>4. Tail(s) \in Seq(Events)
  OBVIOUS
<1>5. Tail(s) = <<>> <=> Len(Tail(s)) = 0
  BY <1>4, Zenon, EmptySeq
<1> QED BY <1>1, <1>2, <1>3, <1>5

LEMMA SequentialStarts ==
  ASSUME TypeOK, InOrder, NEW c \in Calls, AgentStartsCall(c), Sequential
  PROVE  Alternates' /\ TableBehindHead' /\ AgentAtEnd'
<1>0. stream \in Seq(Events) /\ Alternates /\ TableBehindHead /\ AgentAtEnd
  BY DEF TypeOK, Events, InOrder
<1>1. running = {} /\ running' = {c} /\ open' = open
  <2>1. IsFiniteSet(running)
    BY CallsFinite, FS_Subset DEF TypeOK
  <2>2. Cardinality(running) = 0
    BY <2>1, FS_CardinalityType DEF AgentStartsCall, Sequential
  <2>3. running = {}
    BY <2>1, <2>2, FS_EmptySet
  <2> QED BY <2>3 DEF AgentStartsCall, grantVars
<1>2. stream' = Append(stream, [kind |-> "start", call |-> c])
  BY DEF AgentStartsCall
<1>3. /\ stream' # <<>> /\ Len(stream') = Len(stream) + 1
      /\ stream'[Len(stream')] = [kind |-> "start", call |-> c]
      /\ \A i \in 1..Len(stream) : stream'[i] = stream[i]
  BY <1>0, <1>2, AppendShape
<1>4. CASE stream = <<>>
  BY <1>0, <1>1, <1>3, <1>4 DEF Alternates, TableBehindHead, AgentAtEnd
<1>5. CASE stream # <<>>
  <2>1. Len(stream) \in Nat \ {0} /\ \A i \in 1..Len(stream) : stream[i] \in Events
    BY <1>0, <1>5, TailShape
  <2>2. stream[Len(stream)].kind # "start"
    BY <1>0, <1>1, <1>5 DEF AgentAtEnd
  <2>3. Alternates'
    BY <1>0, <1>3, <2>1, <2>2 DEF Alternates
  <2>4. TableBehindHead'
    BY <1>0, <1>1, <1>3, <1>5, <2>1 DEF TableBehindHead
  <2>5. AgentAtEnd'
    BY <1>1, <1>3 DEF AgentAtEnd
  <2> QED BY <2>3, <2>4, <2>5
<1> QED BY <1>4, <1>5

LEMMA SequentialEnds ==
  ASSUME TypeOK, InOrder, NEW c \in Calls, AgentEndsCall(c), Sequential
  PROVE  Alternates' /\ TableBehindHead' /\ AgentAtEnd'
<1>0. stream \in Seq(Events) /\ Alternates /\ TableBehindHead /\ AgentAtEnd
  BY DEF TypeOK, Events, InOrder
<1>1. running = {c} /\ running' = {} /\ open' = open
  BY <1>0 DEF AgentEndsCall, AgentAtEnd, grantVars
<1>2. stream' = Append(stream, [kind |-> "finish", call |-> c])
  BY DEF AgentEndsCall
<1>3. /\ stream' # <<>> /\ Len(stream') = Len(stream) + 1
      /\ stream'[Len(stream')] = [kind |-> "finish", call |-> c]
      /\ \A i \in 1..Len(stream) : stream'[i] = stream[i]
  BY <1>0, <1>2, AppendShape
<1>4. CASE stream = <<>>
  BY <1>0, <1>1, <1>3, <1>4 DEF Alternates, TableBehindHead, AgentAtEnd
<1>5. CASE stream # <<>>
  <2>1. Len(stream) \in Nat \ {0} /\ \A i \in 1..Len(stream) : stream[i] \in Events
    BY <1>0, <1>5, TailShape
  <2>2. stream[Len(stream)].kind = "start" /\ stream[Len(stream)].call = c
    BY <1>0, <1>1, <1>5 DEF AgentAtEnd
  <2>3. Alternates'
    BY <1>0, <1>3, <2>1, <2>2 DEF Alternates
  <2>4. TableBehindHead'
    BY <1>0, <1>1, <1>3, <1>5, <2>1 DEF TableBehindHead
  <2>5. AgentAtEnd'
    BY <1>1, <1>3 DEF AgentAtEnd
  <2> QED BY <2>3, <2>4, <2>5
<1> QED BY <1>4, <1>5

LEMMA SequentialReads ==
  ASSUME TypeOK, InOrder, Dispatch, Sequential
  PROVE  /\ Alternates' /\ TableBehindHead' /\ AgentAtEnd'
         /\ CallStarted(Head(stream).call) => open = {}
<1>0. stream \in Seq(Events) /\ Alternates /\ TableBehindHead /\ AgentAtEnd
  BY DEF TypeOK, Events, InOrder
<1>1. /\ stream # <<>> /\ stream' = Tail(stream) /\ running' = running
      /\ IF Head(stream).kind = "start" THEN CallStarted(Head(stream).call)
                                        ELSE CallFinished(Head(stream).call)
  BY DEF Dispatch
<1> DEFINE e == stream[1]
<1>2. /\ Head(stream) = e /\ e \in Events
      /\ Len(stream) \in Nat \ {0} /\ Len(stream') = Len(stream) - 1
      /\ \A i \in 1..Len(stream') : stream'[i] = stream[i + 1]
      /\ \A i \in 1..Len(stream) : stream[i] \in Events
      /\ stream' = <<>> <=> Len(stream) = 1
  BY <1>0, <1>1, TailShape
<1>3. e.kind \in {"start", "finish"} /\ e.call \in Calls
  BY <1>2 DEF Events
<1>4. open' = IF e.kind = "start" THEN {e.call} ELSE {}
  <2>1. CASE e.kind = "start"
    BY <1>0, <1>1, <1>2, <2>1 DEF TableBehindHead, CallStarted
  <2>2. CASE e.kind # "start"
    BY <1>0, <1>1, <1>2, <2>2 DEF TableBehindHead, CallFinished
  <2> QED BY <2>1, <2>2
<1>5. Alternates'
  BY <1>0, <1>2 DEF Alternates
<1>6. TableBehindHead'
  <2>1. CASE Len(stream) = 1
    BY <1>0, <1>1, <1>2, <1>4, <2>1 DEF TableBehindHead, AgentAtEnd
  <2>2. CASE Len(stream) # 1
    <3>1. stream' # <<>> /\ stream'[1] = stream[2] /\ 1 \in 1..(Len(stream) - 1)
      BY <1>2, <2>2
    <3>2. IF e.kind = "start" THEN stream[2] = [kind |-> "finish", call |-> e.call]
                              ELSE stream[2].kind = "start"
      BY <1>0, <3>1 DEF Alternates
    <3>3. stream'[1].kind = "start" <=> e.kind # "start"
      BY <3>1, <3>2
    <3>4. e.kind = "start" => stream'[1].call = e.call
      BY <3>1, <3>2
    <3> HIDE DEF e
    <3> QED BY <1>4, <3>1, <3>3, <3>4 DEF TableBehindHead
  <2> QED BY <2>1, <2>2
<1>7. AgentAtEnd'
  BY <1>0, <1>1, <1>2 DEF AgentAtEnd
<1>8. CallStarted(e.call) => open = {}
  <2>1. CASE e.kind = "start"
    BY <1>0, <1>1, <2>1 DEF TableBehindHead
  <2>2. CASE e.kind # "start"
    <3>1. CallStarted(e.call) => e.call \in open'
      BY DEF CallStarted
    <3> QED BY <1>4, <2>2, <3>1
  <2> QED BY <2>1, <2>2
<1> QED BY <1>2, <1>5, <1>6, <1>7, <1>8

(* The promise of the refusal holds for an agent that runs one call at a
   time through whole turns, however many calls, names and requests.        *)
THEOREM SequentialHolds == Spec => []OneWhileSequential
<1>1. Init => InOrder /\ OneOwed
  <2> SUFFICES ASSUME Init PROVE InOrder /\ OneOwed
    OBVIOUS
  <2>1. Len(stream) = 0 /\ stream = <<>> /\ open = {} /\ running = {}
    BY DEF Init
  <2>2. InOrder
    BY <2>1 DEF InOrder, Alternates, TableBehindHead, AgentAtEnd
  <2>3. OneOwed
    BY DEF Init, OneOwed, OneOpen, GrantedNotOwed
  <2> QED BY <2>2, <2>3
<1>2. TypeOK /\ InOrder /\ [Next]_vars => InOrder'
  <2> SUFFICES ASSUME TypeOK, InOrder, [Next]_vars, Sequential'
               PROVE  Alternates' /\ TableBehindHead' /\ AgentAtEnd'
    BY DEF InOrder
  <2>1. CASE UNCHANGED <<stream, open, running>> /\ Sequential
    BY <2>1 DEF InOrder, Alternates, TableBehindHead, AgentAtEnd
  <2>2. ASSUME NEW c \in Calls, AgentStartsCall(c) PROVE Sequential
    BY <2>2 DEF AgentStartsCall, Sequential
  <2>3. ASSUME NEW c \in Calls, AgentEndsCall(c) PROVE Sequential
    BY <2>3 DEF AgentEndsCall, Sequential
  <2>4. ASSUME NEW c \in Calls, NEW r \in Requests, IssueCommand(c, r)
        PROVE  UNCHANGED <<stream, open, running>> /\ Sequential
    BY <2>4 DEF IssueCommand, Sequential, grantVars, agentVars
  <2>5. ASSUME NEW r \in Requests, Retry(r) \/ Poll(r)
        PROVE  UNCHANGED <<stream, open, running>> /\ Sequential
    BY <2>5 DEF Retry, Poll, Sequential, grantVars, agentVars
  <2>6. CASE Dispatch
    BY <2>6, SequentialReads DEF Dispatch, Sequential
  <2>7. ~ TurnError
    BY DEF TurnError, Sequential, TypeOK
  <2>8. CASE UNCHANGED vars
    BY <2>1, <2>8 DEF vars, grantVars, agentVars, Sequential
  <2> QED BY <2>1, <2>2, <2>3, <2>4, <2>5, <2>6, <2>7, <2>8,
             SequentialStarts, SequentialEnds DEF Next
<1>3. TypeOK /\ InOrder /\ OneOwed /\ [Next]_vars => OneOwed'
  <2> SUFFICES ASSUME TypeOK, InOrder, OneOwed, [Next]_vars, Sequential'
               PROVE  OneOpen' /\ GrantedNotOwed'
    BY DEF OneOwed
  <2>0. Sequential
    <3>1. CASE TurnError
      BY <3>1 DEF TurnError, Sequential, TypeOK
    <3>2. CASE UNCHANGED <<parallel, errors>>
      BY <3>2 DEF Sequential
    <3>3. TurnError \/ UNCHANGED <<parallel, errors>>
      BY DEF Next, vars, AgentStartsCall, AgentEndsCall, IssueCommand, Retry, Poll,
             Dispatch, agentVars
    <3> QED BY <3>1, <3>2, <3>3
  <2>00. OneOpen /\ GrantedNotOwed
    BY <2>0 DEF OneOwed
  <2>1. CASE UNCHANGED <<open, used, hasLast, last, sinceStart>>
    <3>1. OneOpen'
      BY <2>00, <2>1 DEF OneOpen
    <3>2. \A n \in Names : Unspent(n)' = Unspent(n) /\ LastUnspent(n)' = LastUnspent(n)
      BY <2>1 DEF Unspent, LastUnspent
    <3> QED BY <2>00, <2>1, <3>1, <3>2 DEF GrantedNotOwed
  <2>2. ASSUME NEW c \in Calls, CallStarted(c), open = {}
        PROVE  OneOpen' /\ GrantedNotOwed'
    <3>1. open' = {c} /\ hasLast' = FALSE /\ sinceStart' = [n \in Names |-> 0]
      BY <2>2 DEF CallStarted
    <3> QED BY <3>1 DEF OneOpen, GrantedNotOwed
  <2>3. ASSUME NEW c \in Calls, CallFinished(c)
        PROVE  OneOpen' /\ GrantedNotOwed'
    <3>1. CASE c \notin open
      <4>1. UNCHANGED <<open, used, hasLast, last, sinceStart>>
        BY <2>3, <3>1 DEF CallFinished
      <4> QED BY <2>1, <4>1
    <3>2. CASE c \in open
      <4>1. /\ open = {c} /\ open' = {} /\ last' = used[c]
            /\ UNCHANGED <<used, sinceStart>>
        BY <2>00, <2>3, <3>2 DEF CallFinished, OneOpen
      <4>2. ASSUME NEW n \in Names
            PROVE  \/ sinceStart'[n] = 0
                   \/ sinceStart'[n] = 1 /\ Unspent(n)' = {} /\ ~ LastUnspent(n)'
        <5>1. Unspent(n)' = {}
          BY <4>1 DEF Unspent
        <5>2. Unspent(n) = {} => n \in last'
          BY <4>1 DEF Unspent
        <5> QED BY <2>00, <4>1, <5>1, <5>2 DEF GrantedNotOwed, LastUnspent
      <4> QED BY <4>1, <4>2 DEF OneOpen, GrantedNotOwed
    <3> QED BY <3>1, <3>2
  <2>4. ASSUME NEW r \in Requests, Spend(r), UNCHANGED <<open, hasLast>>
        PROVE  OneOpen' /\ GrantedNotOwed'
    <3>1. OneOpen'
      BY <2>00, <2>4 DEF OneOpen
    <3>2. ASSUME NEW n \in Names, n # NameOf[r]
          PROVE  /\ sinceStart'[n] = sinceStart[n]
                 /\ Unspent(n)' = Unspent(n) /\ LastUnspent(n)' = LastUnspent(n)
      <4>1. sinceStart'[n] = sinceStart[n]
        BY <2>4, <3>2, NameOfType DEF Spend, TypeOK
      <4>2. \A c \in Calls : n \in used'[c] <=> n \in used[c]
        <5>1. CASE UNCHANGED used
          BY <5>1
        <5>2. CASE \E c \in Calls : used' = [used EXCEPT ![c] = @ \cup {NameOf[r]}]
          BY <3>2, <5>2 DEF TypeOK
        <5> QED BY <2>4, <5>1, <5>2 DEF Spend
      <4>3. Unspent(n)' = Unspent(n)
        BY <2>4, <4>2 DEF Unspent, TypeOK
      <4>4. LastUnspent(n)' = LastUnspent(n)
        BY <2>4, <3>2 DEF Spend, LastUnspent
      <4> QED BY <4>1, <4>3, <4>4
    <3> DEFINE m == NameOf[r]
    <3>3. m \in Names
      BY NameOfType
    <3>4. sinceStart'[m] = sinceStart[m] + 1
      BY <2>4, <3>3 DEF Spend, TypeOK
    <3>5. /\ Unspent(m) # {} \/ LastUnspent(m)
          /\ Unspent(m)' = {} /\ ~ LastUnspent(m)'
      <4>1. ASSUME NEW c \in Calls, Charged(m, c), UNCHANGED last,
                   used' = [used EXCEPT ![c] = @ \cup {m}]
            PROVE  /\ Unspent(m) # {} \/ LastUnspent(m)
                   /\ Unspent(m)' = {} /\ ~ LastUnspent(m)'
        <5>1. c \in Unspent(m) /\ c \in open
          BY <4>1 DEF Charged, Unspent
        <5>2. open = {c} /\ hasLast = FALSE
          BY <2>00, <5>1 DEF OneOpen, TypeOK
        <5>3. Unspent(m)' = {}
          BY <2>4, <4>1, <5>2 DEF Unspent, TypeOK
        <5> QED BY <2>4, <5>1, <5>2, <5>3 DEF LastUnspent
      <4>2. ASSUME Unspent(m) = {}, LastUnspent(m), last' = last \cup {m}, UNCHANGED used
            PROVE  /\ Unspent(m) # {} \/ LastUnspent(m)
                   /\ Unspent(m)' = {} /\ ~ LastUnspent(m)'
        BY <2>4, <4>2 DEF Unspent, LastUnspent
      <4> QED BY <2>4, <4>1, <4>2 DEF Spend
    <3>6. sinceStart[m] = 0
      BY <2>00, <3>3, <3>5 DEF GrantedNotOwed
    <3> HIDE DEF m
    <3>7. sinceStart'[m] = 1
      BY <3>4, <3>6
    <3>8. \A n \in Names : n = m \/ n # NameOf[r]
      BY DEF m
    <3>9. GrantedNotOwed'
      BY <2>00, <3>2, <3>5, <3>7, <3>8 DEF GrantedNotOwed
    <3> QED BY <3>1, <3>9
  <2>5. ASSUME NEW r \in Requests, Poll(r)
        PROVE  OneOpen' /\ GrantedNotOwed'
    <3>1. CASE Spend(r)
      BY <2>4, <2>5, <3>1 DEF Poll
    <3>2. CASE LetThrough(r) \/ Refuse(r)
      BY <2>1, <2>5, <3>2 DEF Poll, LetThrough, Refuse
    <3> QED BY <2>5, <3>1, <3>2 DEF Poll
  <2>6. CASE Dispatch
    <3> DEFINE c == Head(stream).call
    <3>1. CallStarted(c) => open = {}
      BY <2>0, <2>6, SequentialReads
    <3>2. CallStarted(c) \/ CallFinished(c)
      BY <2>6 DEF Dispatch
    <3>3. c \in Calls
      <4>1. stream \in Seq(Events) /\ stream # <<>>
        BY <2>6 DEF Dispatch, TypeOK, Events
      <4>2. Head(stream) \in Events
        BY <4>1
      <4> QED BY <4>2 DEF Events
    <3> HIDE DEF c
    <3> QED BY <2>2, <2>3, <3>1, <3>2, <3>3
  <2>7. ASSUME NEW c \in Calls, AgentStartsCall(c) \/ AgentEndsCall(c)
        PROVE  OneOpen' /\ GrantedNotOwed'
    BY <2>1, <2>7 DEF AgentStartsCall, AgentEndsCall, grantVars, ghostVars
  <2>8. ASSUME NEW c \in Calls, NEW r \in Requests, IssueCommand(c, r)
        PROVE  OneOpen' /\ GrantedNotOwed'
    BY <2>1, <2>8 DEF IssueCommand, grantVars
  <2>9. ASSUME NEW r \in Requests, Retry(r)
        PROVE  OneOpen' /\ GrantedNotOwed'
    BY <2>1, <2>9 DEF Retry, grantVars
  <2>10. CASE TurnError
    BY <2>1, <2>10 DEF TurnError, grantVars
  <2>11. CASE UNCHANGED vars
    BY <2>1, <2>11 DEF vars, grantVars, ghostVars
  <2> QED BY <2>5, <2>6, <2>7, <2>8, <2>9, <2>10, <2>11 DEF Next
<1>4. OneOwed => OneWhileSequential
  BY DEF OneOwed, GrantedNotOwed, OneWhileSequential, OneSinceLastStart, Sequential
<1> QED BY <1>1, <1>2, <1>3, <1>4, TypeCorrect, PTL DEF Spec
-----------------------------------------------------------------------------
(* One call at a time, whether its turns fail or not.  A finish on the stream
   is of a call that has ended, so no running call's.                       *)
OneRunning == parallel = 1 => \A c, d \in running : c = d
EndsInOrder ==
  /\ \A c \in running : c \notin ended
  /\ \A i \in 1..Len(stream) : stream[i].kind = "finish" => stream[i].call \in ended

(* An honest agent's unanswered commands are its running call's, and no two
   commands of a call have the same name.                                   *)
Foreground ==
  parallel = 1 /\ honest =>
    /\ \A r \in Requests : claim[r] = "polling" => owner[r] \in running
    /\ \A q, r \in Requests :
         owner[r] # NoCall /\ owner[q] = owner[r] /\ NameOf[q] = NameOf[r] => q = r

(* Once its start is read, the running call's grants are spent by its own
   commands only, and a command that spent one cannot lose it in a retry.   *)
Unread(c) == \E i \in 1..Len(stream) : stream[i] = [kind |-> "start", call |-> c]
SpentBy(c, q) == owner[q] = c /\ (q \in requests \/ (q \in Anonymous /\ claim[q] # "polling"))
OwnGrants ==
  parallel = 1 /\ honest =>
    \A c \in running : ~ Unread(c) =>
      c \in open /\ \A n \in used[c] : \E q \in Requests : NameOf[q] = n /\ SpentBy(c, q)

ServedInv == OneRunning /\ EndsInOrder /\ Foreground /\ OwnGrants

LEMMA ServedStarts ==
  ASSUME TypeOK, ServedInv, NEW c \in Calls, AgentStartsCall(c)
  PROVE  ServedInv'
<1> USE DEF AgentStartsCall, grantVars, claimVars, ghostVars
<1>1. stream \in Seq(Events) /\ stream' = Append(stream, [kind |-> "start", call |-> c])
  BY DEF TypeOK, Events
<1>2. /\ Len(stream') = Len(stream) + 1 /\ Len(stream) \in Nat
      /\ stream'[Len(stream')] = [kind |-> "start", call |-> c]
      /\ \A i \in 1..Len(stream) : stream'[i] = stream[i]
  BY <1>1, AppendShape
<1>3. parallel = 1 => running' = {c}
  <2> SUFFICES ASSUME parallel = 1 PROVE running = {}
    OBVIOUS
  <2>1. IsFiniteSet(running)
    BY CallsFinite, FS_Subset DEF TypeOK
  <2>2. Cardinality(running) = 0
    BY <2>1, FS_CardinalityType
  <2> QED BY <2>1, <2>2, FS_EmptySet
<1>4. OneRunning'
  BY <1>3 DEF OneRunning
<1>5. EndsInOrder'
  BY <1>2 DEF ServedInv, EndsInOrder
<1>6. Foreground'
  BY DEF ServedInv, Foreground
<1>7. Unread(c)'
  BY <1>2 DEF Unread
<1>8. OwnGrants'
  BY <1>3, <1>7 DEF OwnGrants
<1> QED BY <1>4, <1>5, <1>6, <1>8 DEF ServedInv

LEMMA ServedEnds ==
  ASSUME TypeOK, ServedInv, NEW c \in Calls, AgentEndsCall(c)
  PROVE  ServedInv'
<1> USE DEF AgentEndsCall, grantVars, claimVars
<1>1. stream \in Seq(Events) /\ stream' = Append(stream, [kind |-> "finish", call |-> c])
  BY DEF TypeOK, Events
<1>2. /\ Len(stream') = Len(stream) + 1 /\ Len(stream) \in Nat
      /\ stream'[Len(stream')] = [kind |-> "finish", call |-> c]
      /\ \A i \in 1..Len(stream) : stream'[i] = stream[i]
  BY <1>1, AppendShape
<1>3. parallel' = 1 => parallel = 1 /\ running' = {}
  BY DEF ServedInv, OneRunning
<1>4. OneRunning'
  BY <1>3 DEF OneRunning
<1>5. EndsInOrder'
  BY <1>2 DEF ServedInv, EndsInOrder
<1>6. Foreground'
  <2> SUFFICES ASSUME parallel' = 1, honest'
               PROVE  /\ \A r \in Requests : claim[r] # "polling"
                      /\ \A q, r \in Requests :
                           owner[r] # NoCall /\ owner[q] = owner[r] /\ NameOf[q] = NameOf[r] => q = r
    BY Zenon DEF Foreground
  <2>1. honest /\ \A r \in Requests : owner[r] = c => claim[r] # "polling"
    BY Zenon
  <2>2. \A r \in Requests : claim[r] = "polling" => owner[r] = c
    BY <2>1, <1>3 DEF ServedInv, Foreground, OneRunning
  <2> QED BY <2>1, <2>2, <1>3 DEF ServedInv, Foreground
<1>7. OwnGrants'
  BY <1>3 DEF OwnGrants
<1> QED BY <1>4, <1>5, <1>6, <1>7 DEF ServedInv

LEMMA ServedIssues ==
  ASSUME TypeOK, ServedInv, NEW c \in Calls, NEW r \in Requests, IssueCommand(c, r)
  PROVE  ServedInv'
<1> USE DEF IssueCommand, grantVars, agentVars
<1>1. OneRunning' /\ EndsInOrder'
  BY DEF ServedInv, OneRunning, EndsInOrder
<1>2. owner[r] = NoCall /\ owner'[r] = c /\ claim'[r] = "polling"
  BY DEF TypeOK
<1>3. \A q \in Requests : q # r => owner'[q] = owner[q] /\ claim'[q] = claim[q]
  BY DEF TypeOK
<1>4. honest' => honest /\ c \in running /\ ~ Sibling(c, r)
  BY Zenon
<1>5. Foreground'
  <2> SUFFICES ASSUME parallel = 1, honest'
               PROVE  /\ \A q \in Requests : claim'[q] = "polling" => owner'[q] \in running
                      /\ \A p, q \in Requests :
                           owner'[q] # NoCall /\ owner'[p] = owner'[q] /\ NameOf[p] = NameOf[q] => p = q
    BY Zenon DEF Foreground
  <2>1. \A q \in Requests : claim'[q] = "polling" => owner'[q] \in running
    BY <1>2, <1>3, <1>4, Zenon DEF ServedInv, Foreground
  <2>2. \A q \in Requests : q # r /\ owner[q] = c => NameOf[q] # NameOf[r]
    BY <1>4, Zenon DEF Sibling
  <2>3. \A p, q \in Requests :
          owner[q] # NoCall /\ owner[p] = owner[q] /\ NameOf[p] = NameOf[q] => p = q
    BY <1>4, Zenon DEF ServedInv, Foreground
  <2>4. \A p, q \in Requests :
          owner'[q] # NoCall /\ owner'[p] = owner'[q] /\ NameOf[p] = NameOf[q] => p = q
    BY <1>2, <1>3, <2>2, <2>3
  <2> QED BY <2>1, <2>4
<1>6. OwnGrants'
  <2> SUFFICES ASSUME parallel = 1, honest', NEW d \in running, ~ Unread(d)
               PROVE  d \in open /\ \A n \in used[d] :
                                      \E q \in Requests : NameOf[q] = n /\ SpentBy(d, q)'
    BY Zenon DEF OwnGrants, Unread
  <2>1. d \in open /\ \A n \in used[d] : \E q \in Requests : NameOf[q] = n /\ SpentBy(d, q)
    BY <1>4, Zenon DEF ServedInv, OwnGrants
  <2>2. d # NoCall
    BY NoCallFresh DEF TypeOK
  <2>3. \A q \in Requests : SpentBy(d, q) => SpentBy(d, q)'
    <3> SUFFICES ASSUME NEW q \in Requests, SpentBy(d, q) PROVE SpentBy(d, q)'
      OBVIOUS
    <3>1. q # r
      BY <1>2, <2>2 DEF SpentBy
    <3> QED BY <1>3, <3>1 DEF SpentBy
  <2> QED BY <2>1, <2>3
<1> QED BY <1>1, <1>5, <1>6 DEF ServedInv

LEMMA ServedRetries ==
  ASSUME TypeOK, ServedInv, NEW r \in Requests, Retry(r)
  PROVE  ServedInv'
<1> USE DEF Retry, grantVars, agentVars
<1>1. OneRunning' /\ EndsInOrder'
  BY DEF ServedInv, OneRunning, EndsInOrder
<1>2. /\ claim'[r] = "polling"
      /\ \A q \in Requests : q # r => claim'[q] = claim[q]
  BY DEF TypeOK
<1>3. honest' => honest /\ r \notin Anonymous /\ owner[r] \in running
  BY Zenon
<1>4. Foreground'
  BY <1>2, <1>3, Zenon DEF ServedInv, Foreground
<1>5. OwnGrants'
  <2> SUFFICES ASSUME parallel = 1, honest', NEW d \in running, ~ Unread(d)
               PROVE  d \in open /\ \A n \in used[d] :
                                      \E q \in Requests : NameOf[q] = n /\ SpentBy(d, q)'
    BY Zenon DEF OwnGrants, Unread
  <2>1. d \in open /\ \A n \in used[d] : \E q \in Requests : NameOf[q] = n /\ SpentBy(d, q)
    BY <1>3, Zenon DEF ServedInv, OwnGrants
  <2>2. \A q \in Requests : SpentBy(d, q) => SpentBy(d, q)'
    BY <1>2, <1>3, Zenon DEF SpentBy
  <2> QED BY <2>1, <2>2
<1> QED BY <1>1, <1>4, <1>5 DEF ServedInv

LEMMA ServedPolls ==
  ASSUME TypeOK, ServedInv, NEW r \in Requests, Poll(r)
  PROVE  ServedInv'
<1> USE DEF Poll, agentVars
<1>1. OneRunning' /\ EndsInOrder'
  BY DEF ServedInv, OneRunning, EndsInOrder
<1>2. /\ claim'[r] # "polling"
      /\ \A q \in Requests : q # r => claim'[q] = claim[q]
      /\ requests \subseteq requests'
  BY DEF TypeOK, Spend, LetThrough, Refuse, Remembered
<1>3. Foreground'
  BY <1>2, Zenon DEF ServedInv, Foreground
<1>4. OwnGrants'
  <2> SUFFICES ASSUME parallel = 1, honest, NEW d \in running, ~ Unread(d)
               PROVE  d \in open /\ \A n \in used'[d] :
                                      \E q \in Requests : NameOf[q] = n /\ SpentBy(d, q)'
    BY Zenon DEF OwnGrants, Unread
  <2>1. d \in open /\ \A n \in used[d] : \E q \in Requests : NameOf[q] = n /\ SpentBy(d, q)
    BY Zenon DEF ServedInv, OwnGrants
  <2>2. \A q \in Requests : SpentBy(d, q) => SpentBy(d, q)'
    BY <1>2 DEF SpentBy
  <2>3. owner[r] = d
    BY DEF ServedInv, Foreground, OneRunning
  <2>4. \A n \in used'[d] : n \in used[d] \/ (n = NameOf[r] /\ Spend(r))
    <3>1. CASE UNCHANGED used
      BY <3>1
    <3>2. ASSUME NEW c \in Calls, used' = [used EXCEPT ![c] = @ \cup {NameOf[r]}], Spend(r)
          PROVE  \A n \in used'[d] : n \in used[d] \/ (n = NameOf[r] /\ Spend(r))
      <4>1. d \in Calls
        BY DEF TypeOK
      <4>2. used'[d] \subseteq used[d] \cup {NameOf[r]}
        BY <3>2, <4>1 DEF TypeOK
      <4> QED BY <3>2, <4>2
    <3>3. UNCHANGED used \/ (Spend(r) /\ \E c \in Calls : used' = [used EXCEPT ![c] = @ \cup {NameOf[r]}])
      BY DEF Spend, LetThrough, Refuse
    <3> QED BY <3>1, <3>2, <3>3
  <2>5. Spend(r) => SpentBy(d, r)'
    BY <1>2, <2>3 DEF Spend, Remembered, SpentBy
  <2> QED BY <2>1, <2>2, <2>4, <2>5
<1> QED BY <1>1, <1>3, <1>4 DEF ServedInv

LEMMA ServedReads ==
  ASSUME TypeOK, ServedInv, Dispatch
  PROVE  ServedInv'
<1>0. stream \in Seq(Events) /\ stream # <<>> /\ stream' = Tail(stream)
  BY DEF TypeOK, Events, Dispatch
<1> DEFINE e == stream[1]
<1>1. /\ Head(stream) = e /\ e \in Events
      /\ Len(stream) \in Nat \ {0} /\ Len(stream') = Len(stream) - 1
      /\ \A i \in 1..Len(stream') : stream'[i] = stream[i + 1]
  BY <1>0, TailShape
<1>2. /\ e.kind \in {"start", "finish"} /\ e.call \in Calls
      /\ IF e.kind = "start" THEN CallStarted(e.call) ELSE CallFinished(e.call)
      /\ UNCHANGED <<parallel, running, ended, claim, owner, honest, requests>>
  BY <1>1 DEF Events, Dispatch, claimVars, CallStarted, CallFinished
<1>3. OneRunning' /\ Foreground'
  BY <1>2, Zenon DEF ServedInv, OneRunning, Foreground
<1>4. EndsInOrder'
  BY <1>1, <1>2 DEF ServedInv, EndsInOrder
<1>5. OwnGrants'
  <2> SUFFICES ASSUME parallel = 1, honest, NEW d \in running, ~ Unread(d)'
               PROVE  d \in open' /\ \A n \in used'[d] :
                                      \E q \in Requests : NameOf[q] = n /\ SpentBy(d, q)
    <3>1. \A d, q : SpentBy(d, q)' <=> SpentBy(d, q)
      BY <1>2 DEF SpentBy
    <3>2. parallel' = 1 /\ honest' => parallel = 1 /\ honest
      BY <1>2, Zenon
    <3> QED BY <1>2, <3>1, <3>2, Zenon DEF OwnGrants
  <2>1. CASE e = [kind |-> "start", call |-> d]
    <3>1. CallStarted(d)
      BY <1>2, <2>1
    <3>2. d \in open' /\ used'[d] = {}
      BY <3>1 DEF CallStarted, TypeOK
    <3> QED BY <3>2
  <2>2. CASE e # [kind |-> "start", call |-> d]
    <3>1. ~ Unread(d)
      <4> SUFFICES ASSUME NEW i \in 1..Len(stream), stream[i] = [kind |-> "start", call |-> d]
                   PROVE  FALSE
        BY DEF Unread
      <4>1. i # 1
        BY <2>2
      <4>2. i - 1 \in 1..Len(stream') /\ stream'[i - 1] = stream[i]
        BY <1>1, <4>1
      <4> QED BY <4>2 DEF Unread
    <3>2. d \in open /\ \A n \in used[d] : \E q \in Requests : NameOf[q] = n /\ SpentBy(d, q)
      BY <3>1, Zenon DEF ServedInv, OwnGrants
    <3>3. e.call # d
      <4>1. CASE e.kind = "start"
        BY <1>1, <2>2, <4>1 DEF Events
      <4>2. CASE e.kind = "finish"
        BY <1>1, <4>2 DEF ServedInv, EndsInOrder
      <4> QED BY <1>2, <4>1, <4>2
    <3> HIDE DEF e
    <3>4. d \in open' /\ used'[d] = used[d]
      BY <1>2, <3>2, <3>3 DEF CallStarted, CallFinished, TypeOK
    <3> QED BY <3>2, <3>4
  <2> QED BY <2>1, <2>2
<1> QED BY <1>3, <1>4, <1>5 DEF ServedInv

LEMMA ServedStep == TypeOK /\ ServedInv /\ [Next]_vars => ServedInv'
<1> SUFFICES ASSUME TypeOK, ServedInv, [Next]_vars PROVE ServedInv'
  OBVIOUS
<1>1. CASE TurnError
  <2>1. running' = {} /\ stream' = <<>> /\ parallel' = parallel /\ UNCHANGED <<claim, owner>>
    BY <1>1 DEF TurnError, claimVars
  <2>2. honest' => honest /\ \A r \in Requests : owner[r] \in running => claim[r] # "polling"
    BY <1>1, Zenon DEF TurnError
  <2>3. OneRunning' /\ EndsInOrder' /\ OwnGrants'
    BY <2>1 DEF OneRunning, EndsInOrder, OwnGrants
  <2>4. Foreground'
    BY <2>1, <2>2, Zenon DEF ServedInv, Foreground
  <2> QED BY <2>3, <2>4 DEF ServedInv
<1>2. CASE UNCHANGED vars
  BY <1>2 DEF vars, grantVars, agentVars, claimVars, ghostVars, ServedInv, OneRunning, EndsInOrder,
     Foreground, OwnGrants, Unread, SpentBy
<1> QED BY <1>1, <1>2, ServedStarts, ServedEnds, ServedIssues, ServedRetries, ServedPolls, ServedReads
        DEF Next

(* A refusal of the running call's command, its start read, would be of a
   command whose grant its own earlier answer spent, and that is repeated.  *)
LEMMA NoRefusal ==
  ASSUME TypeOK, ServedInv, [Next]_vars, NEW r \in Requests,
         claim[r] = "polling", claim'[r] = "refused", parallel = 1, honest, StartsRead, owner[r] \in running
  PROVE  FALSE
<1>1. Refuse(r)
  <2>1. ASSUME NEW q \in Requests, Poll(q) PROVE Refuse(r)
    BY <2>1 DEF Poll, Spend, LetThrough, Refuse, TypeOK
  <2>2. ASSUME NEW c \in Calls, NEW q \in Requests, IssueCommand(c, q) PROVE FALSE
    BY <2>2 DEF IssueCommand, TypeOK
  <2>3. ASSUME NEW q \in Requests, Retry(q) PROVE FALSE
    BY <2>3 DEF Retry, TypeOK
  <2>4. ASSUME UNCHANGED claim PROVE FALSE
    BY <2>4
  <2> QED BY <2>1, <2>2, <2>3, <2>4 DEF Next, vars, claimVars, AgentStartsCall, AgentEndsCall, Dispatch,
             TurnError
<1>2. ~ Unread(owner[r])
  <2>1. stream \in Seq(Events)
    BY DEF TypeOK, Events
  <2> QED BY <2>1 DEF StartsRead, Unread
<1>3. NameOf[r] \in used[owner[r]]
  <2>1. owner[r] \in open
    BY <1>2, Zenon DEF ServedInv, OwnGrants
  <2> QED BY <1>1, <2>1 DEF Refuse, Exhausted, Unspent
<1>4. PICK q \in Requests : NameOf[q] = NameOf[r] /\ SpentBy(owner[r], q)
  BY <1>2, <1>3, Zenon DEF ServedInv, OwnGrants
<1>5. q = r
  <2>1. owner[q] = owner[r] /\ owner[r] # NoCall
    BY <1>4, NoCallFresh DEF SpentBy, TypeOK
  <2> QED BY <1>4, <2>1, Zenon DEF ServedInv, Foreground
<1>6. Replayed(r)
  BY <1>4, <1>5 DEF SpentBy, Replayed, TypeOK
<1> QED BY <1>1, <1>6 DEF Refuse, Exhausted

(* However many calls, names and requests, and turns that fail: an agent that
   runs one call at a time, with one foreground command of each name, is not
   refused once its call's start is read, whether its answers arrive or not. *)
THEOREM ServedHolds == Spec => HonestServed
<1>1. Init => ServedInv
  <2> SUFFICES ASSUME Init PROVE ServedInv
    OBVIOUS
  <2>1. running = {} /\ Len(stream) = 0 /\ \A r \in Requests : claim[r] = "none" /\ owner[r] = NoCall
    BY DEF Init
  <2> QED BY <2>1 DEF ServedInv, OneRunning, EndsInOrder, Foreground, OwnGrants
<1>2. TypeOK /\ ServedInv /\ [Next]_vars =>
        [\A r \in Requests :
           claim[r] = "polling" /\ claim'[r] = "refused"
             => ~ (parallel = 1 /\ honest /\ StartsRead /\ owner[r] \in running)]_vars
  BY NoRefusal
<1> QED BY <1>1, <1>2, ServedStep, TypeCorrect, PTL DEF Spec, HonestServed
=============================================================================
