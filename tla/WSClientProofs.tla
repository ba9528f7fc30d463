----------------------------- MODULE WSClientProofs -----------------------------
(***************************************************************************)
(* The safety of the client's reconnection, for every configuration of the *)
(* delays and the number of attempts and for every network.                *)
(***************************************************************************)
EXTENDS WSClient, TLAPS

\* Each state of the socket determines what else can be under way, and how the
\* failures in a row are counted.
ClientInv ==
  /\ socket \in Sockets
  /\ attempts \in 0..maxReconnectAttempts
  /\ \A d, e \in timer : d = e
  /\ socket \in {"none", "connecting", "open", "closing"} => timer = {} /\ failures = attempts
  /\ socket \in {"connecting", "open", "closing"} => status # "disconnected"
  /\ socket = "closed" =>
       \/ timer # {} /\ status # "disconnected" /\ failures = attempts
       \/ timer = {} /\ status = "disconnected" /\ failures = maxReconnectAttempts + 1
  /\ socket \in {"none", "connecting", "closed"} => intervals = 0
  /\ socket = "open" => intervals = 1
  /\ socket = "closing" => intervals \in {0, 1}

\* ClientInv holds initially.
LEMMA InitInv == ClientInit => ClientInv
BY ConfigAssumption DEF ClientInit, ClientInv, Sockets

\* The close event either schedules one reconnect or gives up, and counts.
LEMMA CloseInv == ASSUME ClientInv, OnClose PROVE ClientInv'
<1>1. /\ socket = "closing" /\ socket' = "closed"
      /\ timer = {} /\ failures = attempts
      /\ failures' = attempts + 1
      /\ intervals' = 0
  BY DEF ClientInv, OnClose, stopHeartbeat
<1>2. CASE GiveUp
  BY <1>1, <1>2, ConfigAssumption DEF ClientInv, GiveUp, Sockets
<1>3. CASE scheduleReconnect
  <2>1. PICK delay \in Delays(attempts) : timer' = timer \cup {delay}
    BY <1>3 DEF scheduleReconnect
  <2>2. /\ status' = "reconnecting"
        /\ attempts' = attempts + 1
        /\ attempts' \in 0..maxReconnectAttempts
    BY <1>3, ConfigAssumption DEF ClientInv, scheduleReconnect
  <2> QED BY <1>1, <2>1, <2>2 DEF ClientInv, Sockets
<1> QED BY <1>2, <1>3 DEF OnClose

\* Every step preserves ClientInv.
LEMMA NextInv == ClientInv /\ [ClientNext]_clientVars => ClientInv'
<1> SUFFICES ASSUME ClientInv, [ClientNext]_clientVars PROVE ClientInv'
  OBVIOUS
<1> USE DEF ClientInv, Sockets
<1>1. CASE initialize
  BY <1>1 DEF initialize
<1>2. CASE OnOpen
  BY <1>2, ConfigAssumption DEF OnOpen, AttemptsAfterOpen
<1>3. CASE OnError
  BY <1>3 DEF OnError, TimersAfterError, identityVars
<1>4. CASE OnClose
  BY <1>4, CloseInv
<1>5. CASE Reopen
  <2>1. PICK delay \in timer : timer' = timer \ {delay}
    BY <1>5 DEF Reopen
  <2>2. timer' = {} /\ socket = "closed"
    BY <2>1
  <2> QED BY <1>5, <2>2 DEF Reopen, identityVars
<1>6. CASE OnWelcome \/ SaveIdentity \/ LinkChanges
  BY <1>6 DEF OnWelcome, SaveIdentity, LinkChanges, connectionVars
<1>7. CASE Quit
  BY <1>7, ConfigAssumption DEF Quit
<1>8. CASE UNCHANGED clientVars
  BY <1>8 DEF clientVars, connectionVars
<1> QED
  BY <1>1, <1>2, <1>3, <1>4, <1>5, <1>6, <1>7, <1>8 DEF ClientNext, ClientStep

-----------------------------------------------------------------------------
(* The delays.                                                             *)

\* Every delay with jitter is one the configuration allows.
LEMMA DelaysAreCapped ==
  ASSUME NEW n \in Nat
  PROVE  Delays(n) \subseteq 0..maxReconnectDelay
BY ConfigAssumption DEF Delays, capExponential

\* What Backoff says of one delay, as a matter of the attempt it was made for.
LEMMA DelayOfAttempt ==
  ASSUME NEW n \in Nat, NEW delay \in Delays(n)
  PROVE  LET full == baseReconnectDelay * 2 ^ n
             capped == IF full < maxReconnectDelay THEN full ELSE maxReconnectDelay
         IN  delay <= capped /\ 2 * delay >= capped
BY ConfigAssumption DEF Delays, capExponential

\* A reconnect that the close event schedules is the only one, and was
\* computed from the attempts before this one was counted.
LEMMA CloseSchedules ==
  ASSUME ClientInv, OnClose
  PROVE  /\ failures' - 1 = attempts /\ attempts \in Nat
         /\ timer' = {} \/ \E delay \in Delays(attempts) : timer' = {delay}
<1>1. timer = {} /\ failures = attempts /\ attempts \in Nat /\ failures' = failures + 1
  BY ConfigAssumption DEF ClientInv, OnClose
<1>2. timer' = {} \/ \E delay \in Delays(attempts) : timer' = {delay}
  BY <1>1 DEF OnClose, GiveUp, scheduleReconnect
<1> QED BY <1>1, <1>2

\* Every step keeps the types.
LEMMA NextTypes == ClientInv /\ ClientTypeOK /\ [ClientNext]_clientVars => ClientTypeOK'
<1> SUFFICES ASSUME ClientInv, ClientTypeOK, [ClientNext]_clientVars PROVE ClientTypeOK'
  OBVIOUS
<1> USE DEF ClientTypeOK, Sockets
<1>1. CASE initialize
  BY <1>1 DEF initialize
<1>2. CASE OnOpen
  BY <1>2, ConfigAssumption DEF OnOpen, AttemptsAfterOpen
<1>3. CASE OnError
  BY <1>3 DEF OnError, TimersAfterError, identityVars
<1>4. CASE OnClose
  <2>1. ClientInv'
    BY <1>4, CloseInv
  <2>2. /\ attempts' \in 0..maxReconnectAttempts
        /\ failures' \in 0..(maxReconnectAttempts + 1)
    BY <2>1, <1>4, ConfigAssumption DEF ClientInv, OnClose
  <2>3. timer' \subseteq 0..maxReconnectDelay
    BY <1>4, CloseSchedules, DelaysAreCapped
  <2>4. intervals' \in Nat
    BY <1>4 DEF OnClose, stopHeartbeat
  <2>5. status' \in {"connecting", "connected", "reconnecting", "disconnected"}
    BY <1>4 DEF OnClose, GiveUp, scheduleReconnect
  <2> QED BY <1>4, <2>2, <2>3, <2>4, <2>5 DEF OnClose
<1>5. CASE Reopen
  BY <1>5 DEF Reopen, identityVars
<1>6. CASE OnWelcome \/ SaveIdentity \/ LinkChanges
  BY <1>6 DEF OnWelcome, SaveIdentity, LinkChanges, connectionVars, identityVars
<1>7. CASE Quit
  BY <1>7, ConfigAssumption DEF Quit
<1>8. CASE UNCHANGED clientVars
  BY <1>8 DEF clientVars, connectionVars, identityVars
<1> QED
  BY <1>1, <1>2, <1>3, <1>4, <1>5, <1>6, <1>7, <1>8 DEF ClientNext, ClientStep

\* A timer that is pending was made by the last close event.
LEMMA NextBackoff == ClientInv /\ Backoff /\ [ClientNext]_clientVars => Backoff'
<1> SUFFICES ASSUME ClientInv, Backoff, [ClientNext]_clientVars PROVE Backoff'
  OBVIOUS
<1>1. CASE OnClose
  <2> SUFFICES ASSUME NEW delay \in timer'
               PROVE  LET full == baseReconnectDelay * 2 ^ (failures' - 1)
                          capped == IF full < maxReconnectDelay THEN full ELSE maxReconnectDelay
                      IN  delay <= capped /\ 2 * delay >= capped
    BY DEF Backoff
  <2>1. failures' - 1 = attempts /\ attempts \in Nat /\ delay \in Delays(attempts)
    BY <1>1, CloseSchedules
  <2> HIDE DEF Backoff
  <2> QED BY <2>1, DelayOfAttempt
<1>2. CASE socket # "closed" /\ ~OnClose
  <2>1. timer' = {}
    BY <1>2 DEF ClientInv, Sockets, ClientNext, ClientStep, initialize, OnOpen, OnError, OnClose,
       Reopen, OnWelcome, SaveIdentity, Quit, LinkChanges, clientVars, connectionVars,
       identityVars, TimersAfterError
  <2> QED BY <2>1 DEF Backoff
<1>3. CASE socket = "closed" /\ ~OnClose
  <2>1. timer' = {} \/ UNCHANGED <<timer, failures>>
    <3>1. CASE Reopen
      BY <1>3, <3>1 DEF Reopen, ClientInv
    <3>2. CASE ~Reopen
      BY <1>3, <3>2 DEF ClientNext, ClientStep, initialize, OnOpen, OnError,
         OnWelcome, SaveIdentity, Quit, LinkChanges, clientVars, connectionVars, identityVars
    <3> QED BY <3>1, <3>2
  <2> QED BY <2>1 DEF Backoff
<1> QED BY <1>1, <1>2, <1>3

-----------------------------------------------------------------------------

\* What ClientInv says of the properties.
LEMMA InvImplies == ClientInv => OneLifeline /\ OneHeartbeat /\ GivesUpLate
BY DEF ClientInv, Sockets, OneLifeline, OneHeartbeat, GivesUpLate

\* Whatever happens to its connections, a client that has been initialized has
\* one socket, or one timer that opens the next, or has given up for good.
THEOREM ExactlyOneLifeline == ClientSpec => []OneLifeline
BY InitInv, NextInv, InvImplies, PTL DEF ClientSpec

\* However often it reconnects, the client has one heartbeat while it is open,
\* and none left over afterwards.
THEOREM ExactlyOneHeartbeat == ClientSpec => []OneHeartbeat
BY InitInv, NextInv, InvImplies, PTL DEF ClientSpec

\* The client gives up only after maxReconnectAttempts reconnects that failed
\* one after the other.
THEOREM PersistsAsConfigured == ClientSpec => []GivesUpLate
BY InitInv, NextInv, InvImplies, PTL DEF ClientSpec

\* Delays, attempts and failures stay within the configuration.
THEOREM ClientTypesHold == ClientSpec => []ClientTypeOK
<1>1. ClientInit => ClientTypeOK
  BY ConfigAssumption DEF ClientInit, ClientTypeOK, Sockets
<1> QED BY <1>1, InitInv, NextInv, NextTypes, PTL DEF ClientSpec

\* Every reconnect that is scheduled after k failures in a row comes after a
\* delay between a half and the whole of base * 2^(k-1), capped.
THEOREM BacksOff == ClientSpec => []Backoff
<1>1. ClientInit => Backoff
  BY DEF ClientInit, Backoff
<1> QED BY <1>1, InitInv, NextInv, NextBackoff, PTL DEF ClientSpec

=============================================================================
