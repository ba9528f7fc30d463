-------------------------------- MODULE WSClient --------------------------------
(***************************************************************************)
(* One desktop client's connection: WSClient of client/src/ws/client.ts,   *)
(* the way client/src/store/useStore.ts drives it, and the identity that   *)
(* client/electron/identity.ts keeps between launches.                     *)
(*                                                                         *)
(* JavaScript runs one event handler at a time, so an event is a step.     *)
(* After initialize the client is driven by its socket's events and by the *)
(* reconnect timer:                                                        *)
(*                                                                         *)
(*   none -> connecting -> open -> closing -> closed -> connecting ...     *)
(*              `------------------^            `-> given up               *)
(***************************************************************************)
EXTENDS Integers

CONSTANTS
  maxReconnectAttempts, baseReconnectDelay, maxReconnectDelay,
  Ids,    \* bound: the participant ids the server can issue
  NoId

ASSUME ConfigAssumption ==
  /\ maxReconnectAttempts \in Nat
  /\ baseReconnectDelay \in Nat
  /\ maxReconnectDelay \in Nat
ASSUME NoIdAssumption == NoId \notin Ids

VARIABLES
  socket,      \* readyState of the last socket, "none" before initialize
  status,      \* what the user is shown
  attempts,
  timer,       \* the delay of every reconnect timer that is pending
  intervals,   \* how many heartbeat intervals are running
  failures,    \* history: sockets closed since one was last opened
  identity,    \* the participant id initialize has captured
  hello,       \* the participant id in the hello the server has to answer
  self,        \* the participant the store believes to be
  saved,       \* the participant id in identity.json
  issued,      \* the participant ids the server has issued
  reachable    \* whether the server can be reached

connectionVars == <<socket, status, attempts, timer, intervals, failures>>
identityVars == <<identity, hello, self, saved, issued>>
clientVars == <<connectionVars, identityVars, reachable>>

Sockets == {"none", "connecting", "open", "closing", "closed"}

NoHello == "no hello"

ClientTypeOK ==
  /\ socket \in Sockets
  /\ status \in {"connecting", "connected", "reconnecting", "disconnected"}
  /\ attempts \in 0..maxReconnectAttempts
  /\ timer \subseteq 0..maxReconnectDelay
  /\ intervals \in Nat
  /\ failures \in 0..(maxReconnectAttempts + 1)
  /\ {identity, self, saved} \subseteq Ids \cup {NoId}
  /\ hello \in Ids \cup {NoId, NoHello}
  /\ issued \subseteq Ids
  /\ reachable \in BOOLEAN

ClientInit ==
  /\ socket = "none" /\ status = "disconnected" /\ attempts = 0 /\ timer = {}
  /\ intervals = 0 /\ failures = 0 /\ identity = NoId /\ hello = NoHello /\ self = NoId
  /\ saved = NoId
  /\ issued = {}
  /\ reachable \in BOOLEAN

-----------------------------------------------------------------------------
(* The client.                                                             *)

\* The user submits a name: the identity read at start-up is what every hello
\* of this launch will present.
initialize ==
  /\ socket = "none"
  /\ identity' = saved
  /\ socket' = "connecting"
  /\ status' = "connecting"
  /\ UNCHANGED <<attempts, timer, intervals, failures, hello, self, saved, issued, reachable>>

\* Mutant: the attempts of the last outage are kept.
AttemptsAfterOpenKept(n) == n

AttemptsAfterOpen(n) == 0

\* "open": hello, and the heartbeat is started.
OnOpen ==
  /\ socket = "connecting"
  /\ reachable
  /\ socket' = "open"
  /\ attempts' = AttemptsAfterOpen(attempts)
  /\ failures' = 0
  /\ status' = "connected"
  /\ hello' = identity
  /\ intervals' = intervals + 1
  /\ UNCHANGED <<timer, identity, self, saved, issued, reachable>>

\* Mutant: an error schedules a reconnect, like the close event that follows.
TimersAfterErrorScheduled == timer \cup {baseReconnectDelay}

TimersAfterError == timer

\* "error" before or after the socket was opened, or the server closes it.
OnError ==
  /\ socket \in {"connecting", "open"}
  /\ ~reachable
  /\ socket' = "closing"
  /\ timer' = TimersAfterError
  /\ UNCHANGED <<status, attempts, intervals, failures, identityVars, reachable>>

\* Mutant: the attempt is counted before the delay is computed.
capExponentialNext(attempt) ==
  LET delay == baseReconnectDelay * 2 ^ (attempt + 1)
  IN  IF delay < maxReconnectDelay THEN delay ELSE maxReconnectDelay

\* Mutant: the delay is not capped.
capExponentialUncapped(attempt) == baseReconnectDelay * 2 ^ attempt

capExponential(attempt) ==
  LET delay == baseReconnectDelay * 2 ^ attempt
  IN  IF delay < maxReconnectDelay THEN delay ELSE maxReconnectDelay

\* With jitter: somewhere between a half and the whole.
Delays(attempt) ==
  {d \in 0..capExponential(attempt) : 2 * d >= capExponential(attempt)}

GiveUp ==
  /\ attempts >= maxReconnectAttempts
  /\ status' = "disconnected"
  /\ UNCHANGED <<attempts, timer>>

\* Mutant: the last reconnect is announced and not scheduled.
scheduleReconnectForgotten ==
  /\ attempts < maxReconnectAttempts
  /\ status' = "reconnecting"
  /\ attempts' = attempts + 1
  /\ IF attempts' = maxReconnectAttempts THEN UNCHANGED timer
     ELSE \E delay \in Delays(attempts) : timer' = timer \cup {delay}

scheduleReconnect ==
  /\ attempts < maxReconnectAttempts
  /\ status' = "reconnecting"
  /\ \E delay \in Delays(attempts) : timer' = timer \cup {delay}
  /\ attempts' = attempts + 1

\* Mutant: the interval goes on.
stopHeartbeatNot(n) == n

\* The handle is that of the last interval started.
stopHeartbeat(n) == IF n = 0 THEN 0 ELSE n - 1

\* "close".  A hello that was not answered will not be.
OnClose ==
  /\ socket = "closing"
  /\ socket' = "closed"
  /\ failures' = failures + 1
  /\ intervals' = stopHeartbeat(intervals)
  /\ hello' = NoHello
  /\ GiveUp \/ scheduleReconnect
  /\ UNCHANGED <<identity, self, saved, issued, reachable>>

\* The timer fires: open() makes a new socket.
Reopen ==
  /\ \E delay \in timer : timer' = timer \ {delay}
  /\ socket' = "connecting"
  /\ status' = IF attempts > 0 THEN "reconnecting" ELSE "connecting"
  /\ UNCHANGED <<attempts, intervals, failures, identityVars, reachable>>

\* performHandshake takes the id in the hello or issues one, and the welcome
\* carries it.
OnWelcome ==
  /\ socket = "open"
  /\ hello # NoHello
  /\ \E id \in IF hello = NoId THEN Ids \ issued ELSE {hello} :
       /\ self' = id
       /\ issued' = issued \cup {id}
  /\ hello' = NoHello
  /\ UNCHANGED <<connectionVars, identity, saved, reachable>>

\* saveIdentity finishes: nobody waits for it.
SaveIdentity ==
  /\ self # NoId
  /\ saved' = self
  /\ UNCHANGED <<connectionVars, identity, hello, self, issued, reachable>>

\* The user closes the window, and may launch the client again.
Quit ==
  /\ socket # "none"
  /\ socket' = "none" /\ status' = "disconnected" /\ attempts' = 0 /\ timer' = {}
  /\ intervals' = 0 /\ failures' = 0 /\ identity' = NoId /\ hello' = NoHello /\ self' = NoId
  /\ UNCHANGED <<saved, issued, reachable>>

\* The server or the network goes away or comes back, for any while.
LinkChanges ==
  /\ reachable' = ~reachable
  /\ UNCHANGED <<connectionVars, identityVars>>

-----------------------------------------------------------------------------

ClientStep == OnOpen \/ OnError \/ OnClose \/ Reopen \/ OnWelcome \/ SaveIdentity

ClientNext == initialize \/ ClientStep \/ Quit \/ LinkChanges

\* Events that are due are delivered and timers fire.  Users, the server and
\* the network owe nothing.
ClientSpec ==
  /\ ClientInit /\ [][ClientNext]_clientVars
  /\ WF_clientVars(OnOpen) /\ WF_clientVars(OnError)
  /\ WF_clientVars(OnClose) /\ WF_clientVars(Reopen)

-----------------------------------------------------------------------------
(* Correctness.                                                            *)

\* Through every sequence of failures there is one thing that drives the
\* client on: a socket, or one timer that will open the next one, or it has
\* given up for good.  So it never holds two connections, which the server
\* would make replace each other for ever, and never gets stuck.
OneLifeline ==
  socket = "none" \/
    LET alive == socket \in {"connecting", "open", "closing"}
        pending == timer # {}
        gaveUp == status = "disconnected"
    IN  /\ alive \/ pending \/ gaveUp
        /\ ~(alive /\ pending) /\ ~(alive /\ gaveUp) /\ ~(pending /\ gaveUp)

\* However often the socket is replaced, one heartbeat runs while it is open
\* and none is left behind when it has been closed.
OneHeartbeat ==
  /\ intervals <= 1
  /\ socket = "open" => intervals = 1
  /\ socket \in {"none", "connecting", "closed"} => intervals = 0

\* The k-th failure in a row is followed by a delay between a half and the
\* whole of base * 2^(k-1), capped, counted from the last success.
Backoff ==
  \A delay \in timer :
    LET full == baseReconnectDelay * 2 ^ (failures - 1)
        capped == IF full < maxReconnectDelay THEN full ELSE maxReconnectDelay
    IN  delay <= capped /\ 2 * delay >= capped

\* The client gives up after maxReconnectAttempts reconnects that failed one
\* after the other, and not before.
GivesUpLate ==
  (socket # "none" /\ status = "disconnected") => failures = maxReconnectAttempts + 1

\* Once the server can be reached for good the client, unless it is quit, is
\* connected for good, or has given up before.
ComesBack ==
  <>[](reachable /\ socket # "none") => <>[](status \in {"connected", "disconnected"})

\* "sending the same persisted participantId it always uses" (README.md,
\* Resuming Game Play, 2): a hello after the first welcome presents the
\* participant the client is.
KeepsIdentity == (hello # NoHello /\ self # NoId) => hello = self

=============================================================================
