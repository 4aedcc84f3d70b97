-------------------------- MODULE ServerConnections --------------------------
(***************************************************************************)
(* ServerManager of server.js: the WebSocket connections of a local user   *)
(* to its relay servers, the retries of connect(), the automatic           *)
(* reconnection and the latency monitor.                                   *)
(*                                                                         *)
(* The page is single-threaded: an action is the code between two awaits,  *)
(* one timer callback or one WebSocket event.  Promise callbacks run before*)
(* the next task, so a settled attempt and the callers that wait for it    *)
(* are one action.  The stored profile of the user exists.                 *)
(***************************************************************************)
EXTENDS Integers, FiniteSets

CONSTANTS Urls,       \* relay servers
          Sockets,    \* bound: WebSocket objects created
          Calls,      \* bound: calls of connect() under way at a time
          NoSocket,
          Retries,    \* options.retries
          MaxBackoff, \* the attempt number from which the delay is maxDelay
          MaxCalls,   \* bound: calls by the application and by other code
          MaxFailures   \* bound: handshakes that fail, sockets that die

ASSUME ConnectionsAssumption ==
  /\ Retries \in Nat /\ MaxBackoff \in Nat \ {0} /\ MaxCalls \in Nat /\ MaxFailures \in Nat
  /\ IsFiniteSet(Calls) /\ NoSocket \notin Sockets

VARIABLES
  ws,          \* a WebSocket: the server it is for, readyState, isHandshaked
  wsMap,       \* #wsMap
  intentional, \* #intentionalDisconnects
  attempt,     \* #connectPromises: the retry loop under way for a server
  call,        \* calls of connect() that have not returned
  task,        \* #reconnectTasks: attempt number of the registered task, or 0
  timers,      \* pending reconnect timers: how many of each attempt number
  enabled,     \* #autoReconnectConfig.enabled
  monitor,     \* #latencyTimer: "off", or the interval in use
  down,        \* history: servers the user disconnected, alone or with all others,
               \* and did not reconnect
  spared,      \* history: of those, the ones that a disconnectAll left unmarked
  lasting,     \* history: servers that were connected and should stay so: none is
               \* marked, and none was lost while enabled was FALSE
  forsaken,    \* history: of those, the ones a failed connect() gave up on
  calls, failures \* bounds

marks   == <<intentional, down, spared>>
retry   == <<task, timers>>
history == <<lasting, forsaken>>
connVars == <<ws, wsMap, marks, attempt, call, retry, enabled, monitor, history,
              calls, failures>>

NoAttempt == [pc |-> "none", left |-> 0, sock |-> NoSocket]
NoCall == [pc |-> "free", url |-> "none", why |-> "user", n |-> 0]
Unused == [url |-> "none", st |-> "new", up |-> FALSE]
Tries == 0..MaxBackoff

TypeOK ==
  /\ ws \in [Sockets -> [url : Urls \cup {"none"}, up : BOOLEAN,
               st : {"new", "shaking", "open", "closing", "closed"}]]
  /\ wsMap \in [Urls -> Sockets \cup {NoSocket}]
  /\ intentional \subseteq Urls /\ down \subseteq Urls /\ spared \subseteq Urls
  /\ attempt \in [Urls -> [pc : {"none", "pause", "info", "shake"}, left : 0..Retries,
                           sock : Sockets \cup {NoSocket}]]
  /\ call \in [Calls -> [pc : {"free", "info", "joined"}, url : Urls \cup {"none"},
                         why : {"user", "auto", "timer"}, n : Tries]]
  /\ task \in [Urls -> Tries] /\ timers \in [Urls -> [1..MaxBackoff -> Nat]]
  /\ enabled \in BOOLEAN /\ monitor \in {"off", "normal", "background"}
  /\ lasting \subseteq Urls /\ forsaken \subseteq Urls
  /\ calls \in 0..MaxCalls /\ failures \in 0..MaxFailures

Connected(u) == wsMap[u] # NoSocket
Open(u) == Connected(u) /\ ws[wsMap[u]].st = "open"
Waiting(u) == {c \in Calls : call[c].pc = "joined" /\ call[c].url = u}
Plus(f, n) == [f EXCEPT ![n] = @ + 1]
Minus(f, n) == [f EXCEPT ![n] = @ - 1]
Later(n) == IF n < MaxBackoff THEN n + 1 ELSE n

(* #scheduleReconnect, once the socket table has its new value.            *)
Schedule(u) ==
  IF enabled /\ u \notin intentional /\ task[u] = 0
  THEN task' = [task EXCEPT ![u] = 1] /\ timers' = [timers EXCEPT ![u] = Plus(@, 1)]
  ELSE UNCHANGED retry

(* #clearReconnectTask: only the timer of the registered task is known.    *)
Cleared(u) == IF task[u] = 0 THEN timers ELSE [timers EXCEPT ![u] = Minus(@, task[u])]
ClearReconnectTask(u) == timers' = Cleared(u) /\ task' = [task EXCEPT ![u] = 0]

(* A server leaves the table; the monitor stops with the last one.         *)
Drop(u) ==
  /\ wsMap' = [wsMap EXCEPT ![u] = NoSocket]
  /\ monitor' = IF \A v \in Urls \ {u} : ~Connected(v) THEN "off" ELSE monitor

(* A connect() with auto: true leaves the mark of the user alone.          *)
(* Mutant: every connect() clears it.                                      *)
AlwaysUnmark(u, why) == intentional \ {u}
Unmark(u, why) == IF why = "auto" THEN intentional ELSE intentional \ {u}

(* connect() up to its first await.                                        *)
FreeCalls == {c \in Calls : call[c].pc = "free"}
Connect(u, why, n) ==
  /\ FreeCalls # {}
  /\ intentional' = Unmark(u, why)
  /\ IF why = "user" THEN down' = down \ {u} /\ spared' = spared \ {u} ELSE UNCHANGED <<down, spared>>
  /\ IF why = "timer" THEN TRUE ELSE ClearReconnectTask(u)
  /\ IF Open(u)
       THEN UNCHANGED <<wsMap, call>>
       ELSE /\ wsMap' = [wsMap EXCEPT ![u] = NoSocket]
            /\ call' = [call EXCEPT ![CHOOSE c \in FreeCalls : TRUE] =
                          [pc |-> "info", url |-> u, why |-> why, n |-> n]]
  /\ UNCHANGED <<ws, attempt, enabled, monitor, history, failures>>

UserConnects(u) == calls < MaxCalls /\ Connect(u, "user", 0) /\ calls' = calls + 1
(* connectAll, testLatency, #sendJsonCommand and #sendBinaryRelayCommand.  *)
OthersConnect(u) == calls < MaxCalls /\ Connect(u, "auto", 0) /\ calls' = calls + 1

(* The attempt for u ends and the callers C learn the result; those that   *)
(* #runReconnect made schedule the next attempt when it failed.            *)
ByTimer(C) == {c \in C : call[c].why = "timer"}
(* Mutant: a reconnection that fails is not scheduled again.               *)
NotAgain(C) == {}
Retrying(C) == {Later(call[c].n) : c \in ByTimer(C)}
Settle(u, C, ok) ==
  /\ attempt' = [attempt EXCEPT ![u] = NoAttempt]
  /\ call' = [c \in Calls |-> IF c \in C THEN NoCall ELSE call[c]]
  /\ IF ok
       THEN ClearReconnectTask(u)
       ELSE IF enabled /\ u \notin intentional /\ Retrying(C) # {}
       THEN /\ \E n \in Retrying(C) : task' = [task EXCEPT ![u] = n]
            /\ timers' = [timers EXCEPT ![u] =
                 [n \in 1..MaxBackoff |-> @[n] + Cardinality({c \in ByTimer(C) : Later(call[c].n) = n})]]
       ELSE UNCHANGED retry
  /\ forsaken' = IF ok THEN forsaken \ {u}
                 ELSE IF ByTimer(C) = {} /\ u \notin intentional THEN forsaken \cup {u}
                 ELSE forsaken
  /\ lasting' = IF ok THEN lasting \cup {u}
                ELSE IF ~enabled \/ \E c \in C : call[c].why = "user" THEN lasting \ {u}
                ELSE lasting

(* connect() continues after getInfo(): joins the attempt under way or     *)
(* starts one.                                                             *)
CallContinues(c) ==
  LET u == call[c].url IN
  /\ call[c].pc = "info"
  /\ IF attempt[u] # NoAttempt
       THEN /\ call' = [call EXCEPT ![c].pc = "joined"]
            /\ UNCHANGED <<attempt, retry, history>>
       ELSE IF u \in intentional
       THEN Settle(u, {c}, FALSE)
       ELSE /\ call' = [call EXCEPT ![c].pc = "joined"]
            /\ attempt' = [attempt EXCEPT ![u] = [NoAttempt EXCEPT !.pc = "info", !.left = Retries]]
            /\ UNCHANGED <<retry, history>>
  /\ UNCHANGED <<ws, wsMap, marks, enabled, monitor, calls, failures>>

(* The retry loop takes up the next attempt, unless the user disconnected. *)
PauseEnds(u) ==
  /\ attempt[u].pc = "pause"
  /\ IF u \in intentional
       THEN Settle(u, Waiting(u), FALSE)
       ELSE attempt' = [attempt EXCEPT ![u].pc = "info"] /\ UNCHANGED <<call, retry, history>>
  /\ UNCHANGED <<ws, wsMap, marks, enabled, monitor, calls, failures>>

OpenSocket(u) ==
  /\ attempt[u].pc = "info" /\ (\E s \in Sockets : ws[s] = Unused)
  /\ LET s == CHOOSE s \in Sockets : ws[s] = Unused IN
       /\ ws' = [ws EXCEPT ![s] = [url |-> u, st |-> "shaking", up |-> FALSE]]
       /\ attempt' = [attempt EXCEPT ![u].pc = "shake", ![u].sock = s]
  /\ UNCHANGED <<wsMap, marks, call, retry, enabled, monitor, history, calls, failures>>

(* The last handshake message: {type: "handshake", status: "success"}.     *)
HandshakeSucceeds(u) ==
  LET s == attempt[u].sock IN
  /\ attempt[u].pc = "shake"
  /\ IF u \in intentional
       THEN /\ ws' = [ws EXCEPT ![s].st = "closing", ![s].up = TRUE]
            /\ Settle(u, Waiting(u), FALSE)
            /\ UNCHANGED <<wsMap, intentional, monitor>>
       ELSE /\ ws' = [ws EXCEPT ![s].st = "open", ![s].up = TRUE]
            /\ wsMap' = [wsMap EXCEPT ![u] = s]
            /\ intentional' = intentional \ {u}
            /\ monitor' = IF monitor = "off" THEN "normal" ELSE monitor
            /\ Settle(u, Waiting(u), TRUE)
  /\ UNCHANGED <<down, spared, enabled, calls, failures>>

(* Refused, malformed, an error, a close or the timeout of 30 seconds.     *)
HandshakeFails(u) ==
  /\ attempt[u].pc = "shake" /\ failures < MaxFailures
  /\ failures' = failures + 1
  /\ ws' = [ws EXCEPT ![attempt[u].sock].st = "closed"]
  /\ IF attempt[u].left > 0 /\ u \notin intentional
       THEN /\ attempt' = [attempt EXCEPT ![u] = [pc |-> "pause", left |-> @.left - 1,
                                                  sock |-> NoSocket]]
            /\ UNCHANGED <<call, retry, history>>
       ELSE Settle(u, Waiting(u), FALSE)
  /\ UNCHANGED <<wsMap, marks, enabled, monitor, calls>>

(* onclose of an established socket.                                       *)
Closes(s) ==
  LET u == ws[s].url IN
  /\ ws[s].up /\ ws[s].st \in {"open", "closing"}
  /\ IF ws[s].st = "open" THEN failures < MaxFailures /\ failures' = failures + 1 ELSE UNCHANGED failures
  /\ ws' = [ws EXCEPT ![s].st = "closed"]
  /\ IF wsMap[u] # s
       THEN UNCHANGED <<wsMap, monitor, retry, lasting>>
       ELSE /\ Drop(u)
            /\ Schedule(u)
            /\ lasting' = IF enabled THEN lasting ELSE lasting \ {u}
  /\ UNCHANGED <<marks, attempt, call, enabled, forsaken, calls>>

(* #resetStaleConnection, when a relayed message went unanswered.          *)
ResetStaleConnection(u) ==
  /\ Open(u) /\ failures < MaxFailures
  /\ failures' = failures + 1
  /\ ws' = [ws EXCEPT ![wsMap[u]].st = "closing"]
  /\ UNCHANGED <<wsMap, marks, attempt, call, retry, enabled, monitor, history, calls>>

(* sendToServer finds the connection not open.                             *)
SendToServerFails(u) ==
  /\ ~Open(u) /\ calls < MaxCalls
  /\ calls' = calls + 1
  /\ Schedule(u)
  /\ UNCHANGED <<ws, wsMap, marks, attempt, call, enabled, monitor, history, failures>>

Disconnect(u) ==
  /\ calls < MaxCalls
  /\ calls' = calls + 1
  /\ intentional' = intentional \cup {u} /\ down' = down \cup {u} /\ spared' = spared \ {u}
  /\ lasting' = lasting \ {u}
  /\ ClearReconnectTask(u)
  /\ IF Connected(u)
       THEN Drop(u) /\ ws' = [ws EXCEPT ![wsMap[u]].st = "closing"]
       ELSE UNCHANGED <<ws, wsMap, monitor>>
  /\ UNCHANGED <<attempt, call, enabled, forsaken, failures>>

(* Only the servers in the table are marked and lose their tasks: an       *)
(* attempt, a call or a timer for another server is not told.              *)
DisconnectAll ==
  LET U == {u \in Urls : Connected(u)} IN
  /\ calls < MaxCalls
  /\ calls' = calls + 1
  /\ intentional' = intentional \cup U /\ down' = Urls
  /\ spared' = Urls \ intentional'
  /\ lasting' = lasting \ U
  /\ timers' = [u \in Urls |-> IF u \in U THEN Cleared(u)[u] ELSE timers[u]]
  /\ task' = [u \in Urls |-> IF u \in U THEN 0 ELSE task[u]]
  /\ wsMap' = [u \in Urls |-> NoSocket]
  /\ ws' = [s \in Sockets |-> IF \E u \in U : wsMap[u] = s
                              THEN [ws[s] EXCEPT !.st = "closing"] ELSE ws[s]]
  /\ monitor' = IF U = {} THEN monitor ELSE "off"
  /\ UNCHANGED <<attempt, call, enabled, forsaken, failures>>

SetAutoReconnect ==
  /\ calls < MaxCalls
  /\ calls' = calls + 1
  /\ enabled' = ~enabled
  /\ IF enabled
       THEN /\ timers' = [u \in Urls |-> Cleared(u)[u]]
            /\ task' = [u \in Urls |-> 0]
            /\ lasting' = {u \in lasting : Connected(u)}
       ELSE UNCHANGED <<retry, lasting>>
  /\ UNCHANGED <<ws, wsMap, marks, attempt, call, monitor, forsaken, failures>>

(* #runReconnect.  It removes whatever task is registered.                 *)
RunReconnect(u, n) ==
  /\ timers[u][n] > 0
  /\ timers' = [timers EXCEPT ![u] = Minus(@, n)]
  /\ task' = [task EXCEPT ![u] = 0]
  /\ UNCHANGED calls
  /\ IF u \in intentional \/ ~enabled
       THEN UNCHANGED <<ws, wsMap, marks, attempt, call, enabled, monitor, history, failures>>
       ELSE Connect(u, "timer", n)

SwitchMonitor(v) ==
  /\ calls < MaxCalls
  /\ calls' = calls + 1
  /\ monitor' = v
  /\ UNCHANGED <<ws, wsMap, marks, attempt, call, retry, enabled, history, failures>>
StartLatencyMonitor == SwitchMonitor("normal")
StopLatencyMonitor == SwitchMonitor("off")
HandleVisibilityChange ==
  monitor # "off" /\ \E v \in {"normal", "background"} : SwitchMonitor(v)

Init ==
  /\ ws = [s \in Sockets |-> Unused]
  /\ wsMap = [u \in Urls |-> NoSocket]
  /\ intentional = {} /\ down = {} /\ spared = {} /\ lasting = {} /\ forsaken = {}
  /\ attempt = [u \in Urls |-> NoAttempt]
  /\ call = [c \in Calls |-> NoCall]
  /\ task = [u \in Urls |-> 0]
  /\ timers = [u \in Urls |-> [n \in 1..MaxBackoff |-> 0]]
  /\ enabled = TRUE /\ monitor = "off"
  /\ calls = 0 /\ failures = 0

Next ==
  \/ \E u \in Urls : UserConnects(u) \/ OthersConnect(u) \/ PauseEnds(u) \/ OpenSocket(u)
                     \/ HandshakeSucceeds(u) \/ HandshakeFails(u)
                     \/ ResetStaleConnection(u) \/ SendToServerFails(u) \/ Disconnect(u)
  \/ \E c \in Calls : CallContinues(c)
  \/ \E s \in Sockets : Closes(s)
  \/ \E u \in Urls, n \in 1..MaxBackoff : RunReconnect(u, n)
  \/ DisconnectAll \/ SetAutoReconnect
  \/ StartLatencyMonitor \/ StopLatencyMonitor \/ HandleVisibilityChange

Spec == Init /\ [][Next]_connVars

(* What the user disconnected stays down until the user connects it again, *)
(* whatever attempt, timer or background task was under way (server.js:51, *)
(* :214, :316, :1180); but for servers that disconnectAll did not mark,    *)
(* because they were not connected at that moment (:1124): an attempt under*)
(* way there connects, against the comments at :163 and :313.              *)
DownStaysDown ==
  /\ down \ spared \subseteq intentional
  /\ \A u \in intentional : ~Connected(u)

(* A server that was connected and that nobody gave up is connected, on the*)
(* way, or has a reconnect timer running (server.js:49), unless a connect()*)
(* made for another purpose dropped the connection or the timer and failed.*)
OnTheWay(u) ==
  \/ Connected(u) \/ attempt[u] # NoAttempt
  \/ \E n \in 1..MaxBackoff : timers[u][n] > 0
  \/ \E c \in Calls : call[c].pc = "info" /\ call[c].url = u
KeptUp == enabled => \A u \in lasting \ forsaken : OnTheWay(u)
=============================================================================
