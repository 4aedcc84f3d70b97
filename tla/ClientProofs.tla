---------------------------- MODULE ClientProofs ----------------------------
(***************************************************************************)
(* Proofs about the parts of the client that connect it to servers and, by *)
(* a channel or over a server, to other sessions: ServerConnections, for   *)
(* any servers, sockets, calls under way and numbers of retries and        *)
(* failures; RtcNegotiation, for any numbers of connections and            *)
(* disturbances; ServerRouting, for any servers, messages and disturbances;*)
(* ServiceDiscovery, for any sessions, lookups and changes; and the four   *)
(* together (MCClient).                                                    *)
(***************************************************************************)
EXTENDS MCClient, FiniteSetTheorems, SequenceTheorems, WellFoundedInduction, TLAPS

(***************************************************************************)
(* ServerConnections.                                                      *)
(***************************************************************************)
(* The retries: the timer of a registered task runs, and others may.       *)
RetryOK ==
  /\ task \in [Urls -> Tries] /\ timers \in [Urls -> [1..MaxBackoff -> Nat]]
  /\ \A u \in Urls : task[u] # 0 => timers[u][task[u]] > 0

(* Sockets and calls are those of a server; an attempt that shakes hands   *)
(* has its own socket.                                                     *)
Addressed ==
  /\ \A s \in Sockets : ws[s].up => ws[s].url \in Urls
  /\ \A c \in Calls : call[c].pc # "free" => call[c].url \in Urls
Shaking ==
  \A u \in Urls : attempt[u].pc = "shake" =>
    attempt[u].sock \in Sockets /\ ws[attempt[u].sock].url = u /\ ws[attempt[u].sock].st # "new"

(* What should stay up was not disconnected; without automatic repair, no  *)
(* timer counts for it.                                                    *)
Wanted == lasting \cap intentional = {}
Asking(u) == \E c \in Calls : call[c].pc = "info" /\ call[c].url = u
Timed(u) == \E n \in 1..MaxBackoff : timers[u][n] > 0
Held(u) == Connected(u) \/ attempt[u] # NoAttempt \/ (enabled /\ Timed(u)) \/ Asking(u)
Kept == \A u \in lasting \ forsaken : Held(u)

ConnectionsInv == TypeOK /\ RetryOK /\ Addressed /\ Shaking /\ DownStaysDown /\ Wanted /\ Kept

------------------------------------------------------------------------------
(* What the helpers do to the retries.                                     *)

LEMMA PlusMinus ==
  ASSUME NEW f \in [1..MaxBackoff -> Nat], NEW n \in 1..MaxBackoff
  PROVE  /\ Plus(f, n) \in [1..MaxBackoff -> Nat] /\ Plus(f, n)[n] > 0
         /\ \A k \in 1..MaxBackoff : f[k] > 0 => Plus(f, n)[k] > 0
         /\ f[n] > 0 => Minus(f, n) \in [1..MaxBackoff -> Nat]
         /\ \A k \in (1..MaxBackoff) \ {n} : Minus(f, n)[k] = f[k]
<1>1. Plus(f, n) = [f EXCEPT ![n] = f[n] + 1] /\ Minus(f, n) = [f EXCEPT ![n] = f[n] - 1]
  BY DEF Plus, Minus
<1>2. f[n] \in Nat /\ f[n] + 1 \in Nat /\ f[n] + 1 > 0 /\ (f[n] > 0 => f[n] - 1 \in Nat)
  OBVIOUS
<1> QED BY <1>1, <1>2

LEMMA ClearedIs ==
  ASSUME RetryOK, NEW u \in Urls
  PROVE  /\ Cleared(u) \in [Urls -> [1..MaxBackoff -> Nat]]
         /\ \A v \in Urls \ {u} : Cleared(u)[v] = timers[v]
<1>1. CASE task[u] = 0
  BY <1>1 DEF Cleared, RetryOK
<1>2. CASE task[u] # 0
  <2>1. task[u] \in 1..MaxBackoff /\ timers[u] \in [1..MaxBackoff -> Nat] /\ timers[u][task[u]] > 0
    BY <1>2, ConnectionsAssumption DEF RetryOK, Tries
  <2>2. Minus(timers[u], task[u]) \in [1..MaxBackoff -> Nat]
    BY <2>1, PlusMinus
  <2>3. Cleared(u) = [timers EXCEPT ![u] = Minus(timers[u], task[u])]
    BY <1>2 DEF Cleared
  <2> QED BY <2>2, <2>3 DEF RetryOK
<1> QED BY <1>1, <1>2

LEMMA ClearKeeps ==
  ASSUME RetryOK, NEW u \in Urls, ClearReconnectTask(u)
  PROVE  RetryOK' /\ \A v \in Urls \ {u} : timers'[v] = timers[v]
<1>1. /\ timers' \in [Urls -> [1..MaxBackoff -> Nat]]
      /\ \A v \in Urls \ {u} : timers'[v] = timers[v]
  BY ClearedIs DEF ClearReconnectTask
<1>2. task' \in [Urls -> Tries] /\ task'[u] = 0 /\ \A v \in Urls \ {u} : task'[v] = task[v]
  BY ConnectionsAssumption DEF ClearReconnectTask, RetryOK, Tries
<1> QED BY <1>1, <1>2 DEF RetryOK

LEMMA ScheduleKeeps ==
  ASSUME RetryOK, NEW u \in Urls, Schedule(u)
  PROVE  /\ RetryOK' /\ \A v \in Urls : Timed(v) => Timed(v)'
         /\ enabled /\ u \notin intentional => Timed(u)'
<1>1. CASE enabled /\ u \notin intentional /\ task[u] = 0
  <2>1. /\ 1 \in 1..MaxBackoff /\ 1 \in Tries /\ timers[u] \in [1..MaxBackoff -> Nat]
    BY ConnectionsAssumption DEF RetryOK, Tries
  <2>2. task' = [task EXCEPT ![u] = 1] /\ timers' = [timers EXCEPT ![u] = Plus(timers[u], 1)]
    BY <1>1 DEF Schedule
  <2>3. /\ Plus(timers[u], 1) \in [1..MaxBackoff -> Nat] /\ Plus(timers[u], 1)[1] > 0
        /\ \A n \in 1..MaxBackoff : timers[u][n] > 0 => Plus(timers[u], 1)[n] > 0
    BY <2>1, PlusMinus
  <2>4. RetryOK'
    BY <2>1, <2>2, <2>3 DEF RetryOK
  <2>5. Timed(u)' /\ \A v \in Urls : Timed(v) => Timed(v)'
    BY <2>1, <2>2, <2>3 DEF Timed, RetryOK
  <2> QED BY <2>4, <2>5
<1>2. CASE ~(enabled /\ u \notin intentional /\ task[u] = 0)
  <2>1. task' = task /\ timers' = timers
    BY <1>2 DEF Schedule, retry
  <2>2. RetryOK' /\ \A v \in Urls : Timed(v) => Timed(v)'
    BY <2>1 DEF RetryOK, Timed
  <2>3. ASSUME enabled, u \notin intentional PROVE Timed(u)'
    <3>1. task[u] \in 1..MaxBackoff /\ timers[u][task[u]] > 0
      BY <1>2, <2>3, ConnectionsAssumption DEF RetryOK, Tries
    <3> QED BY <3>1, <2>1 DEF Timed
  <2> QED BY <2>2, <2>3
<1> QED BY <1>1, <1>2

LEMMA LaterIs == ASSUME NEW n \in Tries PROVE Later(n) \in 1..MaxBackoff
BY ConnectionsAssumption DEF Tries, Later

------------------------------------------------------------------------------
(* An attempt that settles.                                                *)

LEMMA SettleRetries ==
  ASSUME TypeOK, RetryOK, NEW u \in Urls, NEW C \in SUBSET Calls, NEW ok \in BOOLEAN,
         Settle(u, C, ok)
  PROVE  /\ RetryOK' /\ \A v \in Urls \ {u} : timers'[v] = timers[v]
         /\ ~ok /\ enabled /\ u \notin intentional /\ ByTimer(C) # {} => Timed(u)'
<1> DEFINE New(n) == {c \in ByTimer(C) : Later(call[c].n) = n}
<1>1. \A c \in Calls : call[c].n \in Tries /\ Later(call[c].n) \in 1..MaxBackoff
  BY LaterIs DEF TypeOK
<1>2. ByTimer(C) \subseteq Calls
  BY DEF ByTimer
<1>3. ASSUME NEW n \in 1..MaxBackoff
      PROVE  Cardinality(New(n)) \in Nat /\ (n \in Retrying(C) => Cardinality(New(n)) > 0)
  <2>1. IsFiniteSet(New(n))
    BY <1>2, FS_Subset, ConnectionsAssumption
  <2>2. Cardinality(New(n)) \in Nat /\ (Cardinality(New(n)) = 0 <=> New(n) = {})
    BY <2>1, FS_CardinalityType, FS_EmptySet
  <2>3. n \in Retrying(C) => New(n) # {}
    BY DEF Retrying
  <2> QED BY <2>2, <2>3
<1>4. CASE ok
  BY <1>4, ClearKeeps DEF Settle
<1>5. CASE ~ok /\ enabled /\ u \notin intentional /\ Retrying(C) # {}
  <2>1. PICK n \in Retrying(C) : task' = [task EXCEPT ![u] = n]
    BY <1>5 DEF Settle
  <2>2. timers' = [timers EXCEPT ![u] = [k \in 1..MaxBackoff |-> timers[u][k] + Cardinality(New(k))]]
    BY <1>5 DEF Settle
  <2>3. n \in 1..MaxBackoff /\ n \in Tries
    BY <1>1, <1>2, ConnectionsAssumption DEF Retrying, Tries
  <2>4. \A k \in 1..MaxBackoff : timers[u][k] \in Nat
    BY DEF RetryOK
  <2>5. /\ timers'[u] = [k \in 1..MaxBackoff |-> timers[u][k] + Cardinality(New(k))]
        /\ \A v \in Urls \ {u} : timers'[v] = timers[v]
        /\ DOMAIN timers' = Urls /\ timers' = [v \in Urls |-> timers'[v]]
    BY <2>2 DEF RetryOK
  <2> HIDE DEF New
  <2>6. timers'[u] \in [1..MaxBackoff -> Nat] /\ timers'[u][n] > 0
    BY <1>3, <2>1, <2>3, <2>4, <2>5
  <2>7. timers' \in [Urls -> [1..MaxBackoff -> Nat]]
    BY <2>5, <2>6 DEF RetryOK
  <2>8. /\ task' \in [Urls -> Tries] /\ task'[u] = n
        /\ \A v \in Urls \ {u} : task'[v] = task[v]
    BY <2>1, <2>3 DEF RetryOK
  <2>9. RetryOK'
    BY <2>5, <2>6, <2>7, <2>8 DEF RetryOK
  <2>10. Timed(u)'
    BY <2>3, <2>6 DEF Timed
  <2> QED BY <2>5, <2>9, <2>10
<1>6. CASE ~ok /\ ~(enabled /\ u \notin intentional /\ Retrying(C) # {})
  <2>1. task' = task /\ timers' = timers
    BY <1>6 DEF Settle, retry
  <2>2. ByTimer(C) # {} => Retrying(C) # {}
    BY DEF Retrying
  <2> QED BY <1>6, <2>1, <2>2 DEF RetryOK
<1> QED BY <1>4, <1>5, <1>6

LEMMA SettleTypes ==
  ASSUME TypeOK, Addressed, NEW u \in Urls, NEW C \in SUBSET Calls, NEW ok \in BOOLEAN,
         Settle(u, C, ok)
  PROVE  /\ attempt' \in [Urls -> [pc : {"none", "pause", "info", "shake"}, left : 0..Retries,
                                   sock : Sockets \cup {NoSocket}]]
         /\ call' \in [Calls -> [pc : {"free", "info", "joined"}, url : Urls \cup {"none"},
                                  why : {"user", "auto", "timer"}, n : Tries]]
         /\ lasting' \subseteq Urls /\ forsaken' \subseteq Urls
         /\ \A c \in Calls : call'[c].pc # "free" => call'[c].url \in Urls
         /\ attempt'[u].pc = "none" /\ \A v \in Urls \ {u} : attempt'[v] = attempt[v]
<1>1. NoAttempt \in [pc : {"none", "pause", "info", "shake"}, left : 0..Retries,
                     sock : Sockets \cup {NoSocket}] /\ NoAttempt.pc = "none"
  BY ConnectionsAssumption DEF NoAttempt
<1>2. /\ NoCall.pc = "free"
      /\ NoCall \in [pc : {"free", "info", "joined"}, url : Urls \cup {"none"},
                      why : {"user", "auto", "timer"}, n : Tries]
  BY ConnectionsAssumption DEF NoCall, Tries
<1>3. /\ attempt' = [attempt EXCEPT ![u] = NoAttempt]
      /\ call' = [c \in Calls |-> IF c \in C THEN NoCall ELSE call[c]]
  BY DEF Settle
<1>4. lasting' \subseteq Urls /\ forsaken' \subseteq Urls
  BY DEF Settle, TypeOK
<1>5. /\ attempt' \in [Urls -> [pc : {"none", "pause", "info", "shake"}, left : 0..Retries,
                                sock : Sockets \cup {NoSocket}]]
      /\ attempt'[u].pc = "none" /\ \A v \in Urls \ {u} : attempt'[v] = attempt[v]
  BY <1>1, <1>3 DEF TypeOK
<1>6. call' \in [Calls -> [pc : {"free", "info", "joined"}, url : Urls \cup {"none"},
                           why : {"user", "auto", "timer"}, n : Tries]]
  BY <1>2, <1>3 DEF TypeOK
<1>7. \A c \in Calls : call'[c].pc # "free" => call'[c].url \in Urls
  BY <1>2, <1>3 DEF Addressed
<1> QED BY <1>4, <1>5, <1>6, <1>7

(* The callers of an attempt for u learn how it ended.                     *)
LEMMA SettleKeepsKept ==
  ASSUME ConnectionsInv, NEW u \in Urls, NEW C \in SUBSET Calls, NEW ok \in BOOLEAN, Settle(u, C, ok),
         \A c \in C : call[c].url = u,
         enabled' = enabled, ok => Connected(u)',
         \A v \in Urls \ {u} : Connected(v) => Connected(v)'
  PROVE  Kept'
<1> SUFFICES ASSUME NEW v \in lasting' \ forsaken' PROVE Held(v)'
  BY DEF Kept
<1>1. v \in Urls
  BY SettleTypes DEF ConnectionsInv
<1>2. CASE v # u
  <2>1. v \in lasting \ forsaken
    BY <1>2 DEF Settle
  <2>2. Held(v)
    BY <2>1 DEF ConnectionsInv, Kept
  <2>3. /\ \A w \in Urls \ {u} : attempt'[w] = attempt[w]
        /\ \A w \in Urls \ {u} : timers'[w] = timers[w]
    <3>1. TypeOK /\ RetryOK /\ attempt' = [attempt EXCEPT ![u] = NoAttempt]
      BY DEF ConnectionsInv, Settle
    <3>2. \A w \in Urls \ {u} : timers'[w] = timers[w]
      BY <3>1, SettleRetries
    <3>3. \A w \in Urls \ {u} : attempt'[w] = attempt[w]
      BY <3>1 DEF TypeOK
    <3> QED BY <3>2, <3>3
  <2>4. Asking(v) => Asking(v)'
    <3> SUFFICES ASSUME NEW c \in Calls, call[c].pc = "info", call[c].url = v PROVE Asking(v)'
      BY DEF Asking
    <3>1. call'[c] = call[c]
      BY <1>2 DEF Settle
    <3> QED BY <3>1 DEF Asking
  <2>5. Connected(v) => Connected(v)'
    BY <1>1, <1>2
  <2> QED BY <1>1, <1>2, <2>2, <2>3, <2>4, <2>5 DEF Held, Timed
<1>3. CASE v = u
  <2>1. CASE ok
    BY <1>3, <2>1 DEF Held
  <2>2. CASE ~ok
    <3>1. u \in lasting /\ enabled /\ (ByTimer(C) # {} \/ u \in intentional)
      BY <1>3, <2>2 DEF Settle
    <3>2. u \notin intentional
      BY <3>1 DEF ConnectionsInv, Wanted
    <3>3. Timed(u)'
      BY <2>2, <3>1, <3>2, SettleRetries DEF ConnectionsInv
    <3> QED BY <1>3, <3>1, <3>3 DEF Held
  <2> QED BY <2>1, <2>2
<1> QED BY <1>2, <1>3
------------------------------------------------------------------------------
(* The actions.  Each lemma leaves out what the action does not touch.     *)

LEMMA ConnectKeeps ==
  ASSUME ConnectionsInv, NEW u \in Urls, NEW why \in {"user", "auto", "timer"}, NEW n \in Tries,
         Connect(u, why, n), why = "timer" => u \notin intentional /\ RetryOK',
         why = "timer" => \A v \in Urls \ {u} : timers'[v] = timers[v],
         calls' \in 0..MaxCalls
  PROVE  ConnectionsInv'
<1>1. RetryOK' /\ \A v \in Urls \ {u} : timers'[v] = timers[v]
  <2>1. CASE why = "timer"
    BY <2>1
  <2>2. CASE why # "timer"
    BY <2>2, ClearKeeps DEF Connect, ConnectionsInv
  <2> QED BY <2>1, <2>2
<1>2. /\ ws' = ws /\ attempt' = attempt /\ enabled' = enabled /\ monitor' = monitor
      /\ lasting' = lasting /\ forsaken' = forsaken /\ failures' = failures
  BY DEF Connect, history
<1>3. /\ intentional' \subseteq intentional /\ down' \ spared' \subseteq intentional'
      /\ down' \subseteq down /\ spared' \subseteq spared
      /\ \A v \in intentional' : v \in intentional
  BY DEF Connect, Unmark, ConnectionsInv, DownStaysDown
<1> DEFINE c0 == CHOOSE c \in FreeCalls : TRUE
<1>4. c0 \in Calls /\ call[c0].pc = "free"
  BY DEF Connect, FreeCalls
<1>5. CASE Open(u)
  <2>1. wsMap' = wsMap /\ call' = call
    BY <1>5 DEF Connect
  <2>2. TypeOK'
    <3>1. intentional' \subseteq Urls /\ down' \subseteq Urls /\ spared' \subseteq Urls
      BY <1>3 DEF ConnectionsInv, TypeOK
    <3> QED BY <1>1, <1>2, <2>1, <3>1 DEF ConnectionsInv, TypeOK, RetryOK
  <2>3. Addressed' /\ Shaking' /\ Wanted' /\ DownStaysDown'
    BY <1>2, <1>3, <2>1 DEF ConnectionsInv, Addressed, Shaking, Wanted, DownStaysDown, Connected
  <2>4. Kept'
    <3> SUFFICES ASSUME NEW v \in lasting \ forsaken PROVE Held(v)'
      BY <1>2 DEF Kept
    <3>1. v \in Urls /\ Held(v)
      BY DEF ConnectionsInv, TypeOK, Kept
    <3>2. CASE v = u
      BY <1>5, <2>1, <3>2 DEF Held, Open, Connected
    <3>3. CASE v # u
      BY <1>1, <1>2, <2>1, <3>1, <3>3 DEF Held, Connected, Timed, Asking
    <3> QED BY <3>2, <3>3
  <2> QED BY <1>1, <2>2, <2>3, <2>4 DEF ConnectionsInv
<1>6. CASE ~Open(u)
  <2>1. /\ wsMap' = [wsMap EXCEPT ![u] = NoSocket]
        /\ call' = [call EXCEPT ![c0] = [pc |-> "info", url |-> u, why |-> why, n |-> n]]
    BY <1>6 DEF Connect
  <2> HIDE DEF c0
  <2>2. /\ wsMap' \in [Urls -> Sockets \cup {NoSocket}]
        /\ wsMap'[u] = NoSocket /\ \A v \in Urls \ {u} : wsMap'[v] = wsMap[v]
    BY <2>1 DEF ConnectionsInv, TypeOK
  <2>3. /\ call' \in [Calls -> [pc : {"free", "info", "joined"}, url : Urls \cup {"none"},
                                why : {"user", "auto", "timer"}, n : Tries]]
        /\ call'[c0].pc = "info" /\ call'[c0].url = u
        /\ \A c \in Calls \ {c0} : call'[c] = call[c]
    BY <1>4, <2>1 DEF ConnectionsInv, TypeOK
  <2>4. TypeOK'
    <3>1. intentional' \subseteq Urls /\ down' \subseteq Urls /\ spared' \subseteq Urls
      BY <1>3 DEF ConnectionsInv, TypeOK
    <3> QED BY <1>1, <1>2, <2>2, <2>3, <3>1 DEF ConnectionsInv, TypeOK, RetryOK
  <2>5. Addressed' /\ Shaking' /\ Wanted'
    BY <1>2, <1>3, <2>3 DEF ConnectionsInv, Addressed, Shaking, Wanted
  <2>6. DownStaysDown'
    <3>1. \A v \in intentional' : v \in Urls /\ ~Connected(v)
      BY <1>3 DEF ConnectionsInv, TypeOK, DownStaysDown
    <3> QED BY <1>3, <2>2, <3>1 DEF DownStaysDown, Connected
  <2>7. Kept'
    <3> SUFFICES ASSUME NEW v \in lasting \ forsaken PROVE Held(v)'
      BY <1>2 DEF Kept
    <3>1. v \in Urls /\ Held(v)
      BY DEF ConnectionsInv, TypeOK, Kept
    <3>2. CASE v = u
      BY <1>4, <2>3, <3>2 DEF Held, Asking
    <3>3. CASE v # u
      <4>1. Asking(v) => Asking(v)'
        BY <1>4, <2>3 DEF Asking
      <4> QED BY <1>1, <1>2, <2>2, <3>1, <3>3, <4>1 DEF Held, Connected, Timed
    <3> QED BY <3>2, <3>3
  <2> QED BY <1>1, <2>4, <2>5, <2>6, <2>7 DEF ConnectionsInv
<1> QED BY <1>5, <1>6

(* An attempt ends, with or without a connection, and nothing else happens *)
(* but to its socket.                                                      *)
SocketKept(s) ==
  /\ ws'[s].url = ws[s].url /\ (ws[s].st # "new" => ws'[s].st # "new")
  /\ ws'[s].up => ws[s].url \in Urls

LEMMA SettleKeeps ==
  ASSUME ConnectionsInv, NEW u \in Urls, NEW C \in SUBSET Calls, NEW ok \in BOOLEAN, Settle(u, C, ok),
         \A c \in C : call[c].url = u,
         ws' \in [Sockets -> [url : Urls \cup {"none"}, up : BOOLEAN,
                             st : {"new", "shaking", "open", "closing", "closed"}]],
         \A s \in Sockets : SocketKept(s),
         enabled' = enabled, monitor' \in {"off", "normal", "background"}, down' = down, spared' = spared,
         calls' = calls, failures' \in 0..MaxFailures,
         ~ok => wsMap' = wsMap /\ intentional' = intentional,
         ok => \E s \in Sockets : wsMap' = [wsMap EXCEPT ![u] = s],
         ok => u \notin intentional /\ intentional' = intentional \ {u}
  PROVE  ConnectionsInv'
<1>1. /\ wsMap' \in [Urls -> Sockets \cup {NoSocket}] /\ (ok => Connected(u)')
      /\ \A v \in Urls \ {u} : wsMap'[v] = wsMap[v]
  <2>1. wsMap \in [Urls -> Sockets \cup {NoSocket}]
    BY DEF ConnectionsInv, TypeOK
  <2>2. CASE ok
    <3>1. PICK s \in Sockets : wsMap' = [wsMap EXCEPT ![u] = s]
      BY <2>2
    <3> QED BY <2>1, <3>1, ConnectionsAssumption DEF Connected
  <2>3. CASE ~ok
    BY <2>1, <2>3
  <2> QED BY <2>2, <2>3
<1>2. intentional' = intentional
  BY DEF ConnectionsInv
<1>3. TypeOK /\ RetryOK /\ Addressed /\ Shaking /\ DownStaysDown /\ Wanted
  BY DEF ConnectionsInv
<1>4. RetryOK'
  BY <1>3, SettleRetries
<1>5. /\ attempt' \in [Urls -> [pc : {"none", "pause", "info", "shake"}, left : 0..Retries,
                                sock : Sockets \cup {NoSocket}]]
      /\ call' \in [Calls -> [pc : {"free", "info", "joined"}, url : Urls \cup {"none"},
                              why : {"user", "auto", "timer"}, n : Tries]]
      /\ lasting' \subseteq Urls /\ forsaken' \subseteq Urls
  BY <1>3, SettleTypes
<1>6. \A c \in Calls : call'[c].pc # "free" => call'[c].url \in Urls
  BY <1>3, SettleTypes
<1>7. attempt'[u].pc = "none" /\ \A v \in Urls \ {u} : attempt'[v] = attempt[v]
  <2>1. attempt' = [attempt EXCEPT ![u] = NoAttempt] /\ NoAttempt.pc = "none"
    BY DEF Settle, NoAttempt
  <2> QED BY <1>3, <2>1 DEF TypeOK
<1>8. TypeOK'
  BY <1>1, <1>2, <1>3, <1>4, <1>5 DEF TypeOK, RetryOK
<1>9. Addressed'
  <2>1. \A s \in Sockets : ws'[s].up => ws'[s].url \in Urls
    BY DEF SocketKept
  <2> QED BY <1>6, <2>1 DEF Addressed
<1>10. Shaking'
  <2> SUFFICES ASSUME NEW v \in Urls, attempt'[v].pc = "shake"
               PROVE  /\ attempt'[v].sock \in Sockets /\ ws'[attempt'[v].sock].url = v
                      /\ ws'[attempt'[v].sock].st # "new"
    BY DEF Shaking
  <2>1. attempt'[v] = attempt[v]
    BY <1>7
  <2>2. /\ attempt[v].sock \in Sockets /\ ws[attempt[v].sock].url = v
        /\ ws[attempt[v].sock].st # "new"
    BY <1>3, <2>1 DEF Shaking
  <2> QED BY <2>1, <2>2 DEF SocketKept
<1>11. DownStaysDown'
  <2>1. \A v \in intentional : v \in Urls /\ ~Connected(v)
    BY <1>3 DEF TypeOK, DownStaysDown
  <2>2. ASSUME NEW v \in intentional PROVE ~Connected(v)'
    <3>1. wsMap'[v] = wsMap[v]
      BY <1>1, <2>1
    <3> QED BY <2>1, <3>1 DEF Connected
  <2> QED BY <1>2, <1>3, <2>2 DEF DownStaysDown
<1>12. Wanted'
  <2>1. lasting' \subseteq lasting \cup {u} /\ (~ok => lasting' \subseteq lasting)
    BY DEF Settle
  <2> QED BY <1>2, <1>3, <2>1 DEF Wanted
<1>13. Kept'
  <2>1. \A v \in Urls \ {u} : Connected(v) => Connected(v)'
    BY <1>1 DEF Connected
  <2> QED BY <1>1, <2>1, SettleKeepsKept
<1> QED BY <1>4, <1>8, <1>9, <1>10, <1>11, <1>12, <1>13 DEF ConnectionsInv

LEMMA PauseEndsKeeps ==
  ASSUME ConnectionsInv, NEW u \in Urls, PauseEnds(u)
  PROVE  ConnectionsInv'
<1>1. /\ ws' = ws /\ wsMap' = wsMap /\ intentional' = intentional /\ down' = down /\ spared' = spared
      /\ enabled' = enabled /\ monitor' = monitor /\ calls' = calls /\ failures' = failures
  BY DEF PauseEnds, marks
<1>2. CASE u \in intentional
  <2>1. Settle(u, Waiting(u), FALSE)
    BY <1>2 DEF PauseEnds
  <2>2. Waiting(u) \subseteq Calls /\ \A c \in Waiting(u) : call[c].url = u
    BY DEF Waiting
  <2>3. \A s \in Sockets : SocketKept(s)
    BY <1>1 DEF SocketKept, ConnectionsInv, Addressed
  <2>4. TypeOK
    BY DEF ConnectionsInv
  <2> QED BY <1>1, <2>1, <2>2, <2>3, <2>4, SettleKeeps DEF TypeOK
<1>3. CASE u \notin intentional
  <2>1. /\ attempt' = [attempt EXCEPT ![u].pc = "info"] /\ call' = call /\ task' = task
        /\ timers' = timers /\ lasting' = lasting /\ forsaken' = forsaken
    BY <1>3 DEF PauseEnds, retry, history
  <2>2. /\ attempt' \in [Urls -> [pc : {"none", "pause", "info", "shake"}, left : 0..Retries,
                                  sock : Sockets \cup {NoSocket}]]
        /\ attempt'[u].pc = "info" /\ \A v \in Urls \ {u} : attempt'[v] = attempt[v]
    <3>1. attempt \in [Urls -> [pc : {"none", "pause", "info", "shake"}, left : 0..Retries,
                               sock : Sockets \cup {NoSocket}]]
      BY DEF ConnectionsInv, TypeOK
    <3> QED BY <2>1, <3>1
  <2>3. TypeOK' /\ RetryOK'
    BY <1>1, <2>1, <2>2 DEF ConnectionsInv, TypeOK, RetryOK
  <2>4. Addressed' /\ Wanted' /\ DownStaysDown'
    BY <1>1, <2>1 DEF ConnectionsInv, Addressed, Wanted, DownStaysDown, Connected
  <2>5. Shaking'
    BY <1>1, <2>2 DEF ConnectionsInv, Shaking
  <2>6. Kept'
    <3> SUFFICES ASSUME NEW v \in lasting \ forsaken PROVE Held(v)'
      BY <2>1 DEF Kept
    <3>1. v \in Urls /\ Held(v)
      BY DEF ConnectionsInv, TypeOK, Kept
    <3>2. attempt[v] # NoAttempt => attempt'[v] # NoAttempt
      BY <2>2, <3>1 DEF NoAttempt
    <3> QED BY <1>1, <2>1, <3>1, <3>2 DEF Held, Connected, Timed, Asking
  <2> QED BY <2>3, <2>4, <2>5, <2>6 DEF ConnectionsInv
<1> QED BY <1>2, <1>3

LEMMA CallContinuesKeeps ==
  ASSUME ConnectionsInv, NEW c \in Calls, CallContinues(c)
  PROVE  ConnectionsInv'
<1> DEFINE u == call[c].url
<1>1. /\ ws' = ws /\ wsMap' = wsMap /\ intentional' = intentional /\ down' = down /\ spared' = spared
      /\ enabled' = enabled /\ monitor' = monitor /\ calls' = calls /\ failures' = failures
  BY DEF CallContinues, marks
<1>2. call[c].pc = "info" /\ u \in Urls
  BY DEF CallContinues, ConnectionsInv, Addressed
<1>3. CASE attempt[u] = NoAttempt /\ u \in intentional
  <2>1. Settle(u, {c}, FALSE)
    BY <1>3 DEF CallContinues
  <2>2. \A s \in Sockets : SocketKept(s)
    BY <1>1 DEF SocketKept, ConnectionsInv, Addressed
  <2>3. TypeOK /\ {c} \in SUBSET Calls /\ \A d \in {c} : call[d].url = u
    BY DEF ConnectionsInv
  <2> HIDE DEF u
  <2> QED BY <1>1, <1>2, <2>1, <2>2, <2>3, SettleKeeps DEF TypeOK
<1>4. CASE ~(attempt[u] = NoAttempt /\ u \in intentional)
  <2>1. /\ call' = [call EXCEPT ![c].pc = "joined"] /\ task' = task
        /\ timers' = timers /\ lasting' = lasting /\ forsaken' = forsaken
    BY <1>4 DEF CallContinues, retry, history
  <2> DEFINE begun == [NoAttempt EXCEPT !.pc = "info", !.left = Retries]
  <2>2. \/ attempt' = attempt /\ attempt[u] # NoAttempt
        \/ attempt' = [attempt EXCEPT ![u] = begun]
    BY <1>4 DEF CallContinues
  <2>3. /\ begun \in [pc : {"none", "pause", "info", "shake"}, left : 0..Retries,
                      sock : Sockets \cup {NoSocket}]
        /\ begun.pc = "info"
    <3>1. /\ 0 \in 0..Retries /\ Retries \in 0..Retries
      BY ConnectionsAssumption
    <3>2. NoAttempt \in [pc : {"none", "pause", "info", "shake"}, left : 0..Retries,
                        sock : Sockets \cup {NoSocket}]
      BY <3>1 DEF NoAttempt
    <3> QED BY <3>1, <3>2
  <2>4. attempt \in [Urls -> [pc : {"none", "pause", "info", "shake"}, left : 0..Retries,
                             sock : Sockets \cup {NoSocket}]]
    BY DEF ConnectionsInv, TypeOK
  <2> HIDE DEF begun
  <2>5. /\ attempt' \in [Urls -> [pc : {"none", "pause", "info", "shake"}, left : 0..Retries,
                                  sock : Sockets \cup {NoSocket}]]
        /\ \A v \in Urls \ {u} : attempt'[v] = attempt[v]
        /\ attempt'[u] = attempt[u] \/ attempt'[u] = begun
    BY <1>2, <2>2, <2>3, <2>4
  <2>6. /\ call' \in [Calls -> [pc : {"free", "info", "joined"}, url : Urls \cup {"none"},
                                why : {"user", "auto", "timer"}, n : Tries]]
        /\ call'[c].pc = "joined" /\ call'[c].url = call[c].url
        /\ \A d \in Calls \ {c} : call'[d] = call[d]
    <3>1. call \in [Calls -> [pc : {"free", "info", "joined"}, url : Urls \cup {"none"},
                             why : {"user", "auto", "timer"}, n : Tries]]
      BY DEF ConnectionsInv, TypeOK
    <3> QED BY <2>1, <3>1
  <2>7. TypeOK' /\ RetryOK'
    BY <1>1, <2>1, <2>5, <2>6 DEF ConnectionsInv, TypeOK, RetryOK
  <2>8. Addressed' /\ Wanted' /\ DownStaysDown'
    BY <1>1, <1>2, <2>1, <2>6 DEF ConnectionsInv, Addressed, Wanted, DownStaysDown, Connected
  <2>9. Shaking'
    BY <1>1, <2>3, <2>5 DEF ConnectionsInv, Shaking
  <2>10. attempt'[u] # NoAttempt
    <3>1. begun # NoAttempt
      BY <2>3 DEF NoAttempt
    <3> QED BY <1>2, <2>2, <2>4, <3>1
  <2>11. Kept'
    <3> SUFFICES ASSUME NEW v \in lasting \ forsaken PROVE Held(v)'
      BY <2>1 DEF Kept
    <3>1. v \in Urls /\ Held(v)
      BY DEF ConnectionsInv, TypeOK, Kept
    <3>2. CASE v = u
      BY <2>10, <3>2 DEF Held
    <3>3. CASE v # u
      <4>1. Asking(v) => Asking(v)'
        BY <2>6, <3>3 DEF Asking
      <4> QED BY <1>1, <2>1, <2>5, <3>1, <3>3, <4>1 DEF Held, Connected, Timed
    <3> QED BY <3>2, <3>3
  <2> QED BY <2>7, <2>8, <2>9, <2>11 DEF ConnectionsInv
<1> QED BY <1>3, <1>4

LEMMA OpenSocketKeeps ==
  ASSUME ConnectionsInv, NEW u \in Urls, OpenSocket(u)
  PROVE  ConnectionsInv'
<1>1. PICK s \in Sockets : /\ ws' = [ws EXCEPT ![s] = [url |-> u, st |-> "shaking", up |-> FALSE]]
                          /\ attempt' = [attempt EXCEPT ![u].pc = "shake", ![u].sock = s]
                          /\ ws[s] = Unused
  BY DEF OpenSocket
<1>2. /\ wsMap' = wsMap /\ intentional' = intentional /\ down' = down /\ spared' = spared /\ enabled' = enabled
      /\ monitor' = monitor /\ calls' = calls /\ failures' = failures /\ call' = call
      /\ task' = task /\ timers' = timers /\ lasting' = lasting /\ forsaken' = forsaken
  BY DEF OpenSocket, marks, retry, history
<1>3. /\ ws' \in [Sockets -> [url : Urls \cup {"none"}, up : BOOLEAN,
                              st : {"new", "shaking", "open", "closing", "closed"}]]
      /\ ws'[s].url = u /\ ws'[s].st = "shaking" /\ \A t \in Sockets \ {s} : ws'[t] = ws[t]
  BY <1>1 DEF ConnectionsInv, TypeOK
<1>4. attempt \in [Urls -> [pc : {"none", "pause", "info", "shake"}, left : 0..Retries,
                           sock : Sockets \cup {NoSocket}]]
  BY DEF ConnectionsInv, TypeOK
<1>5. /\ attempt' \in [Urls -> [pc : {"none", "pause", "info", "shake"}, left : 0..Retries,
                                sock : Sockets \cup {NoSocket}]]
      /\ attempt'[u].pc = "shake" /\ attempt'[u].sock = s
      /\ \A v \in Urls \ {u} : attempt'[v] = attempt[v]
  BY <1>1, <1>4
<1>6. TypeOK' /\ RetryOK'
  BY <1>2, <1>3, <1>5 DEF ConnectionsInv, TypeOK, RetryOK
<1>7. Addressed'
  <2>1. \A t \in Sockets : ws'[t].up => ws'[t].url \in Urls
    BY <1>3 DEF ConnectionsInv, Addressed
  <2> QED BY <1>2, <2>1 DEF ConnectionsInv, Addressed
<1>8. Wanted' /\ DownStaysDown'
  BY <1>2 DEF ConnectionsInv, Wanted, DownStaysDown, Connected
<1>9. Shaking'
  <2> SUFFICES ASSUME NEW v \in Urls, attempt'[v].pc = "shake"
               PROVE  /\ attempt'[v].sock \in Sockets /\ ws'[attempt'[v].sock].url = v
                      /\ ws'[attempt'[v].sock].st # "new"
    BY DEF Shaking
  <2>1. CASE v = u
    BY <1>3, <1>5, <2>1
  <2>2. CASE v # u
    <3>1. attempt'[v] = attempt[v]
      BY <1>5, <2>2
    <3>2. /\ attempt[v].sock \in Sockets /\ ws[attempt[v].sock].url = v
          /\ ws[attempt[v].sock].st # "new"
      BY <3>1 DEF ConnectionsInv, Shaking
    <3>3. attempt[v].sock # s
      BY <1>1, <3>2 DEF Unused
    <3> QED BY <1>3, <3>1, <3>2, <3>3
  <2> QED BY <2>1, <2>2
<1>10. Kept'
  <2> SUFFICES ASSUME NEW v \in lasting \ forsaken PROVE Held(v)'
    BY <1>2 DEF Kept
  <2>1. v \in Urls /\ Held(v)
    BY DEF ConnectionsInv, TypeOK, Kept
  <2>2. attempt[v] # NoAttempt => attempt'[v] # NoAttempt
    BY <1>5, <2>1 DEF NoAttempt
  <2> QED BY <1>2, <2>1, <2>2 DEF Held, Connected, Timed, Asking
<1> QED BY <1>6, <1>7, <1>8, <1>9, <1>10 DEF ConnectionsInv

LEMMA HandshakeSucceedsKeeps ==
  ASSUME ConnectionsInv, NEW u \in Urls, HandshakeSucceeds(u)
  PROVE  ConnectionsInv'
<1> DEFINE s == attempt[u].sock
<1>1. attempt[u].pc = "shake" /\ down' = down /\ spared' = spared /\ enabled' = enabled /\ calls' = calls
      /\ failures' = failures
  BY DEF HandshakeSucceeds
<1>2. s \in Sockets /\ ws[s].url = u /\ ws[s].st # "new"
  BY <1>1 DEF ConnectionsInv, Shaking
<1>3. /\ TypeOK /\ Waiting(u) \in SUBSET Calls /\ \A c \in Waiting(u) : call[c].url = u
      /\ \A t \in Sockets : ws[t].up => ws[t].url \in Urls
  BY DEF ConnectionsInv, Addressed, Waiting
<1> DEFINE Set(st) == [ws EXCEPT ![s].st = st, ![s].up = TRUE]
<1>4. ASSUME NEW st \in {"open", "closing"}, ws' = Set(st)
      PROVE  /\ ws' \in [Sockets -> [url : Urls \cup {"none"}, up : BOOLEAN,
                                    st : {"new", "shaking", "open", "closing", "closed"}]]
             /\ \A t \in Sockets : SocketKept(t)
  <2>1. ws \in [Sockets -> [url : Urls \cup {"none"}, up : BOOLEAN,
                           st : {"new", "shaking", "open", "closing", "closed"}]]
    BY <1>3 DEF TypeOK
  <2>2. /\ ws' \in [Sockets -> [url : Urls \cup {"none"}, up : BOOLEAN,
                                st : {"new", "shaking", "open", "closing", "closed"}]]
        /\ ws'[s].url = u /\ ws'[s].st = st /\ \A t \in Sockets \ {s} : ws'[t] = ws[t]
    BY <1>2, <1>4, <2>1
  <2> QED BY <1>2, <1>3, <2>2 DEF SocketKept
<1>5. CASE u \in intentional
  <2>1. /\ ws' = Set("closing") /\ Settle(u, Waiting(u), FALSE)
        /\ wsMap' = wsMap /\ intentional' = intentional /\ monitor' = monitor
    BY <1>5 DEF HandshakeSucceeds
  <2>2. /\ ws' \in [Sockets -> [url : Urls \cup {"none"}, up : BOOLEAN,
                                st : {"new", "shaking", "open", "closing", "closed"}]]
        /\ \A t \in Sockets : SocketKept(t)
    BY <1>4, <2>1
  <2> HIDE DEF s, Set
  <2> QED BY <1>1, <1>3, <2>1, <2>2, SettleKeeps DEF TypeOK
<1>6. CASE u \notin intentional
  <2>1. /\ ws' = Set("open") /\ Settle(u, Waiting(u), TRUE)
        /\ wsMap' = [wsMap EXCEPT ![u] = s] /\ intentional' = intentional \ {u}
        /\ monitor' \in {"off", "normal", "background"}
    BY <1>3, <1>6 DEF HandshakeSucceeds, TypeOK
  <2>2. /\ ws' \in [Sockets -> [url : Urls \cup {"none"}, up : BOOLEAN,
                                st : {"new", "shaking", "open", "closing", "closed"}]]
        /\ \A t \in Sockets : SocketKept(t)
    BY <1>4, <2>1
  <2> HIDE DEF s, Set
  <2> QED BY <1>1, <1>2, <1>3, <1>6, <2>1, <2>2, SettleKeeps DEF TypeOK
<1> QED BY <1>5, <1>6

LEMMA HandshakeFailsKeeps ==
  ASSUME ConnectionsInv, NEW u \in Urls, HandshakeFails(u)
  PROVE  ConnectionsInv'
<1> DEFINE s == attempt[u].sock
<1>1. /\ attempt[u].pc = "shake" /\ down' = down /\ spared' = spared /\ enabled' = enabled /\ calls' = calls
      /\ wsMap' = wsMap /\ intentional' = intentional /\ monitor' = monitor
      /\ failures' = failures + 1 /\ failures < MaxFailures
      /\ ws' = [ws EXCEPT ![s].st = "closed"]
  BY DEF HandshakeFails, marks
<1>2. s \in Sockets /\ ws[s].url = u /\ ws[s].st # "new"
  BY <1>1 DEF ConnectionsInv, Shaking
<1>3. /\ TypeOK /\ Waiting(u) \in SUBSET Calls /\ \A c \in Waiting(u) : call[c].url = u
      /\ \A t \in Sockets : ws[t].up => ws[t].url \in Urls
  BY DEF ConnectionsInv, Addressed, Waiting
<1>4. failures' \in 0..MaxFailures
  BY <1>1, <1>3, ConnectionsAssumption DEF TypeOK
<1>5. /\ ws' \in [Sockets -> [url : Urls \cup {"none"}, up : BOOLEAN,
                              st : {"new", "shaking", "open", "closing", "closed"}]]
      /\ ws'[s].url = u /\ ws'[s].st = "closed" /\ \A t \in Sockets \ {s} : ws'[t] = ws[t]
  <2>1. ws \in [Sockets -> [url : Urls \cup {"none"}, up : BOOLEAN,
                           st : {"new", "shaking", "open", "closing", "closed"}]]
    BY <1>3 DEF TypeOK
  <2> QED BY <1>1, <1>2, <2>1
<1>6. \A t \in Sockets : SocketKept(t)
  BY <1>2, <1>3, <1>5 DEF SocketKept
<1>7. CASE ~(attempt[u].left > 0 /\ u \notin intentional)
  <2>1. Settle(u, Waiting(u), FALSE)
    BY <1>7 DEF HandshakeFails
  <2>2. /\ wsMap' = wsMap /\ intentional' = intentional /\ down' = down /\ spared' = spared /\ calls' = calls
        /\ enabled' = enabled /\ monitor' \in {"off", "normal", "background"}
    BY <1>1, <1>3 DEF TypeOK
  <2> HIDE DEF s
  <2> QED BY <1>3, <1>4, <1>5, <1>6, <2>1, <2>2, SettleKeeps
<1>8. CASE attempt[u].left > 0 /\ u \notin intentional
  <2>1. /\ attempt' = [attempt EXCEPT ![u] = [pc |-> "pause", left |-> attempt[u].left - 1,
                                             sock |-> NoSocket]]
        /\ call' = call /\ task' = task /\ timers' = timers /\ lasting' = lasting
        /\ forsaken' = forsaken
    BY <1>8 DEF HandshakeFails, retry, history
  <2>2. attempt[u].left - 1 \in 0..Retries
    BY <1>3, <1>8, ConnectionsAssumption DEF TypeOK
  <2>3. /\ attempt' \in [Urls -> [pc : {"none", "pause", "info", "shake"}, left : 0..Retries,
                                  sock : Sockets \cup {NoSocket}]]
        /\ attempt'[u].pc = "pause" /\ \A v \in Urls \ {u} : attempt'[v] = attempt[v]
    <3>1. attempt \in [Urls -> [pc : {"none", "pause", "info", "shake"}, left : 0..Retries,
                               sock : Sockets \cup {NoSocket}]]
      BY <1>3 DEF TypeOK
    <3> QED BY <2>1, <2>2, <3>1
  <2>4. TypeOK' /\ RetryOK'
    BY <1>1, <1>4, <1>5, <2>1, <2>3 DEF ConnectionsInv, TypeOK, RetryOK
  <2>5. Addressed'
    <3>1. \A t \in Sockets : ws'[t].up => ws'[t].url \in Urls
      BY <1>3, <1>6 DEF SocketKept
    <3> QED BY <2>1, <3>1 DEF ConnectionsInv, Addressed
  <2>6. Wanted' /\ DownStaysDown'
    BY <1>1, <2>1 DEF ConnectionsInv, Wanted, DownStaysDown, Connected
  <2>7. Shaking'
    <3> SUFFICES ASSUME NEW v \in Urls, attempt'[v].pc = "shake"
                 PROVE  /\ attempt'[v].sock \in Sockets /\ ws'[attempt'[v].sock].url = v
                        /\ ws'[attempt'[v].sock].st # "new"
      BY DEF Shaking
    <3>1. attempt'[v] = attempt[v]
      BY <2>3
    <3>2. /\ attempt[v].sock \in Sockets /\ ws[attempt[v].sock].url = v
          /\ ws[attempt[v].sock].st # "new"
      BY <3>1 DEF ConnectionsInv, Shaking
    <3> QED BY <1>6, <3>1, <3>2 DEF SocketKept
  <2>8. Kept'
    <3> SUFFICES ASSUME NEW v \in lasting \ forsaken PROVE Held(v)'
      BY <2>1 DEF Kept
    <3>1. v \in Urls /\ Held(v)
      BY DEF ConnectionsInv, TypeOK, Kept
    <3>2. attempt[v] # NoAttempt => attempt'[v] # NoAttempt
      BY <2>3, <3>1 DEF NoAttempt
    <3> QED BY <1>1, <2>1, <3>1, <3>2 DEF Held, Connected, Timed, Asking
  <2> QED BY <2>4, <2>5, <2>6, <2>7, <2>8 DEF ConnectionsInv
<1> QED BY <1>7, <1>8

(* The actions below change no attempt, and of sockets only the state.     *)
LEMMA StateOnly ==
  ASSUME ConnectionsInv, NEW s \in Sockets, NEW st \in {"closing", "closed"},
         ws' = [ws EXCEPT ![s].st = st]
  PROVE  /\ ws' \in [Sockets -> [url : Urls \cup {"none"}, up : BOOLEAN,
                                st : {"new", "shaking", "open", "closing", "closed"}]]
         /\ \A t \in Sockets : SocketKept(t)
<1>1. ws \in [Sockets -> [url : Urls \cup {"none"}, up : BOOLEAN,
                         st : {"new", "shaking", "open", "closing", "closed"}]]
  BY DEF ConnectionsInv, TypeOK
<1>2. /\ ws' \in [Sockets -> [url : Urls \cup {"none"}, up : BOOLEAN,
                              st : {"new", "shaking", "open", "closing", "closed"}]]
      /\ ws'[s].url = ws[s].url /\ ws'[s].up = ws[s].up /\ ws'[s].st = st
      /\ \A t \in Sockets \ {s} : ws'[t] = ws[t]
  BY <1>1
<1>3. \A t \in Sockets : ws[t].up => ws[t].url \in Urls
  BY DEF ConnectionsInv, Addressed
<1> QED BY <1>2, <1>3 DEF SocketKept

LEMMA SocketsKeep ==
  ASSUME ConnectionsInv, \A t \in Sockets : SocketKept(t), attempt' = attempt, call' = call
  PROVE  Addressed' /\ Shaking'
<1>1. Addressed'
  <2>1. \A t \in Sockets : ws'[t].up => ws'[t].url \in Urls
    BY DEF SocketKept
  <2> QED BY <2>1 DEF ConnectionsInv, Addressed
<1>2. Shaking'
  <2> SUFFICES ASSUME NEW v \in Urls, attempt[v].pc = "shake"
               PROVE  /\ attempt[v].sock \in Sockets /\ ws'[attempt[v].sock].url = v
                      /\ ws'[attempt[v].sock].st # "new"
    BY DEF Shaking
  <2>1. /\ attempt[v].sock \in Sockets /\ ws[attempt[v].sock].url = v
        /\ ws[attempt[v].sock].st # "new"
    BY DEF ConnectionsInv, Shaking
  <2> QED BY <2>1 DEF SocketKept
<1> QED BY <1>1, <1>2

LEMMA DropKeeps ==
  ASSUME ConnectionsInv, NEW u \in Urls, Drop(u)
  PROVE  /\ wsMap' \in [Urls -> Sockets \cup {NoSocket}]
         /\ monitor' \in {"off", "normal", "background"} /\ ~Connected(u)'
         /\ \A v \in Urls : v # u => wsMap'[v] = wsMap[v]
BY DEF Drop, ConnectionsInv, TypeOK, Connected

LEMMA ClosesKeeps ==
  ASSUME ConnectionsInv, NEW s \in Sockets, Closes(s)
  PROVE  ConnectionsInv'
<1>1. PICK u \in Urls : u = ws[s].url
  BY DEF Closes, ConnectionsInv, Addressed
<1>2. /\ intentional' = intentional /\ down' = down /\ spared' = spared /\ attempt' = attempt /\ call' = call
      /\ enabled' = enabled /\ forsaken' = forsaken /\ calls' = calls
  BY DEF Closes, marks
<1>3. ws' = [ws EXCEPT ![s].st = "closed"]
  BY DEF Closes
<1>4. /\ ws' \in [Sockets -> [url : Urls \cup {"none"}, up : BOOLEAN,
                              st : {"new", "shaking", "open", "closing", "closed"}]]
      /\ \A t \in Sockets : SocketKept(t)
  BY <1>3, StateOnly
<1>5. failures' \in 0..MaxFailures
  <2>1. failures \in 0..MaxFailures
    BY DEF ConnectionsInv, TypeOK
  <2>2. failures' = failures \/ (failures < MaxFailures /\ failures' = failures + 1)
    BY DEF Closes
  <2> QED BY <2>1, <2>2, ConnectionsAssumption
<1>6. Addressed' /\ Shaking'
  BY <1>2, <1>4, SocketsKeep
<1>7. CASE wsMap[u] # s
  <2>1. /\ wsMap' = wsMap /\ monitor' = monitor /\ task' = task /\ timers' = timers
        /\ lasting' = lasting
    BY <1>1, <1>7 DEF Closes, retry
  <2>2. TypeOK' /\ RetryOK'
    BY <1>2, <1>4, <1>5, <2>1 DEF ConnectionsInv, TypeOK, RetryOK
  <2>3. Wanted' /\ DownStaysDown'
    BY <1>2, <2>1 DEF ConnectionsInv, Wanted, DownStaysDown, Connected
  <2>4. Kept'
    BY <1>2, <2>1 DEF ConnectionsInv, Kept, Held, Connected, Timed, Asking
  <2> QED BY <1>6, <2>2, <2>3, <2>4 DEF ConnectionsInv
<1>8. CASE wsMap[u] = s
  <2>1. /\ Drop(u) /\ Schedule(u)
        /\ lasting' = IF enabled THEN lasting ELSE lasting \ {u}
    BY <1>1, <1>8 DEF Closes
  <2>2. /\ wsMap' \in [Urls -> Sockets \cup {NoSocket}]
        /\ monitor' \in {"off", "normal", "background"} /\ ~Connected(u)'
        /\ \A v \in Urls : v # u => wsMap'[v] = wsMap[v]
    BY <1>1, <2>1, DropKeeps
  <2>3. /\ RetryOK' /\ \A v \in Urls : Timed(v) => Timed(v)'
        /\ enabled /\ u \notin intentional => Timed(u)'
    BY <1>1, <2>1, ScheduleKeeps DEF ConnectionsInv
  <2>4. lasting' \subseteq lasting /\ (~enabled => u \notin lasting')
    BY <2>1
  <2>5. TypeOK'
    BY <1>2, <1>4, <1>5, <2>2, <2>3, <2>4 DEF ConnectionsInv, TypeOK, RetryOK
  <2>6. Wanted'
    BY <1>2, <2>4 DEF ConnectionsInv, Wanted
  <2>7. DownStaysDown'
    <3> SUFFICES ASSUME NEW v \in intentional PROVE ~Connected(v)'
      BY <1>2 DEF ConnectionsInv, DownStaysDown
    <3>1. v \in Urls /\ ~Connected(v)
      BY DEF ConnectionsInv, TypeOK, DownStaysDown
    <3> QED BY <2>2, <3>1 DEF Connected
  <2>8. Kept'
    <3> SUFFICES ASSUME NEW v \in lasting' \ forsaken PROVE Held(v)'
      BY <1>2 DEF Kept
    <3>1. v \in Urls /\ Held(v) /\ v \notin intentional
      BY <2>4 DEF ConnectionsInv, TypeOK, Kept, Wanted
    <3>2. CASE v = u
      BY <1>2, <2>3, <2>4, <3>1, <3>2 DEF Held
    <3>3. CASE v # u
      BY <1>2, <2>2, <2>3, <3>1, <3>3 DEF Held, Connected, Asking
    <3> QED BY <3>2, <3>3
  <2> QED BY <1>6, <2>3, <2>5, <2>6, <2>7, <2>8 DEF ConnectionsInv
<1> QED BY <1>7, <1>8

LEMMA ResetStaleConnectionKeeps ==
  ASSUME ConnectionsInv, NEW u \in Urls, ResetStaleConnection(u)
  PROVE  ConnectionsInv'
<1>1. /\ wsMap' = wsMap /\ intentional' = intentional /\ down' = down /\ spared' = spared /\ attempt' = attempt
      /\ call' = call /\ task' = task /\ timers' = timers /\ enabled' = enabled
      /\ monitor' = monitor /\ lasting' = lasting /\ forsaken' = forsaken /\ calls' = calls
      /\ failures < MaxFailures /\ failures' = failures + 1
  BY DEF ResetStaleConnection, marks, retry, history
<1>2. wsMap[u] \in Sockets /\ ws' = [ws EXCEPT ![wsMap[u]].st = "closing"]
  BY DEF ResetStaleConnection, Open, Connected, ConnectionsInv, TypeOK
<1>3. /\ ws' \in [Sockets -> [url : Urls \cup {"none"}, up : BOOLEAN,
                              st : {"new", "shaking", "open", "closing", "closed"}]]
      /\ \A t \in Sockets : SocketKept(t)
  BY <1>2, StateOnly
<1>4. failures' \in 0..MaxFailures
  BY <1>1, ConnectionsAssumption DEF ConnectionsInv, TypeOK
<1>5. TypeOK' /\ RetryOK'
  BY <1>1, <1>3, <1>4 DEF ConnectionsInv, TypeOK, RetryOK
<1>6. Addressed' /\ Shaking'
  BY <1>1, <1>3, SocketsKeep
<1>7. Wanted' /\ DownStaysDown' /\ Kept'
  BY <1>1 DEF ConnectionsInv, Wanted, DownStaysDown, Kept, Held, Connected, Timed, Asking
<1> QED BY <1>5, <1>6, <1>7 DEF ConnectionsInv

LEMMA SendToServerFailsKeeps ==
  ASSUME ConnectionsInv, NEW u \in Urls, SendToServerFails(u)
  PROVE  ConnectionsInv'
<1>1. /\ ws' = ws /\ wsMap' = wsMap /\ intentional' = intentional /\ down' = down /\ spared' = spared
      /\ attempt' = attempt /\ call' = call /\ enabled' = enabled /\ monitor' = monitor
      /\ lasting' = lasting /\ forsaken' = forsaken /\ failures' = failures
      /\ calls < MaxCalls /\ calls' = calls + 1
  BY DEF SendToServerFails, marks, history
<1>2. RetryOK' /\ \A v \in Urls : Timed(v) => Timed(v)'
  BY ScheduleKeeps DEF SendToServerFails, ConnectionsInv
<1>3. calls' \in 0..MaxCalls
  BY <1>1, ConnectionsAssumption DEF ConnectionsInv, TypeOK
<1>4. TypeOK'
  BY <1>1, <1>2, <1>3 DEF ConnectionsInv, TypeOK, RetryOK
<1>5. Addressed' /\ Shaking' /\ Wanted' /\ DownStaysDown'
  BY <1>1 DEF ConnectionsInv, Addressed, Shaking, Wanted, DownStaysDown, Connected
<1>6. Kept'
  <2> SUFFICES ASSUME NEW v \in lasting \ forsaken PROVE Held(v)'
    BY <1>1 DEF Kept
  <2>1. v \in Urls /\ Held(v)
    BY DEF ConnectionsInv, TypeOK, Kept
  <2> QED BY <1>1, <1>2, <2>1 DEF Held, Connected, Asking
<1> QED BY <1>2, <1>4, <1>5, <1>6 DEF ConnectionsInv

LEMMA CallsType == ASSUME TypeOK, calls < MaxCalls PROVE calls + 1 \in 0..MaxCalls
BY ConnectionsAssumption DEF TypeOK

LEMMA DisconnectKeeps ==
  ASSUME ConnectionsInv, NEW u \in Urls, Disconnect(u)
  PROVE  ConnectionsInv'
<1>1. /\ intentional' = intentional \cup {u} /\ down' = down \cup {u} /\ spared' = spared \ {u}
      /\ lasting' = lasting \ {u}
      /\ attempt' = attempt /\ call' = call /\ enabled' = enabled /\ forsaken' = forsaken
      /\ failures' = failures
  BY DEF Disconnect
<1>2. calls' \in 0..MaxCalls
  BY CallsType DEF Disconnect, ConnectionsInv
<1>3. RetryOK' /\ \A v \in Urls \ {u} : timers'[v] = timers[v]
  BY ClearKeeps DEF Disconnect, ConnectionsInv
<1>4. /\ ws' \in [Sockets -> [url : Urls \cup {"none"}, up : BOOLEAN,
                              st : {"new", "shaking", "open", "closing", "closed"}]]
      /\ \A t \in Sockets : SocketKept(t)
      /\ wsMap' \in [Urls -> Sockets \cup {NoSocket}]
      /\ monitor' \in {"off", "normal", "background"} /\ ~Connected(u)'
      /\ \A v \in Urls : v # u => wsMap'[v] = wsMap[v]
  <2>1. CASE Connected(u)
    <3>1. wsMap[u] \in Sockets /\ ws' = [ws EXCEPT ![wsMap[u]].st = "closing"]
      BY <2>1 DEF Disconnect, Connected, ConnectionsInv, TypeOK
    <3>2. /\ ws' \in [Sockets -> [url : Urls \cup {"none"}, up : BOOLEAN,
                                  st : {"new", "shaking", "open", "closing", "closed"}]]
          /\ \A t \in Sockets : SocketKept(t)
      BY <3>1, StateOnly
    <3>3. Drop(u)
      BY <2>1 DEF Disconnect
    <3> QED BY <3>2, <3>3, DropKeeps
  <2>2. CASE ~Connected(u)
    <3>1. ws' = ws /\ wsMap' = wsMap /\ monitor' = monitor
      BY <2>2 DEF Disconnect
    <3>2. \A t \in Sockets : SocketKept(t)
      BY <3>1 DEF SocketKept, ConnectionsInv, Addressed
    <3> QED BY <2>2, <3>1, <3>2 DEF ConnectionsInv, TypeOK, Connected
  <2> QED BY <2>1, <2>2
<1>5. Addressed' /\ Shaking'
  BY <1>1, <1>4, SocketsKeep
<1>6. TypeOK'
  BY <1>1, <1>2, <1>3, <1>4 DEF ConnectionsInv, TypeOK, RetryOK
<1>7. Wanted'
  BY <1>1 DEF ConnectionsInv, Wanted
<1>8. DownStaysDown'
  <2>1. down' \ spared' \subseteq intentional'
    BY <1>1 DEF ConnectionsInv, DownStaysDown
  <2> SUFFICES ASSUME NEW v \in intentional' PROVE ~Connected(v)'
    BY <2>1 DEF DownStaysDown
  <2>2. v \in Urls
    BY <1>6 DEF TypeOK
  <2>3. v # u => ~Connected(v)
    BY <1>1 DEF ConnectionsInv, DownStaysDown
  <2> QED BY <1>4, <2>2, <2>3 DEF Connected
<1>9. Kept'
  <2> SUFFICES ASSUME NEW v \in lasting' \ forsaken PROVE Held(v)'
    BY <1>1 DEF Kept
  <2>1. v \in Urls /\ Held(v) /\ v # u
    BY <1>1 DEF ConnectionsInv, TypeOK, Kept
  <2> QED BY <1>1, <1>3, <1>4, <2>1 DEF Held, Connected, Timed, Asking
<1> QED BY <1>3, <1>5, <1>6, <1>7, <1>8, <1>9 DEF ConnectionsInv

LEMMA DisconnectAllKeeps ==
  ASSUME ConnectionsInv, DisconnectAll
  PROVE  ConnectionsInv'
<1> DEFINE U == {u \in Urls : Connected(u)}
<1>1. /\ intentional' = intentional \cup U /\ down' = Urls /\ spared' = Urls \ intentional'
      /\ lasting' = lasting \ U
      /\ attempt' = attempt /\ call' = call /\ enabled' = enabled /\ forsaken' = forsaken
      /\ failures' = failures /\ wsMap' = [u \in Urls |-> NoSocket]
      /\ timers' = [u \in Urls |-> IF u \in U THEN Cleared(u)[u] ELSE timers[u]]
      /\ task' = [u \in Urls |-> IF u \in U THEN 0 ELSE task[u]]
      /\ ws' = [s \in Sockets |-> IF \E u \in U : wsMap[u] = s
                                  THEN [ws[s] EXCEPT !.st = "closing"] ELSE ws[s]]
      /\ monitor' = IF U = {} THEN monitor ELSE "off"
  BY DEF DisconnectAll
<1>2. PICK T : T = U
  OBVIOUS
<1>3. T \subseteq Urls /\ \A u \in Urls : Connected(u) <=> u \in T
  BY <1>2
<1>4. calls' \in 0..MaxCalls
  BY CallsType DEF DisconnectAll, ConnectionsInv
<1>5. RetryOK' /\ \A v \in Urls : v \notin T => timers'[v] = timers[v]
  <2>1. \A u \in Urls : Cleared(u) \in [Urls -> [1..MaxBackoff -> Nat]]
    BY ClearedIs DEF ConnectionsInv
  <2>2. \A u \in Urls : Cleared(u)[u] \in [1..MaxBackoff -> Nat]
    BY <2>1
  <2>3. /\ timers' = [u \in Urls |-> IF u \in T THEN Cleared(u)[u] ELSE timers[u]]
        /\ task' = [u \in Urls |-> IF u \in T THEN 0 ELSE task[u]]
    BY <1>1, <1>2
  <2>4. timers' \in [Urls -> [1..MaxBackoff -> Nat]]
    BY <2>2, <2>3 DEF ConnectionsInv, RetryOK
  <2>5. task' \in [Urls -> Tries]
    BY <2>3, ConnectionsAssumption DEF ConnectionsInv, RetryOK, Tries
  <2>6. \A u \in Urls : task'[u] # 0 => timers'[u][task'[u]] > 0
    BY <2>3 DEF ConnectionsInv, RetryOK
  <2> QED BY <2>3, <2>4, <2>5, <2>6 DEF RetryOK
<1>6. /\ ws' \in [Sockets -> [url : Urls \cup {"none"}, up : BOOLEAN,
                              st : {"new", "shaking", "open", "closing", "closed"}]]
      /\ \A t \in Sockets : SocketKept(t)
  <2>1. ws \in [Sockets -> [url : Urls \cup {"none"}, up : BOOLEAN,
                           st : {"new", "shaking", "open", "closing", "closed"}]]
    BY DEF ConnectionsInv, TypeOK
  <2>2. \A t \in Sockets : ws[t].up => ws[t].url \in Urls
    BY DEF ConnectionsInv, Addressed
  <2>3. \A t \in Sockets : ws'[t] = ws[t] \/ ws'[t] = [ws[t] EXCEPT !.st = "closing"]
    BY <1>1
  <2>4. \A t \in Sockets : ws'[t] \in [url : Urls \cup {"none"}, up : BOOLEAN,
                                       st : {"new", "shaking", "open", "closing", "closed"}]
    BY <2>1, <2>3
  <2>5. ws' = [t \in Sockets |-> ws'[t]]
    BY <1>1
  <2>6. ws' \in [Sockets -> [url : Urls \cup {"none"}, up : BOOLEAN,
                            st : {"new", "shaking", "open", "closing", "closed"}]]
    BY <2>4, <2>5
  <2>7. ASSUME NEW t \in Sockets PROVE SocketKept(t)
    <3>1. ws[t] \in [url : Urls \cup {"none"}, up : BOOLEAN,
                    st : {"new", "shaking", "open", "closing", "closed"}]
      BY <2>1
    <3>2. /\ ws'[t].url = ws[t].url /\ ws'[t].up = ws[t].up
          /\ ws'[t].st = ws[t].st \/ ws'[t].st = "closing"
      BY <2>3, <3>1
    <3> QED BY <2>2, <3>2 DEF SocketKept
  <2> QED BY <2>6, <2>7
<1>7. Addressed' /\ Shaking'
  BY <1>1, <1>6, SocketsKeep
<1> HIDE DEF U
<1>8. /\ intentional' = intentional \cup T /\ lasting' = lasting \ T
      /\ monitor' \in {"off", "normal", "background"}
  BY <1>1, <1>2 DEF ConnectionsInv, TypeOK
<1>9. TypeOK'
  BY <1>1, <1>3, <1>4, <1>5, <1>6, <1>8 DEF ConnectionsInv, TypeOK, RetryOK
<1>10. Wanted'
  BY <1>8 DEF ConnectionsInv, Wanted
<1>11. DownStaysDown'
  <2>1. \A v \in Urls : ~Connected(v)'
    BY <1>1 DEF Connected
  <2>2. down' \ spared' \subseteq intentional' /\ intentional' \subseteq Urls
    BY <1>1, <1>9 DEF TypeOK
  <2> QED BY <2>1, <2>2 DEF DownStaysDown
<1>12. Kept'
  <2> SUFFICES ASSUME NEW v \in lasting' \ forsaken PROVE Held(v)'
    BY <1>1 DEF Kept
  <2>1. v \in Urls /\ Held(v) /\ v \notin T
    BY <1>8 DEF ConnectionsInv, TypeOK, Kept
  <2>2. ~Connected(v)
    BY <1>3, <2>1
  <2> QED BY <1>1, <1>5, <2>1, <2>2 DEF Held, Timed, Asking
<1> QED BY <1>5, <1>7, <1>9, <1>10, <1>11, <1>12 DEF ConnectionsInv

LEMMA SetAutoReconnectKeeps ==
  ASSUME ConnectionsInv, SetAutoReconnect
  PROVE  ConnectionsInv'
<1>1. /\ ws' = ws /\ wsMap' = wsMap /\ intentional' = intentional /\ down' = down /\ spared' = spared
      /\ attempt' = attempt /\ call' = call /\ enabled' = ~enabled /\ monitor' = monitor
      /\ forsaken' = forsaken /\ failures' = failures
  BY DEF SetAutoReconnect, marks
<1>2. calls' \in 0..MaxCalls
  BY CallsType DEF SetAutoReconnect, ConnectionsInv
<1>3. CASE enabled
  <2>1. /\ timers' = [u \in Urls |-> Cleared(u)[u]] /\ task' = [u \in Urls |-> 0]
        /\ lasting' = {u \in lasting : Connected(u)}
    BY <1>3 DEF SetAutoReconnect
  <2>2. \A u \in Urls : Cleared(u) \in [Urls -> [1..MaxBackoff -> Nat]]
    BY ClearedIs DEF ConnectionsInv
  <2>3. timers' \in [Urls -> [1..MaxBackoff -> Nat]] /\ task' \in [Urls -> Tries]
    BY <2>1, <2>2, ConnectionsAssumption DEF Tries
  <2>4. RetryOK'
    BY <2>1, <2>3 DEF RetryOK
  <2>5. lasting' \subseteq lasting
    BY <2>1
  <2>6. TypeOK'
    <3>1. enabled' \in BOOLEAN
      BY <1>1
    <3> QED BY <1>1, <1>2, <2>3, <2>5, <3>1 DEF ConnectionsInv, TypeOK
  <2>7. Addressed' /\ Shaking' /\ Wanted' /\ DownStaysDown'
    BY <1>1, <2>5 DEF ConnectionsInv, Addressed, Shaking, Wanted, DownStaysDown, Connected
  <2>8. Kept'
    BY <1>1, <2>1 DEF Kept, Held, Connected
  <2> QED BY <2>4, <2>6, <2>7, <2>8 DEF ConnectionsInv
<1>4. CASE ~enabled
  <2>1. timers' = timers /\ task' = task /\ lasting' = lasting
    BY <1>4 DEF SetAutoReconnect, retry
  <2>2. enabled' \in BOOLEAN
    BY <1>1
  <2>3. TypeOK' /\ RetryOK'
    BY <1>1, <1>2, <2>1, <2>2 DEF ConnectionsInv, TypeOK, RetryOK
  <2>4. Addressed' /\ Shaking' /\ Wanted' /\ DownStaysDown'
    BY <1>1, <2>1 DEF ConnectionsInv, Addressed, Shaking, Wanted, DownStaysDown, Connected
  <2>5. Kept'
    BY <1>1, <1>4, <2>1 DEF ConnectionsInv, Kept, Held, Connected, Asking
  <2> QED BY <2>3, <2>4, <2>5 DEF ConnectionsInv
<1> QED BY <1>3, <1>4

LEMMA RunReconnectKeeps ==
  ASSUME ConnectionsInv, NEW u \in Urls, NEW n \in 1..MaxBackoff, RunReconnect(u, n)
  PROVE  ConnectionsInv'
<1>1. /\ timers[u][n] > 0 /\ timers' = [timers EXCEPT ![u] = Minus(timers[u], n)]
      /\ task' = [task EXCEPT ![u] = 0] /\ calls' = calls
  BY DEF RunReconnect
<1>2. /\ RetryOK' /\ \A v \in Urls \ {u} : timers'[v] = timers[v]
  <2>1. timers[u] \in [1..MaxBackoff -> Nat]
    BY DEF ConnectionsInv, RetryOK
  <2>2. Minus(timers[u], n) \in [1..MaxBackoff -> Nat]
    BY <1>1, <2>1, PlusMinus
  <2>3. /\ timers' \in [Urls -> [1..MaxBackoff -> Nat]]
        /\ \A v \in Urls \ {u} : timers'[v] = timers[v]
    BY <1>1, <2>2 DEF ConnectionsInv, RetryOK
  <2>4. task' \in [Urls -> Tries] /\ task'[u] = 0 /\ \A v \in Urls \ {u} : task'[v] = task[v]
    BY <1>1, ConnectionsAssumption DEF ConnectionsInv, RetryOK, Tries
  <2> QED BY <2>3, <2>4 DEF ConnectionsInv, RetryOK
<1>3. CASE u \in intentional \/ ~enabled
  <2>1. /\ ws' = ws /\ wsMap' = wsMap /\ intentional' = intentional /\ down' = down /\ spared' = spared
        /\ attempt' = attempt /\ call' = call /\ enabled' = enabled /\ monitor' = monitor
        /\ lasting' = lasting /\ forsaken' = forsaken /\ failures' = failures
    BY <1>3 DEF RunReconnect, marks, history
  <2>2. TypeOK'
    BY <1>1, <1>2, <2>1 DEF ConnectionsInv, TypeOK, RetryOK
  <2>3. Addressed' /\ Shaking' /\ Wanted' /\ DownStaysDown'
    BY <2>1 DEF ConnectionsInv, Addressed, Shaking, Wanted, DownStaysDown, Connected
  <2>4. Kept'
    <3> SUFFICES ASSUME NEW v \in lasting \ forsaken PROVE Held(v)'
      BY <2>1 DEF Kept
    <3>1. v \in Urls /\ Held(v) /\ v \notin intentional
      BY DEF ConnectionsInv, TypeOK, Kept, Wanted
    <3>2. CASE v = u
      BY <1>3, <2>1, <3>1, <3>2 DEF Held, Connected, Asking
    <3>3. CASE v # u
      BY <1>2, <2>1, <3>1, <3>3 DEF Held, Connected, Timed, Asking
    <3> QED BY <3>2, <3>3
  <2> QED BY <1>2, <2>2, <2>3, <2>4 DEF ConnectionsInv
<1>4. CASE u \notin intentional /\ enabled
  <2>1. Connect(u, "timer", n)
    BY <1>4 DEF RunReconnect
  <2>2. n \in Tries
    BY ConnectionsAssumption DEF Tries
  <2>3. calls' \in 0..MaxCalls
    BY <1>1 DEF ConnectionsInv, TypeOK
  <2> QED BY <1>2, <1>4, <2>1, <2>2, <2>3, ConnectKeeps
<1> QED BY <1>3, <1>4

LEMMA SwitchMonitorKeeps ==
  ASSUME ConnectionsInv, NEW m \in {"off", "normal", "background"}, SwitchMonitor(m)
  PROVE  ConnectionsInv'
<1>1. /\ ws' = ws /\ wsMap' = wsMap /\ intentional' = intentional /\ down' = down /\ spared' = spared
      /\ attempt' = attempt /\ call' = call /\ enabled' = enabled /\ monitor' = m
      /\ task' = task /\ timers' = timers /\ lasting' = lasting /\ forsaken' = forsaken
      /\ failures' = failures
  BY DEF SwitchMonitor, marks, retry, history
<1>2. calls' \in 0..MaxCalls
  BY CallsType DEF SwitchMonitor, ConnectionsInv
<1>3. TypeOK' /\ RetryOK'
  BY <1>1, <1>2 DEF ConnectionsInv, TypeOK, RetryOK
<1>4. Addressed' /\ Shaking' /\ Wanted' /\ DownStaysDown'
  BY <1>1 DEF ConnectionsInv, Addressed, Shaking, Wanted, DownStaysDown, Connected
<1>5. Kept'
  BY <1>1 DEF ConnectionsInv, Kept, Held, Connected, Timed, Asking
<1> QED BY <1>3, <1>4, <1>5 DEF ConnectionsInv

------------------------------------------------------------------------------
(* The invariant of the specification.                                     *)

LEMMA InitConnectionsInv == Init => ConnectionsInv
<1> SUFFICES ASSUME Init PROVE ConnectionsInv
  OBVIOUS
<1>1. /\ Unused \in [url : Urls \cup {"none"}, up : BOOLEAN,
                     st : {"new", "shaking", "open", "closing", "closed"}]
      /\ Unused.up = FALSE
  BY DEF Unused
<1>2. /\ NoAttempt.pc = "none"
      /\ NoAttempt \in [pc : {"none", "pause", "info", "shake"}, left : 0..Retries,
                        sock : Sockets \cup {NoSocket}]
  BY ConnectionsAssumption DEF NoAttempt
<1>3. /\ NoCall.pc = "free"
      /\ NoCall \in [pc : {"free", "info", "joined"}, url : Urls \cup {"none"},
                     why : {"user", "auto", "timer"}, n : Tries]
  BY ConnectionsAssumption DEF NoCall, Tries
<1>4. TypeOK /\ RetryOK
  BY <1>1, <1>2, <1>3, ConnectionsAssumption DEF Init, TypeOK, RetryOK, Tries
<1>5. Addressed /\ Shaking
  BY <1>1, <1>2, <1>3 DEF Init, Addressed, Shaking
<1>6. DownStaysDown /\ Wanted /\ Kept
  BY DEF Init, DownStaysDown, Wanted, Kept
<1> QED BY <1>4, <1>5, <1>6 DEF ConnectionsInv

LEMMA ConnectionsInvStep == ConnectionsInv /\ [Next]_connVars => ConnectionsInv'
<1> SUFFICES ASSUME ConnectionsInv, [Next]_connVars PROVE ConnectionsInv'
  OBVIOUS
<1>1. ASSUME NEW u \in Urls, UserConnects(u) PROVE ConnectionsInv'
  <2>1. calls' \in 0..MaxCalls /\ 0 \in Tries /\ Connect(u, "user", 0)
    BY <1>1, CallsType, ConnectionsAssumption DEF UserConnects, ConnectionsInv, Tries
  <2> QED BY <2>1, ConnectKeeps
<1>2. ASSUME NEW u \in Urls, OthersConnect(u) PROVE ConnectionsInv'
  <2>1. calls' \in 0..MaxCalls /\ 0 \in Tries /\ Connect(u, "auto", 0)
    BY <1>2, CallsType, ConnectionsAssumption DEF OthersConnect, ConnectionsInv, Tries
  <2> QED BY <2>1, ConnectKeeps
<1>3. ASSUME StartLatencyMonitor \/ StopLatencyMonitor \/ HandleVisibilityChange PROVE ConnectionsInv'
  BY <1>3, SwitchMonitorKeeps DEF StartLatencyMonitor, StopLatencyMonitor, HandleVisibilityChange
<1>4. CASE UNCHANGED connVars
  <2>1. TypeOK' /\ RetryOK'
    BY <1>4 DEF ConnectionsInv, TypeOK, RetryOK, connVars, marks, retry, history
  <2>2. Addressed' /\ Shaking' /\ Wanted' /\ DownStaysDown'
    BY <1>4 DEF ConnectionsInv, Addressed, Shaking, Wanted, DownStaysDown, Connected, connVars, marks, history
  <2>3. Kept'
    BY <1>4 DEF ConnectionsInv, Kept, Held, Connected, Timed, Asking, connVars, retry, history
  <2> QED BY <2>1, <2>2, <2>3 DEF ConnectionsInv
<1> QED
  BY <1>1, <1>2, <1>3, <1>4, PauseEndsKeeps, OpenSocketKeeps, HandshakeSucceedsKeeps,
     HandshakeFailsKeeps, ResetStaleConnectionKeeps, SendToServerFailsKeeps, DisconnectKeeps,
     CallContinuesKeeps, ClosesKeeps, RunReconnectKeeps, DisconnectAllKeeps,
     SetAutoReconnectKeeps
  DEF Next

LEMMA AlwaysConnectionsInv == Spec => []ConnectionsInv
BY InitConnectionsInv, ConnectionsInvStep, PTL DEF Spec

(* The tables, attempts, calls and timers of ServerManager stay well typed *)
(* (server.js:38-64); no timer is cleared that does not run.               *)
THEOREM ServerConnectionsTyped == Spec => []TypeOK
<1>1. ConnectionsInv => TypeOK
  BY DEF ConnectionsInv
<1> QED BY <1>1, AlwaysConnectionsInv, PTL

(* What the user disconnected stays down until the user connects it again, *)
(* whichever attempts, timers and background tasks are under way           *)
(* (server.js:51, :214, :316, :1180), but for the servers a disconnectAll  *)
(* left unmarked, as they were not connected at that moment (:1124).       *)
THEOREM DownStaysDownHolds == Spec => []DownStaysDown
<1>1. ConnectionsInv => DownStaysDown
  BY DEF ConnectionsInv
<1> QED BY <1>1, AlwaysConnectionsInv, PTL

(* A server that was connected and that nobody gave up is connected, on the*)
(* way, or has a reconnect timer running (server.js:49).                   *)
THEOREM KeptUpHolds == Spec => []KeptUp
<1>1. ConnectionsInv => KeptUp
  BY DEF ConnectionsInv, Kept, Held, Timed, Asking, KeptUp, OnTheWay
<1> QED BY <1>1, AlwaysConnectionsInv, PTL

(***************************************************************************)
(* RtcNegotiation.                                                         *)
(***************************************************************************)
(* A connection closes as a whole, and only one with a remote description  *)
(* connects.                                                               *)
Sane ==
  \A p \in Pcs :
    /\ pc[p].sig = "closed" <=> pc[p].conn = "closed"
    /\ pc[p].conn # "failed"
    /\ pc[p].remote = None => pc[p].conn \in {"new", "closed"}

(* A connection that is not under the key any more is closed, or was never *)
(* described by a remote one.                                              *)
Abandoned ==
  \A p \in Pcs : p # peers[p[1]] =>
    pc[p].conn = "closed" \/ (pc[p].remote = None /\ pc[p].conn = "new")

OwnPeers == \A e \in Ends : peers[e] # None => peers[e][1] = e

(* An operation under the lock works on the connection under the key, or on*)
(* one that was closed meanwhile and that its next await will find closed. *)
InHand(e, p) == p = peers[e] \/ pc[p].sig = "closed"
AtWork ==
  \A e \in Ends : step[e] \in {"setLocal", "apply", "answer"} =>
    work[e] \in Pcs /\ work[e][1] = e /\ InHand(e, work[e])

Doing ==
  \A e \in Ends :
    /\ step[e] # "start" => lock[e] # <<>> /\ work[e] \in Pcs
    /\ step[e] = "apply" => Head(lock[e]).kind = "offer"
Froms ==
  \A e \in Ends : \A i \in 1..Len(lock[e]) :
    lock[e][i].kind # "connect" => lock[e][i].from \in Pcs

PcInv   == Sane /\ Abandoned /\ OwnPeers
LockInv == AtWork /\ Doing /\ Froms
RtcInv  == RtcTypeOK /\ PcInv /\ LockInv

------------------------------------------------------------------------------
LEMMA RtcNames ==
  /\ \A p \in Pcs : p[1] \in Ends /\ p # None /\ p # Stub(p[1])
  /\ \A p \in Pcs, e \in Ends : p # Stub(e)
  /\ \A p \in Pcs : p \in Objects
  /\ \A e \in Ends : Stub(e) \in Objects /\ Stub(e) # None /\ Stub(e)[1] = e
  /\ \A e \in Ends : Other(e) \in Ends
  /\ \A p \in Pcs : <<p, "own">> \in Halves /\ <<p, "in">> \in Halves
<1>0. USE RtcAssumption
<1>1. ASSUME NEW p \in Pcs PROVE p[1] \in Ends /\ p[2] \in Nat \ {0} /\ p \in Objects
  <2>1. PICK e \in Ends : p \in {e} \X (1..MaxPcs[e])
    BY DEF Pcs
  <2>2. p[1] = e /\ p[2] \in 1..MaxPcs[e] /\ MaxPcs[e] \in Nat
    BY <2>1
  <2> QED BY <2>2 DEF Objects
<1>2. \A p \in Pcs, e \in Ends : p # Stub(e)
  BY <1>1 DEF Stub
<1>3. \A p \in Pcs : p # None
  BY <1>1
<1>4. \A e \in Ends : Stub(e) \in Objects /\ Stub(e) # None /\ Stub(e)[1] = e
  BY DEF Objects, Stub
<1>5. \A e \in Ends : Other(e) \in Ends
  BY DEF Other
<1>6. \A p \in Pcs : <<p, "own">> \in Halves /\ <<p, "in">> \in Halves
  BY DEF Halves
<1> QED BY <1>1, <1>2, <1>3, <1>4, <1>5, <1>6

(* What is under the key is a connection, unless it is the placeholder.    *)
LEMMA PeerIsPc ==
  ASSUME RtcTypeOK, OwnPeers, NEW e \in Ends, HasPc(e)
  PROVE  peers[e] \in Pcs /\ peers[e][1] = e
<1>1. peers[e] \in Objects /\ peers[e] # Stub(e) /\ peers[e][1] = e
  BY DEF HasPc, RtcTypeOK, OwnPeers
<1>2. \A o \in Ends : Stub(o)[1] = o
  BY DEF Stub
<1> QED BY <1>1, <1>2 DEF Objects

(* A connection on which something has happened is the one under the key.  *)
LEMMA LiveIsPeer ==
  ASSUME Abandoned, NEW p \in Pcs, pc[p].conn # "closed", pc[p].remote # None \/ pc[p].conn # "new"
  PROVE  peers[p[1]] = p
BY DEF Abandoned

------------------------------------------------------------------------------
(* How the connections change.  Steady(e): the connection that an operation*)
(* of e works on stays under the key, or is closed.                        *)
Steady(e) == \A p \in Pcs : p[1] = e /\ InHand(e, p) => InHand(e, p)'
Touches(p) == pc' \in [Pcs -> PcStates] /\ \A q \in Pcs \ {p} : pc'[q] = pc[q]

LEMMA NothingTouched ==
  ASSUME PcInv, UNCHANGED <<peers, pc>>
  PROVE  PcInv' /\ \A e \in Ends : Steady(e)
BY DEF PcInv, Sane, Abandoned, OwnPeers, Steady, InHand

(* The connection under the key, or one that stays as it was abandoned.    *)
LEMMA OneTouched ==
  ASSUME PcInv, NEW p \in Pcs, Touches(p), UNCHANGED peers, peers[p[1]] = p,
         pc'[p].sig = "closed" <=> pc'[p].conn = "closed", pc'[p].conn # "failed",
         pc'[p].remote = None => pc'[p].conn \in {"new", "closed"}
  PROVE  PcInv' /\ \A e \in Ends : Steady(e)
<1>1. Sane'
  BY DEF PcInv, Sane, Touches
<1>2. Abandoned'
  BY DEF PcInv, Abandoned, Touches
<1>3. OwnPeers'
  BY DEF PcInv, OwnPeers
<1>4. \A e \in Ends : Steady(e)
  BY DEF Steady, InHand, Touches
<1> QED BY <1>1, <1>2, <1>3, <1>4 DEF PcInv

(* The entry is forgotten, and its connection closed.                      *)
LEMMA Forgotten ==
  ASSUME RtcTypeOK, PcInv, NEW o \in Ends, peers' = [peers EXCEPT ![o] = None],
         IF HasPc(o)
         THEN /\ Touches(peers[o])
              /\ pc'[peers[o]].sig = "closed" /\ pc'[peers[o]].conn = "closed"
         ELSE UNCHANGED pc
  PROVE  PcInv' /\ \A e \in Ends : Steady(e)
<1>1. /\ \A e \in Ends : peers'[e] = IF e = o THEN None ELSE peers[e]
      /\ \A p \in Pcs : p[1] \in Ends /\ p # None /\ p # Stub(p[1])
  BY RtcNames DEF RtcTypeOK
<1>2. \A q \in Pcs : q # peers[o] => pc'[q] = pc[q]
  BY DEF Touches
<1>3. \A q \in Pcs : q = peers[o] => q[1] = o /\ HasPc(o)
  BY RtcNames DEF PcInv, OwnPeers, HasPc
<1>4. Sane'
  BY <1>2, <1>3 DEF PcInv, Sane
<1>5. Abandoned'
  BY <1>1, <1>2, <1>3 DEF PcInv, Abandoned
<1>6. OwnPeers'
  BY <1>1 DEF PcInv, OwnPeers
<1>7. \A e \in Ends : Steady(e)
  BY <1>1, <1>2, <1>3 DEF Steady, InHand
<1> QED BY <1>4, <1>5, <1>6, <1>7 DEF PcInv

(* A new connection comes under the key when the one there was abandoned.  *)
LEMMA NewUnderKey ==
  ASSUME RtcTypeOK, PcInv, NEW o \in Ends, NEW p \in UnusedPcs(o),
         peers' = [peers EXCEPT ![o] = p], pc' = [pc EXCEPT ![p] = FreshPc],
         ~TakenOver(o)
  PROVE  /\ PcInv' /\ peers'[o] = p /\ \A e \in Ends \ {o} : Steady(e)
         /\ p \in Pcs /\ p[1] = o /\ pc' \in [Pcs -> PcStates]
<1>1. /\ \A e \in Ends : peers'[e] = IF e = o THEN p ELSE peers[e]
      /\ p \in Pcs /\ p[1] = o /\ pc[p].sig = "none"
      /\ \A q \in Pcs : q[1] \in Ends /\ q # None /\ q # Stub(o)
  BY RtcNames DEF RtcTypeOK, UnusedPcs
<1>2. FreshPc \in PcStates /\ FreshPc.sig = "stable" /\ FreshPc.conn = "new" /\ FreshPc.remote = None
  BY DEF FreshPc, NoPc, PcStates
<1>3. /\ pc' \in [Pcs -> PcStates] /\ pc'[p] = FreshPc
      /\ \A q \in Pcs : q # p => pc'[q] = pc[q]
  BY <1>1, <1>2 DEF RtcTypeOK
<1>4. Sane'
  BY <1>2, <1>3 DEF PcInv, Sane
<1>5. \A q \in Pcs : q = peers[o] => pc[q].conn = "closed" \/ (pc[q].remote = None /\ pc[q].conn = "new")
  BY <1>1 DEF PcInv, Sane, TakenOver, PcUsable, HasPc
<1>6. Abandoned'
  <2>1. ASSUME NEW q \in Pcs, q # peers'[q[1]]
        PROVE  q # p /\ (pc[q].conn = "closed" \/ (pc[q].remote = None /\ pc[q].conn = "new"))
    BY <1>1, <1>5, <2>1 DEF PcInv, Abandoned
  <2> QED BY <2>1, <1>3 DEF Abandoned
<1>7. OwnPeers'
  BY <1>1 DEF PcInv, OwnPeers
<1>8. \A e \in Ends \ {o} : Steady(e)
  BY <1>1, <1>3 DEF Steady, InHand
<1> QED BY <1>1, <1>3, <1>4, <1>6, <1>7, <1>8 DEF PcInv

------------------------------------------------------------------------------
(* How the operations under the locks change.                              *)
LockTypes == lock \in [Ends -> Seq(Op)] /\ step \in [Ends -> Steps]
             /\ work \in [Ends -> Pcs \cup {None}] /\ connecting \in [Ends -> BOOLEAN]

LEMMA LocksKept ==
  ASSUME LockInv, LockTypes, UNCHANGED locks, \A e \in Ends : Steady(e)
  PROVE  LockInv' /\ LockTypes'
BY DEF LockInv, LockTypes, AtWork, Doing, Froms, Steady, locks

LEMMA Queued ==
  ASSUME LockInv, LockTypes, NEW e \in Ends, NEW op \in Op, Enqueue(e, op),
         op.kind # "connect" => op.from \in Pcs,
         UNCHANGED <<step, work>>, connecting' \in [Ends -> BOOLEAN], \A o \in Ends : Steady(o)
  PROVE  LockInv' /\ LockTypes'
<1>1. lock' \in [Ends -> Seq(Op)] /\ lock'[e] = Append(lock[e], op) /\ \A o \in Ends \ {e} : lock'[o] = lock[o]
  BY DEF LockTypes, Enqueue
<1>2. lock[e] \in Seq(Op)
  BY DEF LockTypes
<1>3. AtWork'
  BY DEF LockInv, AtWork, Steady
<1>4. Doing'
  <2>1. Append(lock[e], op) # <<>> /\ (lock[e] # <<>> => Head(Append(lock[e], op)) = Head(lock[e]))
    BY <1>2, AppendProperties
  <2>2. step'[e] # "start" => lock[e] # <<>> /\ work'[e] \in Pcs
    BY DEF LockInv, Doing
  <2>3. /\ step'[e] # "start" => lock'[e] # <<>> /\ work'[e] \in Pcs
        /\ step'[e] = "apply" => Head(lock'[e]).kind = "offer"
    BY <1>1, <2>1, <2>2 DEF LockInv, Doing
  <2> QED BY <1>1, <2>3 DEF LockInv, Doing
<1>5. Froms'
  <2>1. \A i \in 1..Len(Append(lock[e], op)) :
          Append(lock[e], op)[i] = IF i <= Len(lock[e]) THEN lock[e][i] ELSE op
    BY <1>2
  <2>2. Len(Append(lock[e], op)) = Len(lock[e]) + 1 /\ Len(lock[e]) \in Nat
    BY <1>2
  <2>3. \A i \in 1..Len(lock'[e]) : lock'[e][i].kind # "connect" => lock'[e][i].from \in Pcs
    BY <1>1, <2>1, <2>2 DEF LockInv, Froms
  <2> QED BY <1>1, <2>3 DEF LockInv, Froms
<1> QED BY <1>1, <1>3, <1>4, <1>5 DEF LockInv, LockTypes

LEMMA Left ==
  ASSUME LockInv, LockTypes, NEW e \in Ends, lock[e] # <<>>, Leave(e), \A o \in Ends : Steady(o)
  PROVE  LockInv' /\ LockTypes'
<1>0. lock[e] \in Seq(Op) /\ Tail(lock[e]) \in Seq(Op) /\ Len(Tail(lock[e])) = Len(lock[e]) - 1
      /\ Len(lock[e]) \in Nat \ {0}
  BY DEF LockTypes
<1>1. /\ lock' \in [Ends -> Seq(Op)] /\ lock'[e] = Tail(lock[e])
      /\ \A o \in Ends \ {e} : lock'[o] = lock[o]
  BY <1>0 DEF LockTypes, Leave
<1>2. /\ step' \in [Ends -> Steps] /\ step'[e] = "start" /\ \A o \in Ends \ {e} : step'[o] = step[o]
      /\ work' \in [Ends -> Pcs \cup {None}] /\ \A o \in Ends \ {e} : work'[o] = work[o]
  BY DEF LockTypes, Leave, Steps
<1>3. connecting' \in [Ends -> BOOLEAN]
  BY DEF LockTypes, Leave
<1>4. AtWork'
  BY <1>2 DEF LockInv, AtWork, Steady
<1>5. Doing'
  BY <1>1, <1>2 DEF LockInv, Doing
<1>6. Froms'
  <2>1. \A i \in 1..Len(Tail(lock[e])) : Tail(lock[e])[i] = lock[e][i + 1] /\ i + 1 \in 1..Len(lock[e])
    BY <1>0
  <2>2. \A i \in 1..Len(lock'[e]) : lock'[e][i].kind # "connect" => lock'[e][i].from \in Pcs
    BY <1>1, <2>1 DEF LockInv, Froms
  <2> QED BY <1>1, <2>2 DEF LockInv, Froms
<1> QED BY <1>1, <1>2, <1>3, <1>4, <1>5, <1>6 DEF LockInv, LockTypes

LEMMA WentOn ==
  ASSUME LockInv, LockTypes, NEW e \in Ends, NEW s \in Steps \ {"start"}, NEW p \in Pcs, Goto(e, s, p),
         lock[e] # <<>>, s = "apply" => Head(lock[e]).kind = "offer",
         p[1] = e, p = peers'[e] \/ s = "send", \A o \in Ends \ {e} : Steady(o)
  PROVE  LockInv' /\ LockTypes'
<1>1. /\ step' \in [Ends -> Steps] /\ step'[e] = s /\ \A o \in Ends \ {e} : step'[o] = step[o]
      /\ work' \in [Ends -> Pcs \cup {None}] /\ work'[e] = p
      /\ \A o \in Ends \ {e} : work'[o] = work[o]
      /\ lock' = lock /\ connecting' = connecting
  BY DEF LockTypes, Goto
<1>2. AtWork'
  <2>1. step'[e] \in {"setLocal", "apply", "answer"} => work'[e] \in Pcs /\ work'[e][1] = e /\ InHand(e, work[e])'
    BY <1>1 DEF InHand
  <2>2. ASSUME NEW o \in Ends \ {e}, step'[o] \in {"setLocal", "apply", "answer"}
        PROVE  work'[o] \in Pcs /\ work'[o][1] = o /\ InHand(o, work[o])'
    <3>1. work'[o] = work[o] /\ work[o] \in Pcs /\ work[o][1] = o /\ InHand(o, work[o])
      BY <1>1, <2>2 DEF LockInv, AtWork
    <3> QED BY <3>1 DEF Steady, InHand
  <2> QED BY <2>1, <2>2 DEF AtWork
<1>3. Doing'
  BY <1>1 DEF LockInv, Doing
<1>4. Froms'
  BY <1>1 DEF LockInv, Froms
<1> QED BY <1>1, <1>2, <1>3, <1>4 DEF LockInv, LockTypes

------------------------------------------------------------------------------
(* The other variables, and what the helpers do to them.                   *)
Sigs == {"none", "stable", "have-local-offer", "have-remote-offer", "closed"}
Entered == peers \in [Ends -> Objects \cup {None}] /\ entry \in [Objects -> EntryStates]
Around ==
  /\ half \in [Halves -> {"none", "connecting", "open", "closed"}]
  /\ initiated \in [Ends -> BOOLEAN] /\ net \subseteq Signals /\ gathered \subseteq Pcs
  /\ faults \subseteq Faults
Shapes == pc \in [Pcs -> PcStates] /\ Entered /\ Around

LEMMA RtcTypeParts == RtcTypeOK <=> Shapes /\ LockTypes
BY DEF RtcTypeOK, Shapes, Entered, Around, LockTypes

LEMMA EntryUpdates ==
  ASSUME entry \in [Objects -> EntryStates], NEW o \in Objects
  PROVE  /\ \A s \in {"connecting", "connected", "disconnected"} :
              [entry EXCEPT ![o].state = s] \in [Objects -> EntryStates]
         /\ \A d \in Halves \cup {None} : [entry EXCEPT ![o].dc = d] \in [Objects -> EntryStates]
         /\ \A c \in SUBSET Pcs : [entry EXCEPT ![o].pend = c] \in [Objects -> EntryStates]
<1>1. entry[o] \in EntryStates
  OBVIOUS
<1>2. ASSUME NEW s \in {"connecting", "connected", "disconnected"}
      PROVE  [entry EXCEPT ![o].state = s] \in [Objects -> EntryStates]
  BY <1>1 DEF EntryStates
<1>3. ASSUME NEW d \in Halves \cup {None} PROVE [entry EXCEPT ![o].dc = d] \in [Objects -> EntryStates]
  BY <1>1 DEF EntryStates
<1>4. ASSUME NEW c \in SUBSET Pcs PROVE [entry EXCEPT ![o].pend = c] \in [Objects -> EntryStates]
  BY <1>1 DEF EntryStates
<1> QED BY <1>2, <1>3, <1>4

LEMMA NewEntries ==
  ASSUME entry \in [Objects -> EntryStates], NEW o \in Objects, NEW d \in Halves \cup {None}, NEW c \in SUBSET Pcs
  PROVE  [entry EXCEPT ![o] = NewEntry(d, c)] \in [Objects -> EntryStates]
BY DEF EntryStates, NewEntry

LEMMA Signed ==
  ASSUME pc \in [Pcs -> PcStates], NEW p \in Pcs, NEW s \in Sigs, pc' = Sig(p, s)
  PROVE  Touches(p) /\ pc'[p].sig = s /\ pc'[p].conn = pc[p].conn /\ pc'[p].remote = pc[p].remote
<1>1. pc[p] \in PcStates
  OBVIOUS
<1> QED BY <1>1 DEF Sig, Sigs, Touches, PcStates

LEMMA Described ==
  ASSUME pc \in [Pcs -> PcStates], entry \in [Objects -> EntryStates],
         NEW e, NEW p \in Pcs, NEW from \in Pcs, NEW s \in Sigs, Describe(e, p, from, s)
  PROVE  /\ Touches(p) /\ pc'[p].sig = s /\ pc'[p].conn = pc[p].conn /\ pc'[p].remote = from
         /\ entry' \in [Objects -> EntryStates]
<1>1. pc[p] \in PcStates /\ p \in Objects
  BY RtcNames
<1>2. entry' \in [Objects -> EntryStates]
  BY <1>1, EntryUpdates DEF Describe
<1> DEFINE a == pc[p].added \cup (entry[p].pend \cap {from})
<1>3. a \in SUBSET Pcs
  BY <1>1 DEF PcStates
<1>4. pc' = [pc EXCEPT ![p].remote = from, ![p].sig = s, ![p].added = a]
  BY DEF Describe
<1> HIDE DEF a
<1>5. Touches(p) /\ pc'[p].sig = s /\ pc'[p].conn = pc[p].conn /\ pc'[p].remote = from
  BY <1>1, <1>3, <1>4 DEF Touches, PcStates, Sigs
<1> QED BY <1>2, <1>5

LEMMA Closed ==
  ASSUME pc \in [Pcs -> PcStates], Around, NEW p \in Pcs, Close(p)
  PROVE  /\ Touches(p) /\ pc'[p].sig = "closed" /\ pc'[p].conn = "closed"
         /\ half' \in [Halves -> {"none", "connecting", "open", "closed"}]
<1>1. pc[p] \in PcStates /\ p # None
  BY RtcNames
<1>2. pc' = [pc EXCEPT ![p].sig = "closed", ![p].conn = "closed"]
  BY <1>1 DEF Close
<1>3. Touches(p) /\ pc'[p].sig = "closed" /\ pc'[p].conn = "closed"
  BY <1>1, <1>2 DEF Touches, PcStates
<1>4. half' \in [Halves -> {"none", "connecting", "open", "closed"}]
  BY <1>1 DEF Close, Around
<1> QED BY <1>3, <1>4

LEMMA Entries ==
  ASSUME Entered, NEW e \in Ends, peers[e] # None
  PROVE  peers[e] \in Objects
BY DEF Entered

(* The buffer and the channel of the entry under the key, for its successor. *)
LEMMA Carried ==
  ASSUME Entered, NEW e \in Ends
  PROVE  /\ Pending(e) \in SUBSET Pcs
         /\ peers[e] # None => entry[peers[e]].dc \in Halves \cup {None}
<1>1. CASE peers[e] = None
  BY <1>1 DEF Pending
<1>2. CASE peers[e] # None
  <2>1. entry[peers[e]] \in EntryStates
    BY <1>2, Entries DEF Entered
  <2> QED BY <2>1, <1>2 DEF Pending, EntryStates
<1> QED BY <1>1, <1>2

LEMMA TornDown ==
  ASSUME RtcTypeOK, PcInv, NEW e \in Ends, NEW p \in Pcs, peers[e] = p, Teardown(e, p)
  PROVE  /\ PcInv' /\ \A o \in Ends : Steady(o)
         /\ pc' \in [Pcs -> PcStates] /\ Entered'
         /\ half' \in [Halves -> {"none", "connecting", "open", "closed"}]
         /\ initiated' \in [Ends -> BOOLEAN]
<1>1. Shapes
  BY RtcTypeParts
<1>2. p # None /\ p \in Objects /\ p[1] \in Ends /\ p # Stub(e)
  BY RtcNames
<1>3. /\ Touches(p) /\ pc'[p].sig = "closed" /\ pc'[p].conn = "closed"
      /\ half' \in [Halves -> {"none", "connecting", "open", "closed"}]
  BY <1>1, Closed DEF Shapes, Teardown
<1>4. peers' = [peers EXCEPT ![e] = None] /\ initiated' \in [Ends -> BOOLEAN]
  BY <1>1 DEF Teardown, Shapes, Around
<1>5. Entered'
  BY <1>1, <1>2, <1>4, EntryUpdates DEF Teardown, Shapes, Entered
<1>6. HasPc(e)
  BY <1>2 DEF HasPc
<1>7. PcInv' /\ \A o \in Ends : Steady(o)
  BY <1>3, <1>4, <1>6, Forgotten
<1> QED BY <1>3, <1>4, <1>5, <1>7 DEF Touches

LEMMA SignalSent ==
  ASSUME net \subseteq Signals, NEW k \in {"offer", "answer", "ice"}, NEW p \in Pcs, Send(k, p)
  PROVE  net' \subseteq Signals
BY DEF Send, Signals

LEMMA Faulted ==
  ASSUME faults \subseteq Faults, NEW k \in Faults, Fault(k)
  PROVE  faults' \subseteq Faults
BY DEF Fault

(* The first operation under a lock names the other end's connection.      *)
LEMMA FirstFrom ==
  ASSUME Froms, LockTypes, NEW e \in Ends, lock[e] # <<>>, Head(lock[e]).kind # "connect"
  PROVE  Head(lock[e]).from \in Pcs
<1>1. lock[e] \in Seq(Op) /\ 1 \in 1..Len(lock[e]) /\ Head(lock[e]) = lock[e][1]
  BY DEF LockTypes
<1> QED BY <1>1 DEF Froms

------------------------------------------------------------------------------
(* The operations under a lock.                                            *)
LEMMA RtcPut ==
  ASSUME LockInv', LockTypes', PcInv', (pc \in [Pcs -> PcStates])', Entered', Around'
  PROVE  RtcInv'
BY DEF RtcInv, RtcTypeOK, LockTypes, Entered, Around

LEMMA RtcHas ==
  ASSUME RtcInv
  PROVE  /\ LockInv /\ LockTypes /\ PcInv /\ RtcTypeOK /\ Shapes
         /\ AtWork /\ Doing /\ Froms /\ Sane /\ Abandoned /\ OwnPeers
         /\ pc \in [Pcs -> PcStates] /\ Entered /\ Around /\ entry \in [Objects -> EntryStates]
BY RtcTypeParts DEF RtcInv, LockInv, PcInv, Shapes, Entered

LEMMA ConnectPeerKeeps ==
  ASSUME RtcInv, NEW e \in Ends, ConnectPeer(e)
  PROVE  RtcInv'
<1>0. USE RtcHas
<1>1. PcInv' /\ \A o \in Ends : Steady(o)
  BY NothingTouched DEF ConnectPeer, entries, browser
<1>2. LockInv' /\ LockTypes'
  <2>1. CASE UNCHANGED locks
    BY <1>1, <2>1, LocksKept
  <2>2. CASE /\ Enqueue(e, [kind |-> "connect", from |-> None])
             /\ connecting' = [connecting EXCEPT ![e] = TRUE]
    <3>1. [kind |-> "connect", from |-> None] \in Op
      BY DEF Op
    <3>2. UNCHANGED <<step, work>> /\ connecting' \in [Ends -> BOOLEAN]
      BY <2>2 DEF ConnectPeer, LockTypes
    <3> QED BY <1>1, <2>2, <3>1, <3>2, Queued
  <2> QED BY <2>1, <2>2 DEF ConnectPeer, locks
<1>3. Around'
  BY DEF ConnectPeer, Around, browser
<1> QED BY <1>1, <1>2, <1>3, RtcPut DEF ConnectPeer, entries, browser, Entered

LEMMA LeavingKeeps ==
  ASSUME RtcInv, NEW e \in Ends, lock[e] # <<>>, Leave(e), UNCHANGED <<entries, browser>>, Around'
  PROVE  RtcInv'
<1>0. USE RtcHas
<1>1. PcInv' /\ \A o \in Ends : Steady(o)
  BY NothingTouched DEF entries, browser
<1>2. LockInv' /\ LockTypes'
  BY <1>1, Left
<1> QED BY <1>1, <1>2, RtcPut DEF entries, browser, Entered

LEMMA DoConnectGivesWayKeeps ==
  ASSUME RtcInv, NEW e \in Ends, DoConnectGivesWay(e)
  PROVE  RtcInv'
<1>1. Around'
  BY RtcHas DEF DoConnectGivesWay, Around, browser
<1> QED BY <1>1, LeavingKeeps DEF DoConnectGivesWay, Running

LEMMA IgnoreOfferKeeps ==
  ASSUME RtcInv, NEW e \in Ends, IgnoreOffer(e)
  PROVE  RtcInv'
<1>1. Around'
  BY RtcHas DEF IgnoreOffer, Around, browser
<1> QED BY <1>1, LeavingKeeps DEF IgnoreOffer, Running

LEMMA SendSignalKeeps ==
  ASSUME RtcInv, NEW e \in Ends, SendSignal(e)
  PROVE  RtcInv'
<1>0. lock[e] # <<>> /\ work[e] \in Pcs
  BY RtcHas DEF SendSignal, Doing
<1>1. net' \subseteq Signals
  BY <1>0, SignalSent, RtcHas DEF SendSignal, Around
<1>2. Around'
  BY <1>1, RtcHas DEF SendSignal, Around, browser
<1> QED BY <1>0, <1>2, LeavingKeeps DEF SendSignal

LEMMA SendFailsKeeps ==
  ASSUME RtcInv, NEW e \in Ends, SendFails(e)
  PROVE  RtcInv'
<1>0. lock[e] # <<>>
  BY RtcHas DEF SendFails, Doing
<1>1. faults' \subseteq Faults
  BY Faulted, RtcHas DEF SendFails, Around, Faults
<1>2. Around'
  BY <1>1, RtcHas DEF SendFails, Around, browser
<1> QED BY <1>0, <1>2, LeavingKeeps DEF SendFails

LEMMA DoConnectKeeps ==
  ASSUME RtcInv, NEW e \in Ends, DoConnect(e)
  PROVE  RtcInv'
<1>0. USE RtcHas
<1> DEFINE p == NextPc(e)
<1>1. p \in UnusedPcs(e)
  BY DEF DoConnect, NextPc
<1>2. /\ pc' = [pc EXCEPT ![p] = FreshPc] /\ half' = [half EXCEPT ![<<p, "own">>] = "connecting"]
      /\ entry' = [entry EXCEPT ![p] = NewEntry(<<p, "own">>, Pending(e))]
      /\ peers' = [peers EXCEPT ![e] = p] /\ Goto(e, "setLocal", p)
      /\ ~TakenOver(e) /\ Running(e, "connect") /\ UNCHANGED <<initiated, net, gathered, faults>>
  BY DEF DoConnect
<1> HIDE DEF p
<1>3. /\ PcInv' /\ peers'[e] = p /\ \A o \in Ends \ {e} : Steady(o)
      /\ p \in Pcs /\ p[1] = e /\ (pc \in [Pcs -> PcStates])'
  BY <1>1, <1>2, NewUnderKey
<1>4. p \in Objects /\ <<p, "own">> \in Halves
  BY <1>3, RtcNames
<1>5. Entered'
  BY <1>2, <1>4, Carried, NewEntries DEF Entered
<1>6. Around'
  BY <1>2, <1>4 DEF Around
<1>7. LockInv' /\ LockTypes'
  BY <1>2, <1>3, WentOn DEF Running, Steps
<1> QED BY <1>3, <1>5, <1>6, <1>7, RtcPut

LEMMA AcceptOnNewPcKeeps ==
  ASSUME RtcInv, NEW e \in Ends, AcceptOnNewPc(e)
  PROVE  RtcInv'
<1>0. USE RtcHas
<1> DEFINE p == NextPc(e)
           dc == IF peers[e] = None THEN None ELSE entry[peers[e]].dc
<1>1. p \in UnusedPcs(e)
  BY DEF AcceptOnNewPc, NextPc
<1>a. dc \in Halves \cup {None}
  BY Carried
<1>2. /\ pc' = [pc EXCEPT ![p] = FreshPc]
      /\ entry' = [entry EXCEPT ![p] = NewEntry(dc, Pending(e))]
      /\ peers' = [peers EXCEPT ![e] = p] /\ Goto(e, "apply", p)
      /\ ~TakenOver(e) /\ Running(e, "offer") /\ UNCHANGED <<half, initiated, net, gathered, faults>>
  BY DEF AcceptOnNewPc, TakenOver
<1> HIDE DEF p, dc
<1>3. /\ PcInv' /\ peers'[e] = p /\ \A o \in Ends \ {e} : Steady(o)
      /\ p \in Pcs /\ p[1] = e /\ (pc \in [Pcs -> PcStates])'
  BY <1>1, <1>2, NewUnderKey
<1>4. p \in Objects
  BY <1>3, RtcNames
<1>5. Entered'
  BY <1>2, <1>4, <1>a, Carried, NewEntries DEF Entered
<1>6. Around'
  BY <1>2 DEF Around
<1>7. LockInv' /\ LockTypes'
  BY <1>2, <1>3, WentOn DEF Running, Steps
<1> QED BY <1>3, <1>5, <1>6, <1>7, RtcPut

LEMMA AcceptOnOldPcKeeps ==
  ASSUME RtcInv, NEW e \in Ends, AcceptOnOldPc(e)
  PROVE  RtcInv'
<1>0. USE RtcHas
<1>1. PcInv' /\ \A o \in Ends : Steady(o)
  BY NothingTouched DEF AcceptOnOldPc, entries, browser
<1>2. peers[e] \in Pcs /\ peers[e][1] = e
  BY PeerIsPc DEF AcceptOnOldPc, PcUsable
<1>3. LockInv' /\ LockTypes'
  BY <1>1, <1>2, WentOn DEF AcceptOnOldPc, Running, Steps, entries
<1>4. Around'
  BY DEF AcceptOnOldPc, Around, browser
<1> QED BY <1>1, <1>3, <1>4, RtcPut DEF AcceptOnOldPc, entries, browser, Entered

LEMMA RollBackKeeps ==
  ASSUME RtcInv, NEW e \in Ends, RollBack(e)
  PROVE  RtcInv'
<1>0. USE RtcHas
<1> DEFINE p == peers[e]
<1>1. p \in Pcs /\ p[1] = e /\ p \in Objects
  BY PeerIsPc, RtcNames DEF RollBack, OfferOut
<1>2. /\ pc' = Sig(p, "stable") /\ entry' = [entry EXCEPT ![p].dc = None]
      /\ Goto(e, "apply", p) /\ pc[p].sig = "have-local-offer" /\ Running(e, "offer")
      /\ UNCHANGED <<peers, half, initiated, net, gathered, faults>>
  BY DEF RollBack, OfferOut
<1>3. Touches(p) /\ pc'[p].sig = "stable" /\ pc'[p].conn = pc[p].conn /\ pc'[p].remote = pc[p].remote
  BY <1>1, <1>2, Signed DEF Sigs
<1>4. PcInv' /\ \A o \in Ends : Steady(o)
  BY <1>1, <1>2, <1>3, OneTouched DEF Sane
<1>5. LockInv' /\ LockTypes'
  BY <1>1, <1>2, <1>4, WentOn DEF Running, Steps
<1>6. Entered'
  BY <1>1, <1>2, EntryUpdates DEF Entered
<1>7. Around'
  BY <1>2 DEF Around
<1> QED BY <1>3, <1>4, <1>5, <1>6, <1>7, RtcPut DEF Touches

(* The operation finds its connection open: it is the one under the key.   *)
LEMMA WorkIsPeer ==
  ASSUME RtcInv, NEW e \in Ends, step[e] \in {"setLocal", "apply", "answer"}
  PROVE  /\ work[e] \in Pcs /\ work[e][1] = e /\ lock[e] # <<>>
         /\ pc[work[e]].sig # "closed" => peers[e] = work[e]
BY RtcHas DEF AtWork, Doing, InHand

(* A step that only sets the signalling state of the connection at work.   *)
LEMMA SettingKeeps ==
  ASSUME RtcInv, NEW e \in Ends, step[e] \in {"setLocal", "apply", "answer"},
         NEW s \in {"have-local-offer", "stable"},
         IF pc[work[e]].sig = "closed" THEN Leave(e) /\ UNCHANGED pc
         ELSE pc' = Sig(work[e], s) /\ Goto(e, "send", work[e]),
         UNCHANGED <<entries, half, initiated, net, gathered, faults>>
  PROVE  RtcInv'
<1>0. USE RtcHas
<1> DEFINE p == work[e]
<1>1. p \in Pcs /\ p[1] = e /\ lock[e] # <<>>
  BY WorkIsPeer
<1>2. Around'
  BY DEF Around
<1>3. CASE pc[p].sig = "closed"
  BY <1>1, <1>2, <1>3, LeavingKeeps DEF browser
<1>4. CASE pc[p].sig # "closed"
  <2>1. pc' = Sig(p, s) /\ Goto(e, "send", p) /\ peers[p[1]] = p /\ UNCHANGED <<peers, entry>>
    BY <1>1, <1>4, WorkIsPeer DEF entries
  <2>2. Touches(p) /\ pc'[p].sig = s /\ pc'[p].conn = pc[p].conn /\ pc'[p].remote = pc[p].remote
    BY <1>1, <2>1, Signed DEF Sigs
  <2>3. PcInv' /\ \A o \in Ends : Steady(o)
    BY <1>1, <1>4, <2>1, <2>2, OneTouched DEF Sane
  <2>4. LockInv' /\ LockTypes'
    BY <1>1, <2>1, <2>3, WentOn DEF Steps
  <2> QED BY <1>2, <2>1, <2>2, <2>3, <2>4, RtcPut DEF Touches, Entered
<1> QED BY <1>3, <1>4

LEMMA SetLocalOfferKeeps ==
  ASSUME RtcInv, NEW e \in Ends, SetLocalOffer(e)
  PROVE  RtcInv'
BY SettingKeeps DEF SetLocalOffer

LEMMA SetLocalAnswerKeeps ==
  ASSUME RtcInv, NEW e \in Ends, SetLocalAnswer(e)
  PROVE  RtcInv'
BY SettingKeeps DEF SetLocalAnswer

LEMMA ApplyOfferKeeps ==
  ASSUME RtcInv, NEW e \in Ends, ApplyOffer(e)
  PROVE  RtcInv'
<1>0. USE RtcHas
<1> DEFINE p == work[e]
           from == Head(lock[e]).from
<1>1. p \in Pcs /\ p[1] = e /\ lock[e] # <<>> /\ from \in Pcs
  BY WorkIsPeer, FirstFrom DEF ApplyOffer, Doing
<1>2. Around'
  BY DEF ApplyOffer, Around
<1>3. CASE Leave(e) /\ UNCHANGED <<pc, entry>>
  BY <1>1, <1>2, <1>3, LeavingKeeps DEF ApplyOffer, browser, entries
<1>4. CASE pc[p].sig # "closed" /\ Describe(e, p, from, "have-remote-offer") /\ Goto(e, "answer", p)
  <2>1. UNCHANGED peers /\ peers[p[1]] = p /\ from # None
    BY <1>1, <1>4, WorkIsPeer, RtcNames DEF ApplyOffer
  <2>2. /\ Touches(p) /\ pc'[p].sig = "have-remote-offer" /\ pc'[p].conn = pc[p].conn /\ pc'[p].remote = from
        /\ entry' \in [Objects -> EntryStates]
    BY <1>1, <1>4, Described DEF Sigs
  <2>3. PcInv' /\ \A o \in Ends : Steady(o)
    BY <1>1, <1>4, <2>1, <2>2, OneTouched DEF Sane
  <2>4. LockInv' /\ LockTypes'
    BY <1>1, <1>4, <2>1, <2>3, WentOn DEF Steps
  <2> QED BY <1>2, <2>1, <2>2, <2>3, <2>4, RtcPut DEF Touches, Entered
<1> QED BY <1>3, <1>4 DEF ApplyOffer

LEMMA HandleAnswerKeeps ==
  ASSUME RtcInv, NEW e \in Ends, HandleAnswer(e)
  PROVE  RtcInv'
<1>0. USE RtcHas
<1>1. lock[e] # <<>> /\ Leave(e) /\ UNCHANGED peers
  BY DEF HandleAnswer, Running
<1>2. Around'
  BY DEF HandleAnswer, Around
<1>3. CASE ~OfferOut(e)
  BY <1>1, <1>2, <1>3, LeavingKeeps DEF HandleAnswer, browser, entries
<1>4. CASE OfferOut(e)
  <2> DEFINE p == peers[e]
             from == Head(lock[e]).from
  <2>1. p \in Pcs /\ p[1] = e /\ pc[p].sig = "have-local-offer"
    BY <1>4, PeerIsPc DEF OfferOut
  <2>2. Describe(e, p, from, "stable") /\ from \in Pcs
    BY <1>4, FirstFrom DEF HandleAnswer, Running
  <2>3. /\ Touches(p) /\ pc'[p].sig = "stable" /\ pc'[p].conn = pc[p].conn /\ pc'[p].remote = from
        /\ entry' \in [Objects -> EntryStates]
    BY <2>1, <2>2, Described DEF Sigs
  <2>4. PcInv' /\ \A o \in Ends : Steady(o)
    BY <1>1, <2>1, <2>2, <2>3, OneTouched, RtcNames DEF Sane
  <2>5. LockInv' /\ LockTypes'
    BY <1>1, <2>4, Left
  <2> QED BY <1>1, <1>2, <2>3, <2>4, <2>5, RtcPut DEF Touches, Entered
<1> QED BY <1>3, <1>4

------------------------------------------------------------------------------
(* Signals.                                                                *)
LEMMA Receivers ==
  ASSUME RtcInv, NEW m \in net
  PROVE  m.from \in Pcs /\ To(m) \in Ends /\ m.kind \in {"offer", "answer", "ice"}
<1>1. m \in Signals
  BY RtcHas DEF Around
<1> QED BY <1>1, RtcNames DEF Signals, To

LEMMA HandleSignalKeeps ==
  ASSUME RtcInv, NEW m \in net, HandleSignal(m)
  PROVE  RtcInv'
<1>0. USE RtcHas
<1>1. PcInv' /\ \A o \in Ends : Steady(o)
  BY NothingTouched DEF HandleSignal, entries, browser
<1> DEFINE op == [kind |-> m.kind, from |-> m.from]
<1>2. op \in Op /\ op.from \in Pcs /\ To(m) \in Ends
  BY Receivers DEF HandleSignal, Op
<1>3. Enqueue(To(m), op)
  BY DEF HandleSignal
<1> HIDE DEF op
<1>4. UNCHANGED <<step, work>> /\ connecting' \in [Ends -> BOOLEAN]
  BY DEF HandleSignal, LockTypes
<1>5. LockInv' /\ LockTypes'
  BY <1>1, <1>2, <1>3, <1>4, Queued
<1>6. Around'
  BY DEF HandleSignal, Around, browser
<1> QED BY <1>1, <1>5, <1>6, RtcPut DEF HandleSignal, entries, browser, Entered

LEMMA LoseSignalKeeps ==
  ASSUME RtcInv, NEW m \in net, LoseSignal(m)
  PROVE  RtcInv'
<1>0. USE RtcHas
<1>1. PcInv' /\ \A o \in Ends : Steady(o)
  BY NothingTouched DEF LoseSignal, entries, browser
<1>2. LockInv' /\ LockTypes'
  BY <1>1, LocksKept DEF LoseSignal
<1>3. faults' \subseteq Faults
  BY Faulted DEF LoseSignal, Around, Faults
<1>4. Around'
  BY <1>3 DEF LoseSignal, Around, browser
<1> QED BY <1>1, <1>2, <1>4, RtcPut DEF LoseSignal, entries, browser, Entered

LEMMA HandleIceKeeps ==
  ASSUME RtcInv, NEW m \in net, HandleIce(m)
  PROVE  RtcInv'
<1>0. USE RtcHas
<1> DEFINE e == To(m)
           o == IF peers[e] = None THEN Stub(e) ELSE peers[e]
           c == m.from
<1>1. e \in Ends /\ c \in Pcs
  BY Receivers
<1>2. o \in Objects /\ o[1] = e /\ (peers[e] = None => o = Stub(e)) /\ (peers[e] # None => o = peers[e])
      /\ Stub(e) # None
  BY <1>1, RtcNames DEF Entered, OwnPeers
<1>3. Around'
  BY DEF HandleIce, Around
<1>4. UNCHANGED locks
  BY DEF HandleIce
<1>5. CASE /\ peers' = [peers EXCEPT ![e] = o]
           /\ entry' = [entry EXCEPT ![o] = IF peers[e] = None THEN NewEntry(None, {c})
                                            ELSE [entry[o] EXCEPT !.pend = @ \cup {c}]]
           /\ UNCHANGED pc
  <2> HIDE DEF e, o, c
  <2>1. entry' \in [Objects -> EntryStates]
    <3>1. entry[o] \in EntryStates /\ {c} \in SUBSET Pcs
      BY <1>1, <1>2
    <3>2. NewEntry(None, {c}) \in EntryStates /\ [entry[o] EXCEPT !.pend = @ \cup {c}] \in EntryStates
      BY <3>1 DEF EntryStates, NewEntry
    <3> DEFINE r == IF peers[e] = None THEN NewEntry(None, {c}) ELSE [entry[o] EXCEPT !.pend = @ \cup {c}]
    <3>3. entry' = [entry EXCEPT ![o] = r]
      BY <1>5
    <3>4. r \in EntryStates
      BY <3>2
    <3> HIDE DEF r
    <3> QED BY <3>3, <3>4
  <2>2. Entered'
    BY <1>1, <1>2, <1>5, <2>1 DEF Entered
  <2>3. /\ \A f \in Ends : peers'[f] = IF f = e THEN o ELSE peers[f]
        /\ \A p \in Pcs, f \in Ends : p # None /\ p # Stub(f) /\ p[1] \in Ends
    BY <1>1, <1>5, RtcNames DEF Entered
  <2>4. \A p \in Pcs, f \in Ends : (p = peers'[f]) <=> (p = peers[f])
    BY <1>1, <1>2, <2>3
  <2>5. Sane'
    BY <1>5 DEF Sane
  <2>a. Abandoned'
    <3>1. ASSUME NEW p \in Pcs PROVE p # peers'[p[1]] => p # peers[p[1]]
      <4>1. p[1] \in Ends
        BY RtcNames
      <4> QED BY <4>1, <2>4
    <3> QED BY <1>5, <3>1 DEF Abandoned
  <2>6. OwnPeers'
    BY <1>2, <2>3 DEF OwnPeers
  <2>7. \A f \in Ends : Steady(f)
    BY <1>5, <2>4 DEF Steady, InHand
  <2>8. LockInv' /\ LockTypes'
    BY <1>4, <2>7, LocksKept
  <2> QED BY <1>3, <1>5, <2>2, <2>5, <2>a, <2>6, <2>8, RtcPut DEF PcInv
<1>6. CASE /\ HasPc(e)
           /\ pc' = [pc EXCEPT ![o].added =
                       IF pc[o].remote = c /\ pc[o].sig # "closed" THEN @ \cup {c} ELSE @]
           /\ UNCHANGED entries
  <2>1. o \in Pcs /\ peers[o[1]] = o
    BY <1>1, <1>2, <1>6, PeerIsPc DEF HasPc
  <2>2. pc[o] \in PcStates /\ {c} \in SUBSET Pcs
    BY <1>1, <2>1
  <2> DEFINE a == IF pc[o].remote = c /\ pc[o].sig # "closed" THEN pc[o].added \cup {c} ELSE pc[o].added
  <2>3. pc' = [pc EXCEPT ![o].added = a] /\ a \in SUBSET Pcs
    BY <1>6, <2>2 DEF PcStates
  <2> HIDE DEF a, o
  <2>4. Touches(o) /\ pc'[o].sig = pc[o].sig /\ pc'[o].conn = pc[o].conn /\ pc'[o].remote = pc[o].remote
    BY <2>1, <2>2, <2>3 DEF Touches, PcStates
  <2>5. PcInv' /\ \A f \in Ends : Steady(f)
    BY <1>6, <2>1, <2>4, OneTouched DEF Sane, entries
  <2>6. LockInv' /\ LockTypes'
    BY <1>4, <2>5, LocksKept
  <2> QED BY <1>3, <1>6, <2>4, <2>5, <2>6, RtcPut DEF Touches, Entered, entries
<1> QED BY <1>5, <1>6 DEF HandleIce

------------------------------------------------------------------------------
(* Events of the browser.                                                  *)
LEMMA EmitCandidateKeeps ==
  ASSUME RtcInv, NEW p \in Pcs, EmitCandidate(p)
  PROVE  RtcInv'
<1>0. USE RtcHas
<1>1. PcInv' /\ \A o \in Ends : Steady(o)
  BY NothingTouched DEF EmitCandidate, entries, browser
<1>2. LockInv' /\ LockTypes'
  BY <1>1, LocksKept DEF EmitCandidate
<1>3. net' \subseteq Signals
  BY SignalSent DEF EmitCandidate, Around
<1>4. Around'
  BY <1>3 DEF EmitCandidate, Around, browser
<1> QED BY <1>1, <1>2, <1>4, RtcPut DEF EmitCandidate, entries, browser, Entered

LEMMA Marked ==
  ASSUME Entered, NEW e \in Ends, MarkConnected(e), UNCHANGED peers
  PROVE  Entered'
BY Entries, EntryUpdates DEF MarkConnected, Entered

LEMMA PcConnectsKeeps ==
  ASSUME RtcInv, NEW p \in Pcs, PcConnects(p)
  PROVE  RtcInv'
<1>0. USE RtcHas
<1>1. pc[p].remote # None /\ pc[p].sig = "stable" /\ p[1] \in Ends
  BY RtcNames DEF PcConnects, Linked
<1>2. peers[p[1]] = p
  BY <1>1, LiveIsPeer DEF PcConnects
<1>3. pc[p] \in PcStates /\ pc' = [pc EXCEPT ![p].conn = "connected"]
  BY DEF PcConnects
<1>4. Touches(p) /\ pc'[p].sig = pc[p].sig /\ pc'[p].conn = "connected" /\ pc'[p].remote = pc[p].remote
  BY <1>3 DEF Touches, PcStates
<1>5. PcInv' /\ \A o \in Ends : Steady(o)
  BY <1>1, <1>2, <1>4, OneTouched DEF PcConnects
<1>6. LockInv' /\ LockTypes'
  BY <1>5, LocksKept DEF PcConnects
<1>7. Entered' /\ Around'
  BY <1>1, Marked DEF PcConnects, Around
<1> QED BY <1>4, <1>5, <1>6, <1>7, RtcPut DEF Touches

(* An event of a channel that leaves the connections alone.                *)
LEMMA ChannelKeeps ==
  ASSUME RtcInv, UNCHANGED <<peers, pc, locks, initiated, net, gathered, faults>>,
         half' \in [Halves -> {"none", "connecting", "open", "closed"}], Entered'
  PROVE  RtcInv'
<1>0. USE RtcHas
<1>1. PcInv' /\ \A o \in Ends : Steady(o)
  BY NothingTouched
<1>2. LockInv' /\ LockTypes'
  BY <1>1, LocksKept
<1>3. Around'
  BY DEF Around
<1> QED BY <1>1, <1>2, <1>3, RtcPut

LEMMA DcOpensKeeps ==
  ASSUME RtcInv, NEW p \in Pcs, DcOpens(p)
  PROVE  RtcInv'
<1>0. USE RtcHas
<1>1. p[1] \in Ends /\ <<p, "own">> \in Halves
  BY RtcNames
<1>2. Entered' /\ half' \in [Halves -> {"none", "connecting", "open", "closed"}]
  BY <1>1, Marked DEF DcOpens, Around
<1> QED BY <1>2, ChannelKeeps DEF DcOpens

LEMMA DcArrivesKeeps ==
  ASSUME RtcInv, NEW p \in Pcs, DcArrives(p)
  PROVE  RtcInv'
<1>0. USE RtcHas
<1>1. p[1] \in Ends /\ <<p, "in">> \in Halves
  BY RtcNames
<1>2. half' \in [Halves -> {"none", "connecting", "open", "closed"}] /\ UNCHANGED peers
  BY <1>1 DEF DcArrives, Around
<1>3. Entered'
  <2>1. CASE peers[p[1]] = None
    BY <1>2, <2>1 DEF DcArrives, Entered
  <2>2. CASE peers[p[1]] # None
    <3> DEFINE o == peers[p[1]]
               d == <<p, "in">>
    <3>1. o \in Objects /\ entry[o] \in EntryStates
      BY <1>1, <2>2, Entries DEF Entered
    <3>2. entry' = [entry EXCEPT ![o].dc = d, ![o].state = "connected"]
      BY <2>2 DEF DcArrives
    <3>3. d \in Halves
      BY <1>1
    <3> HIDE DEF o, d
    <3>4. entry' \in [Objects -> EntryStates]
      BY <3>1, <3>2, <3>3 DEF EntryStates
    <3> QED BY <1>2, <3>4 DEF Entered
  <2> QED BY <2>1, <2>2
<1> QED BY <1>2, <1>3, ChannelKeeps DEF DcArrives

(* An event of a live connection tears its own entry down.                 *)
LEMMA FailingKeeps ==
  ASSUME RtcInv, NEW p \in Pcs, PcFails(p), pc[p].conn # "closed",
         pc[p].remote # None \/ pc[p].conn # "new",
         UNCHANGED <<locks, net, gathered>>, faults' \subseteq Faults
  PROVE  RtcInv'
<1>0. USE RtcHas
<1>1. peers[p[1]] = p /\ p[1] \in Ends /\ p # None
  BY LiveIsPeer, RtcNames
<1>2. Teardown(p[1], p)
  BY <1>1 DEF PcFails
<1>3. /\ PcInv' /\ \A o \in Ends : Steady(o)
      /\ (pc \in [Pcs -> PcStates])' /\ Entered'
      /\ half' \in [Halves -> {"none", "connecting", "open", "closed"}]
      /\ initiated' \in [Ends -> BOOLEAN]
  BY <1>1, <1>2, TornDown
<1>4. LockInv' /\ LockTypes'
  BY <1>3, LocksKept
<1>5. Around'
  BY <1>3 DEF Around
<1> QED BY <1>3, <1>4, <1>5, RtcPut

LEMMA PcGivesUpKeeps ==
  ASSUME RtcInv, NEW p \in Pcs, PcGivesUp(p)
  PROVE  RtcInv'
<1>1. pc[p].remote # None /\ pc[p].conn # "closed" /\ faults' \subseteq Faults
  BY RtcHas DEF PcGivesUp, Hopeless, Around
<1> QED BY <1>1, FailingKeeps DEF PcGivesUp

LEMMA PcBreaksKeeps ==
  ASSUME RtcInv, NEW p \in Pcs, PcBreaks(p)
  PROVE  RtcInv'
<1>1. faults' \subseteq Faults
  BY RtcHas, Faulted DEF PcBreaks, Around, Faults
<1> QED BY <1>1, FailingKeeps DEF PcBreaks

LEMMA DcClosesKeeps ==
  ASSUME RtcInv, NEW p \in Pcs, NEW k \in {"own", "in"}, DcCloses(<<p, k>>)
  PROVE  RtcInv'
<1>0. USE RtcHas
<1> DEFINE h == <<p, k>>
<1>1. h \in Halves /\ h[1] = p /\ p[1] \in Ends /\ p # None
  BY RtcNames
<1>2. Hopeless(p) /\ peers[p[1]] = p
  BY <1>1, LiveIsPeer DEF DcCloses, Hopeless
<1>3. HasPc(p[1])
  BY <1>1, <1>2, RtcNames DEF HasPc
<1> HIDE DEF h
<1>4. /\ entry' = [entry EXCEPT ![p].state = "disconnected"]
      /\ peers' = [peers EXCEPT ![p[1]] = None]
      /\ pc' = [pc EXCEPT ![p].sig = "closed", ![p].conn = "closed"]
      /\ half' = [g \in Halves |->
           IF g = h \/ (g[1] = p /\ half[g] # "none") THEN "closed" ELSE half[g]]
      /\ initiated' = [initiated EXCEPT ![p[1]] = FALSE]
      /\ UNCHANGED <<locks, net, gathered, faults>>
  BY <1>1, <1>2, <1>3 DEF DcCloses, h
<1>5. pc[p] \in PcStates /\ p \in Objects
  BY RtcNames
<1>6. Touches(p) /\ pc'[p].sig = "closed" /\ pc'[p].conn = "closed"
  BY <1>4, <1>5 DEF Touches, PcStates
<1>7. PcInv' /\ \A o \in Ends : Steady(o)
  BY <1>1, <1>2, <1>3, <1>4, <1>6, Forgotten
<1>8. LockInv' /\ LockTypes'
  BY <1>4, <1>7, LocksKept
<1>9. Entered' /\ Around'
  BY <1>1, <1>4, <1>5, EntryUpdates DEF Entered, Around
<1> QED BY <1>6, <1>7, <1>8, <1>9, RtcPut DEF Touches

LEMMA DisconnectUserKeeps ==
  ASSUME RtcInv, NEW e \in Ends, DisconnectUser(e)
  PROVE  RtcInv'
<1>0. USE RtcHas
<1>1. faults' \subseteq Faults /\ UNCHANGED <<locks, net, gathered>>
  BY Faulted DEF DisconnectUser, Around, Faults
<1>2. /\ PcInv' /\ (\A o \in Ends : Steady(o))
      /\ (pc \in [Pcs -> PcStates])' /\ Entered'
      /\ half' \in [Halves -> {"none", "connecting", "open", "closed"}]
      /\ initiated' \in [Ends -> BOOLEAN]
  <2>1. CASE HasPc(e)
    <3>1. peers[e] \in Pcs /\ Teardown(e, peers[e])
      BY <2>1, PeerIsPc DEF DisconnectUser
    <3> QED BY <3>1, TornDown
  <2>2. CASE ~HasPc(e)
    <3>1. /\ peers' = [peers EXCEPT ![e] = None] /\ initiated' = [initiated EXCEPT ![e] = FALSE]
          /\ UNCHANGED <<entry, pc, half>>
      BY <2>2 DEF DisconnectUser, browser
    <3>2. PcInv' /\ (\A o \in Ends : Steady(o))
      BY <2>2, <3>1, Forgotten
    <3> QED BY <3>1, <3>2 DEF Entered, Around
  <2> QED BY <2>1, <2>2
<1>3. LockInv' /\ LockTypes'
  BY <1>1, <1>2, LocksKept
<1>4. Around'
  BY <1>1, <1>2 DEF Around
<1> QED BY <1>2, <1>3, <1>4, RtcPut

------------------------------------------------------------------------------
LEMMA RtcStep == RtcInv /\ [RtcNext]_rtcVars => RtcInv'
<1> SUFFICES ASSUME RtcInv, [RtcNext]_rtcVars PROVE RtcInv'
  OBVIOUS
<1>1. ASSUME NEW e \in Ends, ConnectPeer(e) \/ SendFails(e) \/ DisconnectUser(e) PROVE RtcInv'
  BY <1>1, ConnectPeerKeeps, SendFailsKeeps, DisconnectUserKeeps
<1>2. ASSUME NEW e \in Ends, Operation(e) PROVE RtcInv'
  BY <1>2, DoConnectGivesWayKeeps, DoConnectKeeps, SetLocalOfferKeeps, IgnoreOfferKeeps, RollBackKeeps,
     AcceptOnNewPcKeeps, AcceptOnOldPcKeeps, ApplyOfferKeeps, SetLocalAnswerKeeps, SendSignalKeeps,
     HandleAnswerKeeps DEF Operation
<1>3. ASSUME NEW m \in net, Signalling(m) \/ LoseSignal(m) PROVE RtcInv'
  BY <1>3, HandleSignalKeeps, HandleIceKeeps, LoseSignalKeeps DEF Signalling
<1>4. ASSUME NEW p \in Pcs, Event(p) \/ PcBreaks(p) PROVE RtcInv'
  BY <1>4, EmitCandidateKeeps, PcConnectsKeeps, DcOpensKeeps, DcArrivesKeeps, PcGivesUpKeeps,
     DcClosesKeeps, PcBreaksKeeps DEF Event
<1>5. ASSUME UNCHANGED rtcVars PROVE RtcInv'
  <2>1. UNCHANGED <<peers, pc, locks, initiated, net, gathered, faults>> /\ UNCHANGED <<entry, half>>
    BY <1>5 DEF rtcVars, locks
  <2>2. Entered' /\ half' \in [Halves -> {"none", "connecting", "open", "closed"}]
    BY <2>1, RtcHas DEF Entered, Around
  <2> QED BY <2>1, <2>2, ChannelKeeps
<1> QED BY <1>1, <1>2, <1>3, <1>4, <1>5 DEF RtcNext

LEMMA RtcStart == RtcInit => RtcInv
<1> SUFFICES ASSUME RtcInit PROVE RtcInv
  OBVIOUS
<1>1. NoPc \in PcStates /\ NoPc.conn = "new" /\ NoPc.sig = "none" /\ NoPc.remote = None
  BY DEF NoPc, PcStates
<1>2. pc \in [Pcs -> PcStates] /\ \A p \in Pcs : pc[p] = NoPc
  BY <1>1 DEF RtcInit
<1>3. NewEntry(None, {}) \in EntryStates
  BY DEF NewEntry, EntryStates
<1>4. Entered
  BY <1>3 DEF RtcInit, Entered
<1>5. Around
  BY DEF RtcInit, Around
<1>6. LockTypes
  BY DEF RtcInit, LockTypes, Steps
<1>7. PcInv
  BY <1>1, <1>2 DEF RtcInit, PcInv, Sane, Abandoned, OwnPeers
<1>8. LockInv
  BY DEF RtcInit, LockInv, AtWork, Doing, Froms
<1> QED BY <1>2, <1>4, <1>5, <1>6, <1>7, <1>8, RtcTypeParts DEF RtcInv, Shapes

(* RtcNegotiation keeps its types, for any numbers of connections and      *)
(* disturbances.                                                           *)
THEOREM RtcTyped == RtcSpec => []RtcTypeOK
<1>1. RtcInv => RtcTypeOK
  BY DEF RtcInv
<1> QED BY <1>1, RtcStart, RtcStep, PTL DEF RtcSpec

(* No connection lives on unseen: one that is connected is under the key,  *)
(* after any sequence of offers, answers, late events and teardowns        *)
(* (rtc.js: #doConnect, #handleOffer, #teardownPeer).                      *)
THEOREM ReachableHolds == RtcSpec => []Reachable
<1>1. RtcInv => Reachable
  <2>1. ASSUME RtcInv, NEW p \in Pcs, pc[p].conn = "connected" PROVE peers[p[1]] = p
    BY <2>1, RtcHas, LiveIsPeer
  <2> QED BY <2>1 DEF Reachable
<1> QED BY <1>1, RtcStart, RtcStep, PTL DEF RtcSpec

------------------------------------------------------------------------------
(* How the two ends pair up while nothing is lost and nothing breaks.      *)
Knows(e) == HasPc(e) /\ pc[peers[e]].remote # None
Agreed(e) == Knows(e) /\ pc[peers[e]].sig = "stable"

(* The connections of which the other end has yet to work off a signal.    *)
InLine(e, kind, p) == \E i \in 1..Len(lock[e]) : lock[e][i].kind = kind /\ lock[e][i].from = p
UnderWay(kind) ==
  {p \in Pcs : [kind |-> kind, from |-> p] \in net \/ InLine(Other(p[1]), kind, p)}
Offered(e) == peers[e] \in UnderWay("offer")
Replied(e) == peers[e] \in UnderWay("answer")

(* Each end makes one connection and keeps it.                             *)
OneEach ==
  /\ \A p \in Pcs : /\ pc[p].sig = "none" => pc[p].remote = None
                    /\ pc[p].sig # "none" => p = peers[p[1]]
                    /\ pc[p].sig # "closed"
  /\ \A e \in Ends : HasPc(e) => pc[peers[e]].sig # "none"

(* A channel that is open belongs to a connection with a remote one.       *)
Channels ==
  /\ \A h \in Halves : half[h] = "open" => pc[h[1]].remote # None
  /\ \A o \in Objects : entry[o].dc # None => entry[o].dc[1][1] = o[1]

(* Where an operation under the lock is, its connection is as it left it.  *)
WorksOn(e, kind) == Running(e, kind) /\ HasPc(e) /\ work[e] = peers[e]
Phase(e) ==
  \/ step[e] = "start" /\ (HasPc(e) => OfferOut(e) \/ Agreed(e))
  \/ step[e] = "setLocal" /\ WorksOn(e, "connect") /\ pc[peers[e]].sig = "stable" /\ ~Knows(e)
  \/ step[e] = "apply" /\ WorksOn(e, "offer") /\ pc[peers[e]].sig = "stable"
  \/ step[e] = "answer" /\ WorksOn(e, "offer") /\ pc[peers[e]].sig = "have-remote-offer" /\ Knows(e)
  \/ step[e] = "send" /\ WorksOn(e, "connect") /\ OfferOut(e)
  \/ step[e] = "send" /\ WorksOn(e, "offer") /\ Agreed(e)

(* An end connects once, and has no offer out before.                      *)
Once(e) ==
  /\ OfferOut(e) => initiated[e] /\ ~Knows(e)
  /\ \A i \in 1..Len(lock[e]) : lock[e][i].kind = "connect" =>
       initiated[e] /\ (OfferOut(e) => i = 1 /\ step[e] = "send")
  /\ \A i, j \in 1..Len(lock[e]) : lock[e][i].kind = "connect" /\ lock[e][j].kind = "connect" => i = j
Routed(e) ==
  \A i \in 1..Len(lock[e]) : lock[e][i].kind # "connect" => lock[e][i].from[1] = Other(e)

(* Signals come from the connection under the key.                         *)
Senders ==
  /\ \A p \in UnderWay("offer") :
       p = peers[p[1]] /\ (OfferOut(p[1]) \/ Knows(p[1]) \/ step[p[1]] = "apply")
  /\ \A p \in UnderWay("answer") : p = peers[p[1]] /\ Knows(p[1])

(* What an end knows is the connection of the other.  The impolite end     *)
(* stands by its offer; who knows first answers, to an end that waits; and *)
(* an offer that waits is on its way, or ignored for that of the other.    *)
Known(e) == Knows(e) => HasPc(Other(e)) /\ pc[peers[e]].remote = peers[Other(e)]
Firm(e) == ~IsPolite(e) /\ Offered(e) => OfferOut(e) \/ Knows(Other(e))
Replying(e) == step[e] \in {"answer", "send"} /\ Running(e, "offer")
Answering(e) ==
  Knows(e) /\ ~Knows(Other(e)) => OfferOut(Other(e)) /\ (Replied(e) \/ Replying(e))
Calling(e) == step[e] = "send" /\ Running(e, "connect")
Offering(e) ==
  OfferOut(e) /\ ~Knows(Other(e)) =>
    Offered(e) \/ Calling(e) \/ (IsPolite(e) /\ OfferOut(Other(e)))

Local(e)  == Phase(e) /\ Once(e) /\ Routed(e)
Mutual(e) == Known(e) /\ Firm(e) /\ Answering(e) /\ Offering(e)
Pairing == OneEach /\ Channels /\ Senders /\ \A e \in Ends : Local(e) /\ Mutual(e)

------------------------------------------------------------------------------
LEMMA RtcEnds ==
  /\ \A e \in Ends : Other(e) \in Ends /\ Other(e) # e /\ Other(Other(e)) = e
  /\ \A e, o \in Ends : o = e \/ o = Other(e)
  /\ \A e \in Ends : IsPolite(e) <=> ~IsPolite(Other(e))
<1>1. PICK x, y \in Ends : Ends = {x, y} /\ UserOf[x] < UserOf[y]
  BY TwoUsers
<1>2. UserOf[x] \in Int /\ UserOf[y] \in Int /\ x # y
  BY <1>1, TwoUsers
<1>3. Other(x) = y /\ Other(y) = x
  BY <1>1, <1>2 DEF Other
<1> QED BY <1>1, <1>2, <1>3 DEF IsPolite

(* Once nothing is under way, both have one, and each describes the other. *)
LEMMA PairedWhenQuiet ==
  ASSUME Pairing, Quiet
  PROVE  \A e \in Ends : HasPc(e) => HasPc(Other(e)) /\ pc[peers[e]].sig = "stable"
                                     /\ pc[peers[e]].remote = peers[Other(e)]
<1>1. \A e \in Ends : /\ Other(e) \in Ends /\ Other(Other(e)) = e
                      /\ IsPolite(e) => ~IsPolite(Other(e))
  BY RtcEnds
<1>2. UnderWay("offer") = {} /\ UnderWay("answer") = {}
  <2>1. \A p \in Pcs : Other(p[1]) \in Ends
    BY RtcNames
  <2>2. \A e \in Ends : lock[e] = <<>> /\ net = {}
    BY DEF Quiet
  <2> QED BY <2>1, <2>2 DEF UnderWay, InLine
<1>3. \A e \in Ends : ~Offered(e) /\ ~Replied(e)
  BY <1>2 DEF Offered, Replied
<1>4. \A e \in Ends : /\ ~Running(e, "connect") /\ ~Running(e, "offer")
                      /\ ~Calling(e) /\ ~Replying(e)
  BY DEF Quiet, Running, Calling, Replying
<1>5. \A e \in Ends : HasPc(e) => OfferOut(e) \/ Agreed(e)
  BY <1>4 DEF Pairing, Local, Phase, WorksOn
<1>6. \A e \in Ends : ~OfferOut(e)
  <2> SUFFICES ASSUME NEW e \in Ends, OfferOut(e) PROVE FALSE
    OBVIOUS
  <2> DEFINE o == Other(e)
  <2>1. ~Knows(e)
    BY DEF Pairing, Local, Once
  <2>2. ~Knows(o)
    BY <1>1, <1>3, <1>4, <2>1 DEF Pairing, Mutual, Answering
  <2>3. IsPolite(e) /\ OfferOut(o)
    BY <1>3, <1>4, <2>2 DEF Pairing, Mutual, Offering
  <2>4. IsPolite(o)
    BY <1>1, <1>3, <1>4, <2>1, <2>3 DEF Pairing, Mutual, Offering
  <2> QED BY <1>1, <2>3, <2>4
<1>7. \A e \in Ends : HasPc(e) => Agreed(e)
  BY <1>5, <1>6
<1> QED BY <1>7 DEF Pairing, Mutual, Known, Agreed

------------------------------------------------------------------------------
(* What a step leaves to an end.                                           *)
Unmoved(e) ==
  /\ HasPc(e)' <=> HasPc(e)
  /\ HasPc(e) => /\ peers'[e] = peers[e] /\ pc'[peers[e]].sig = pc[peers[e]].sig
                 /\ pc'[peers[e]].remote = pc[peers[e]].remote
Idle(e) ==
  Unmoved(e) /\ lock'[e] = lock[e] /\ step'[e] = step[e] /\ work'[e] = work[e] /\ initiated'[e] = initiated[e]

LEMMA SameView ==
  ASSUME NEW e, Unmoved(e)
  PROVE  (Knows(e)' <=> Knows(e)) /\ (OfferOut(e)' <=> OfferOut(e)) /\ (Agreed(e)' <=> Agreed(e))
BY DEF Unmoved, Knows, OfferOut, Agreed

LEMMA OtherUnmoved ==
  ASSUME RtcInv, NEW e \in Ends, peers'[e] = peers[e],
         \A q \in Pcs : q[1] = e => pc'[q] = pc[q]
  PROVE  Unmoved(e)
<1>1. HasPc(e) => peers[e] \in Pcs /\ peers[e][1] = e
  BY RtcHas, PeerIsPc
<1>2. HasPc(e)' <=> HasPc(e)
  BY DEF HasPc
<1> QED BY <1>1, <1>2 DEF Unmoved

LEMMA IdleLocal ==
  ASSUME NEW e, Local(e), Idle(e)
  PROVE  Local(e)'
<1>1. (Knows(e)' <=> Knows(e)) /\ (OfferOut(e)' <=> OfferOut(e)) /\ (Agreed(e)' <=> Agreed(e))
  BY SameView DEF Idle
<1>2. /\ lock'[e] = lock[e] /\ step'[e] = step[e] /\ work'[e] = work[e] /\ initiated'[e] = initiated[e]
      /\ HasPc(e)' <=> HasPc(e)
      /\ HasPc(e) => peers'[e] = peers[e] /\ pc'[peers[e]].sig = pc[peers[e]].sig
  BY DEF Idle, Unmoved
<1>3. \A k : (Running(e, k)' <=> Running(e, k)) /\ (WorksOn(e, k) => WorksOn(e, k)')
  BY <1>2 DEF Running, WorksOn
<1>4. Phase(e)'
  BY <1>1, <1>2, <1>3 DEF Local, Phase, WorksOn
<1>5. Once(e)'
  BY <1>1, <1>2 DEF Local, Once
<1>6. Routed(e)'
  BY <1>2 DEF Local, Routed
<1> QED BY <1>4, <1>5, <1>6 DEF Local

(* What leaves a lock, and what it leaves.                                 *)
LEMMA LeftLine ==
  ASSUME RtcInv, NEW e \in Ends, lock[e] # <<>>, Leave(e)
  PROVE  /\ \A o \in Ends \ {e} : lock'[o] = lock[o] /\ step'[o] = step[o] /\ work'[o] = work[o]
         /\ step'[e] = "start" /\ Len(lock'[e]) = Len(lock[e]) - 1 /\ Len(lock[e]) \in Nat \ {0}
         /\ Head(lock[e]) = lock[e][1]
         /\ \A i \in 1..Len(lock'[e]) : i + 1 \in 1..Len(lock[e]) /\ lock'[e][i] = lock[e][i + 1]
<1>1. lock \in [Ends -> Seq(Op)] /\ lock[e] \in Seq(Op) /\ step \in [Ends -> Steps] /\ work \in [Ends -> Pcs \cup {None}]
  BY RtcHas DEF LockTypes
<1>2. /\ Len(Tail(lock[e])) = Len(lock[e]) - 1 /\ Len(lock[e]) \in Nat \ {0} /\ Head(lock[e]) = lock[e][1]
      /\ \A i \in 1..Len(Tail(lock[e])) : i + 1 \in 1..Len(lock[e]) /\ Tail(lock[e])[i] = lock[e][i + 1]
  BY <1>1
<1>3. lock'[e] = Tail(lock[e]) /\ step'[e] = "start"
      /\ \A o \in Ends \ {e} : lock'[o] = lock[o] /\ step'[o] = step[o] /\ work'[o] = work[o]
  BY <1>1 DEF Leave
<1> QED BY <1>2, <1>3

LEMMA LeftSignals ==
  ASSUME RtcInv, NEW e \in Ends, lock[e] # <<>>, Leave(e), NEW k, NEW S \in SUBSET Pcs,
         \A p \in Pcs : [kind |-> k, from |-> p] \in net' <=> [kind |-> k, from |-> p] \in net \/ p \in S
  PROVE  /\ UnderWay(k)' \subseteq UnderWay(k) \cup S /\ S \subseteq UnderWay(k)'
         /\ \A p \in UnderWay(k) : p \in UnderWay(k)' \/ (Head(lock[e]).kind = k /\ Head(lock[e]).from = p)
<1>1. \A p \in Pcs : Other(p[1]) \in Ends
  BY RtcNames
<1>2. ASSUME NEW o \in Ends, NEW p, InLine(o, k, p)'
      PROVE  InLine(o, k, p)
  <2>1. PICK i \in 1..Len(lock'[o]) : lock'[o][i].kind = k /\ lock'[o][i].from = p
    BY <1>2 DEF InLine
  <2>2. CASE o = e
    <3>1. i + 1 \in 1..Len(lock[e]) /\ lock'[e][i] = lock[e][i + 1]
      BY <2>1, <2>2, LeftLine
    <3> QED BY <2>1, <2>2, <3>1 DEF InLine
  <2>3. CASE o # e
    BY <2>1, <2>3, LeftLine DEF InLine
  <2> QED BY <2>2, <2>3
<1>3. ASSUME NEW o \in Ends, NEW p, InLine(o, k, p)
      PROVE  InLine(o, k, p)' \/ (Head(lock[e]).kind = k /\ Head(lock[e]).from = p)
  <2>1. PICK i \in 1..Len(lock[o]) : lock[o][i].kind = k /\ lock[o][i].from = p
    BY <1>3 DEF InLine
  <2>2. CASE o = e /\ i = 1
    BY <2>1, <2>2, LeftLine
  <2>3. CASE o = e /\ i # 1
    <3>1. i - 1 \in 1..Len(lock'[e]) /\ lock'[e][i - 1] = lock[e][i - 1 + 1]
      BY <2>1, <2>3, LeftLine
    <3> DEFINE j == i - 1
    <3>2. j \in 1..Len(lock'[e]) /\ lock'[e][j] = lock[e][i]
      BY <2>1, <2>3, <3>1
    <3> HIDE DEF j
    <3> QED BY <2>1, <2>3, <3>2 DEF InLine
  <2>4. CASE o # e
    BY <2>1, <2>4, LeftLine DEF InLine
  <2> QED BY <2>2, <2>3, <2>4
<1> QED BY <1>1, <1>2, <1>3 DEF UnderWay

LEMMA LeftLocal ==
  ASSUME RtcInv, NEW e \in Ends, lock[e] # <<>>, Leave(e), Local(e), initiated'[e] = initiated[e],
         OfferOut(e)' => OfferOut(e) /\ ~Knows(e)', HasPc(e)' => OfferOut(e)' \/ Agreed(e)'
  PROVE  Local(e)'
<1>1. /\ step'[e] = "start"
      /\ \A i \in 1..Len(lock'[e]) : i + 1 \in 1..Len(lock[e]) /\ lock'[e][i] = lock[e][i + 1]
      /\ Len(lock[e]) \in Nat /\ Len(lock'[e]) = Len(lock[e]) - 1
  BY LeftLine
<1>2. Phase(e)'
  BY <1>1 DEF Phase
<1>3. Routed(e)'
  BY <1>1 DEF Local, Routed
<1>4. Once(e)'
  <2>1. \A i, j \in 1..Len(lock[e]) : lock[e][i].kind = "connect" /\ lock[e][j].kind = "connect" => i = j
    BY DEF Local, Once
  <2>2. \A i, j \in 1..Len(lock'[e]) : lock'[e][i].kind = "connect" /\ lock'[e][j].kind = "connect" => i = j
    <3> SUFFICES ASSUME NEW i \in 1..Len(lock'[e]), NEW j \in 1..Len(lock'[e]),
                        lock'[e][i].kind = "connect", lock'[e][j].kind = "connect"
                 PROVE  i = j
      OBVIOUS
    <3>1. i + 1 = j + 1
      BY <1>1, <2>1
    <3> QED BY <3>1
  <2>3. \A i \in 1..Len(lock[e]) : lock[e][i].kind = "connect" => initiated[e] /\ (OfferOut(e) => i = 1)
    BY DEF Local, Once
  <2>4. \A i \in 1..Len(lock'[e]) : lock'[e][i].kind = "connect" => initiated'[e] /\ ~OfferOut(e)'
    <3> SUFFICES ASSUME NEW i \in 1..Len(lock'[e]), lock'[e][i].kind = "connect"
                 PROVE  initiated'[e] /\ ~OfferOut(e)'
      OBVIOUS
    <3>1. initiated[e] /\ (OfferOut(e) => i + 1 = 1)
      BY <1>1, <2>3
    <3> QED BY <3>1
  <2>5. OfferOut(e)' => initiated'[e] /\ ~Knows(e)'
    BY DEF Local, Once
  <2> QED BY <2>2, <2>4, <2>5 DEF Once
<1> QED BY <1>2, <1>3, <1>4 DEF Local

(* Where the signals stay, the connections under way do.                   *)
LEMMA SameSignals ==
  ASSUME UNCHANGED lock, NEW k, \A p \in Pcs : [kind |-> k, from |-> p] \in net' <=> [kind |-> k, from |-> p] \in net
  PROVE  UnderWay(k)' = UnderWay(k)
<1>1. \A e, p : InLine(e, k, p)' <=> InLine(e, k, p)
  BY DEF InLine
<1> QED BY <1>1 DEF UnderWay

LEMMA QueuedLine ==
  ASSUME RtcInv, NEW e \in Ends, NEW op \in Op, Enqueue(e, op)
  PROVE  /\ \A o \in Ends \ {e} : lock'[o] = lock[o]
         /\ Len(lock'[e]) = Len(lock[e]) + 1 /\ Len(lock[e]) \in Nat
         /\ \A i \in 1..Len(lock'[e]) : lock'[e][i] = IF i <= Len(lock[e]) THEN lock[e][i] ELSE op
         /\ \A k : Running(e, k) => Running(e, k)'
<1>1. lock \in [Ends -> Seq(Op)] /\ lock[e] \in Seq(Op)
  BY RtcHas DEF LockTypes
<1>2. /\ Len(Append(lock[e], op)) = Len(lock[e]) + 1 /\ Len(lock[e]) \in Nat
      /\ \A i \in 1..Len(Append(lock[e], op)) :
           Append(lock[e], op)[i] = IF i <= Len(lock[e]) THEN lock[e][i] ELSE op
  BY <1>1
<1>3. lock'[e] = Append(lock[e], op) /\ \A o \in Ends \ {e} : lock'[o] = lock[o]
  BY <1>1 DEF Enqueue
<1>4. Append(lock[e], op) # <<>> /\ (lock[e] # <<>> => Head(Append(lock[e], op)) = Head(lock[e]))
  BY <1>1, AppendProperties
<1>5. \A k : Running(e, k) => Running(e, k)'
  BY <1>3, <1>4 DEF Running
<1> QED BY <1>2, <1>3, <1>5

(* An operation that begins finds the signal of the other's connection.    *)
LEMMA Arrived ==
  ASSUME RtcInv, Pairing, NEW e \in Ends, NEW k \in {"offer", "answer"}, Running(e, k)
  PROVE  /\ Head(lock[e]).from \in Pcs /\ Head(lock[e]).from \in UnderWay(k)
         /\ Head(lock[e]).from = peers[Other(e)] /\ HasPc(Other(e))
<1>1. lock[e] # <<>> /\ Head(lock[e]).kind = k
  BY DEF Running
<1>2. lock[e] \in Seq(Op) /\ 1 \in 1..Len(lock[e]) /\ Head(lock[e]) = lock[e][1]
  BY <1>1, RtcHas DEF LockTypes
<1>3. Head(lock[e]).from \in Pcs
  BY <1>1, RtcHas, FirstFrom
<1> DEFINE p == Head(lock[e]).from
<1>4. p[1] = Other(e) /\ Other(Other(e)) = e /\ p # None /\ p # Stub(Other(e))
  BY <1>1, <1>2, <1>3, RtcEnds, RtcNames DEF Pairing, Local, Routed
<1>5. InLine(e, k, p)
  BY <1>1, <1>2 DEF InLine
<1>6. p \in UnderWay(k)
  BY <1>3, <1>4, <1>5 DEF UnderWay
<1>7. p = peers[Other(e)]
  BY <1>4, <1>6 DEF Pairing, Senders
<1> QED BY <1>3, <1>4, <1>6, <1>7 DEF HasPc

------------------------------------------------------------------------------
(* What keeps the relation of the ends.                                    *)
LEMMA SignalsOf ==
  ASSUME NEW e \in Ends, Unmoved(e)
  PROVE  /\ UnderWay("offer")' \subseteq UnderWay("offer") => (Offered(e)' => Offered(e))
         /\ UnderWay("offer") \subseteq UnderWay("offer")' => (Offered(e) => Offered(e)')
         /\ UnderWay("answer") \subseteq UnderWay("answer")' => (Replied(e) => Replied(e)')
<1>1. \A k : UnderWay(k) \subseteq Pcs /\ (UnderWay(k) \subseteq Pcs)'
  BY DEF UnderWay
<1>2. CASE HasPc(e)
  BY <1>2 DEF Unmoved, Offered, Replied
<1>3. CASE ~HasPc(e)
  <2>1. peers[e] \notin Pcs /\ peers'[e] \notin Pcs
    BY <1>3, RtcNames DEF Unmoved, HasPc
  <2> QED BY <1>1, <2>1 DEF Offered, Replied
<1> QED BY <1>2, <1>3

LEMMA KnownKept ==
  ASSUME NEW e, Known(e), Unmoved(e), Unmoved(Other(e))
  PROVE  Known(e)'
BY SameView DEF Known, Unmoved, Knows

LEMMA FirmKept ==
  ASSUME NEW e, Firm(e), Unmoved(e), Unmoved(Other(e)), Offered(e)' => Offered(e)
  PROVE  Firm(e)'
<1>1. (OfferOut(e)' <=> OfferOut(e)) /\ (Knows(Other(e))' <=> Knows(Other(e)))
  BY SameView
<1> QED BY <1>1 DEF Firm, IsPolite

LEMMA AnsweringKept ==
  ASSUME NEW e, Answering(e), Unmoved(e), Unmoved(Other(e)), Replied(e) => Replied(e)', Replying(e) => Replying(e)'
  PROVE  Answering(e)'
<1>1. /\ (Knows(e)' <=> Knows(e)) /\ (OfferOut(Other(e))' <=> OfferOut(Other(e)))
      /\ Knows(Other(e))' <=> Knows(Other(e))
  BY SameView
<1> QED BY <1>1 DEF Answering

LEMMA OfferingKept ==
  ASSUME NEW e, Offering(e), Unmoved(e), Unmoved(Other(e)), Offered(e) => Offered(e)', Calling(e) => Calling(e)'
  PROVE  Offering(e)'
<1>1. /\ (OfferOut(e)' <=> OfferOut(e)) /\ (OfferOut(Other(e))' <=> OfferOut(Other(e)))
      /\ Knows(Other(e))' <=> Knows(Other(e))
  BY SameView
<1> QED BY <1>1 DEF Offering, IsPolite

LEMMA MutualKept ==
  ASSUME NEW e \in Ends, Mutual(e), Unmoved(e), Unmoved(Other(e)),
         UnderWay("offer")' = UnderWay("offer"), UnderWay("answer")' = UnderWay("answer"),
         Replying(e) => Replying(e)', Calling(e) => Calling(e)'
  PROVE  Mutual(e)'
<1>1. (Offered(e)' <=> Offered(e)) /\ (Replied(e) => Replied(e)')
  BY SignalsOf
<1> QED BY <1>1, KnownKept, FirmKept, AnsweringKept, OfferingKept DEF Mutual

(* The signals still come from the connections under the keys.             *)
LEMMA SendersKept ==
  ASSUME Pairing, \A e \in Ends : Unmoved(e), \A e \in Ends : step[e] = "apply" => step'[e] = "apply" \/ Knows(e)',
         UnderWay("offer")' \subseteq UnderWay("offer"), UnderWay("answer")' \subseteq UnderWay("answer")
  PROVE  Senders'
<1>1. \A p \in Pcs : p[1] \in Ends /\ p # None /\ p # Stub(p[1])
  BY RtcNames
<1>2. \A e \in Ends : (Knows(e)' <=> Knows(e)) /\ (OfferOut(e)' <=> OfferOut(e))
  BY SameView
<1>3. UnderWay("offer") \subseteq Pcs /\ UnderWay("answer") \subseteq Pcs
  BY DEF UnderWay
<1>4. \A p \in Pcs : p = peers[p[1]] => p = peers'[p[1]]
  BY <1>1 DEF Unmoved, HasPc
<1>5. ASSUME NEW p \in UnderWay("offer")'
      PROVE  p = peers'[p[1]] /\ (OfferOut(p[1])' \/ Knows(p[1])' \/ step'[p[1]] = "apply")
  BY <1>1, <1>2, <1>3, <1>4, <1>5 DEF Pairing, Senders
<1>6. ASSUME NEW p \in UnderWay("answer")'
      PROVE  p = peers'[p[1]] /\ Knows(p[1])'
  BY <1>1, <1>2, <1>3, <1>4, <1>6 DEF Pairing, Senders
<1> QED BY <1>5, <1>6 DEF Senders

(* A step that changes neither what the ends hold nor what is to come.     *)
LEMMA StillPaired ==
  ASSUME RtcInv, Pairing, \A e \in Ends : Idle(e), OneEach', Channels',
         UnderWay("offer")' = UnderWay("offer"), UnderWay("answer")' = UnderWay("answer")
  PROVE  Pairing'
<1>1. \A e \in Ends : Unmoved(e) /\ step'[e] = step[e] /\ Other(e) \in Ends
  BY RtcEnds DEF Idle
<1>2. Senders'
  BY <1>1, SendersKept
<1>3. ASSUME NEW e \in Ends PROVE Local(e)'
  BY IdleLocal DEF Pairing
<1>4. ASSUME NEW e \in Ends PROVE Mutual(e)'
  <2>1. (Replying(e) => Replying(e)') /\ (Calling(e) => Calling(e)')
    BY DEF Idle, Replying, Calling, Running
  <2> QED BY <1>1, <2>1, MutualKept DEF Pairing
<1> QED BY <1>2, <1>3, <1>4 DEF Pairing

(* The connections stay as they are.                                       *)
LEMMA HeldStill ==
  ASSUME Pairing, UNCHANGED <<peers, pc>>
  PROVE  OneEach' /\ \A e \in Ends : Unmoved(e)
BY DEF Pairing, OneEach, Unmoved, HasPc

LEMMA ChannelsStill ==
  ASSUME Pairing, UNCHANGED <<entry, half>>, \A p \in Pcs : pc[p].remote # None => pc'[p].remote # None
  PROVE  Channels'
BY DEF Pairing, Channels, Halves

(* The signalling state and the remote connection stay, whatever else does.*)
LEMMA OnlyConnMoves ==
  ASSUME RtcInv, Pairing, UNCHANGED peers, \A p \in Pcs : pc'[p].sig = pc[p].sig /\ pc'[p].remote = pc[p].remote
  PROVE  OneEach' /\ \A e \in Ends : Unmoved(e)
<1>1. \A e \in Ends : HasPc(e) => peers[e] \in Pcs
  BY RtcHas, PeerIsPc
<1>2. \A e \in Ends : HasPc(e)' <=> HasPc(e)
  BY DEF HasPc
<1> QED BY <1>1, <1>2 DEF Pairing, OneEach, Unmoved

------------------------------------------------------------------------------
(* Events that leave the pairing alone.                                    *)
LEMMA SignalsStill ==
  ASSUME UNCHANGED lock, \A p \in Pcs, k \in {"offer", "answer"} :
           [kind |-> k, from |-> p] \in net' <=> [kind |-> k, from |-> p] \in net
  PROVE  UnderWay("offer")' = UnderWay("offer") /\ UnderWay("answer")' = UnderWay("answer")
<1>1. UnderWay("offer")' = UnderWay("offer")
  BY SameSignals
<1>2. UnderWay("answer")' = UnderWay("answer")
  BY SameSignals
<1> QED BY <1>1, <1>2

LEMMA EmitCandidatePairs ==
  ASSUME RtcInv, Pairing, NEW p \in Pcs, EmitCandidate(p)
  PROVE  Pairing'
<1>1. UNCHANGED <<peers, pc, entry, half, lock, step, work, initiated>>
  BY DEF EmitCandidate, entries, browser, locks
<1>2. OneEach' /\ Channels' /\ \A e \in Ends : Idle(e)
  BY <1>1, HeldStill, ChannelsStill DEF Idle
<1>3. \A q \in Pcs, k \in {"offer", "answer"} :
        [kind |-> k, from |-> q] \in net' <=> [kind |-> k, from |-> q] \in net
  BY DEF EmitCandidate, Send
<1> QED BY <1>1, <1>2, <1>3, SignalsStill, StillPaired

LEMMA MarkedChannels ==
  ASSUME RtcInv, NEW e \in Ends, MarkConnected(e)
  PROVE  \A o \in Objects : entry'[o].dc = entry[o].dc
BY RtcHas DEF MarkConnected, EntryStates

LEMMA PcConnectsPairs ==
  ASSUME RtcInv, Pairing, NEW p \in Pcs, PcConnects(p)
  PROVE  Pairing'
<1>1. UNCHANGED <<peers, half, lock, step, work, initiated, net>> /\ p[1] \in Ends
  BY RtcNames DEF PcConnects, locks
<1>2. \A q \in Pcs : pc'[q].sig = pc[q].sig /\ pc'[q].remote = pc[q].remote
  BY RtcHas DEF PcConnects, PcStates
<1>3. OneEach' /\ \A e \in Ends : Idle(e)
  BY <1>1, <1>2, OnlyConnMoves DEF Idle
<1>4. \A o \in Objects : entry'[o].dc = entry[o].dc
  BY <1>1, MarkedChannels DEF PcConnects
<1>5. Channels'
  BY <1>1, <1>2, <1>4 DEF Pairing, Channels, Halves
<1>6. UnderWay("offer")' = UnderWay("offer") /\ UnderWay("answer")' = UnderWay("answer")
  BY <1>1, SignalsStill
<1> QED BY <1>3, <1>5, <1>6, StillPaired

(* An event of a channel of a connection that has a remote one.            *)
LEMMA ChannelPairs ==
  ASSUME RtcInv, Pairing, NEW h \in Halves, pc[h[1]].remote # None, half' = [half EXCEPT ![h] = "open"],
         UNCHANGED <<peers, pc, locks, initiated, net>>,
         \A o \in Objects : entry'[o].dc \in {entry[o].dc, None} \/ entry'[o].dc[1][1] = o[1]
  PROVE  Pairing'
<1>1. UNCHANGED <<peers, pc, lock, step, work, initiated, net>>
  BY DEF locks
<1>2. OneEach' /\ \A e \in Ends : Idle(e)
  BY <1>1, HeldStill DEF Idle
<1>3. \A g \in Halves : half'[g] = "open" => g = h \/ half[g] = "open"
  BY RtcHas DEF Around
<1>4. Channels'
  BY <1>1, <1>3 DEF Pairing, Channels
<1>5. UnderWay("offer")' = UnderWay("offer") /\ UnderWay("answer")' = UnderWay("answer")
  BY <1>1, SignalsStill
<1> QED BY <1>2, <1>4, <1>5, StillPaired

LEMMA DcOpensPairs ==
  ASSUME RtcInv, Pairing, NEW p \in Pcs, DcOpens(p)
  PROVE  Pairing'
<1> DEFINE h == <<p, "own">>
<1>1. h \in Halves /\ h[1] = p /\ p[1] \in Ends
  BY RtcNames
<1>2. pc[p].remote # None
  BY RtcNames DEF DcOpens, Linked
<1>3. \A o \in Objects : entry'[o].dc = entry[o].dc
  BY <1>1, MarkedChannels DEF DcOpens
<1>4. half' = [half EXCEPT ![h] = "open"] /\ UNCHANGED <<peers, pc, locks, initiated, net>>
  BY DEF DcOpens
<1> HIDE DEF h
<1> QED BY <1>1, <1>2, <1>3, <1>4, ChannelPairs

LEMMA DcArrivesPairs ==
  ASSUME RtcInv, Pairing, NEW p \in Pcs, DcArrives(p)
  PROVE  Pairing'
<1> DEFINE h == <<p, "in">>
<1>1. h \in Halves /\ h[1] = p /\ p[1] \in Ends
  BY RtcNames
<1>2. pc[p].remote # None
  BY RtcNames DEF DcArrives, Linked
<1>3. half' = [half EXCEPT ![h] = "open"] /\ UNCHANGED <<peers, pc, locks, initiated, net>>
  BY DEF DcArrives
<1>4. entry' = IF peers[p[1]] = None THEN entry
               ELSE [entry EXCEPT ![peers[p[1]]].dc = h, ![peers[p[1]]].state = "connected"]
  BY DEF DcArrives
<1>5. peers[p[1]] # None => peers[p[1]] \in Objects /\ peers[p[1]][1] = p[1]
  BY <1>1, RtcHas, Entries DEF OwnPeers
<1> HIDE DEF h
<1>6. \A o \in Objects : entry'[o].dc \in {entry[o].dc, None} \/ entry'[o].dc[1][1] = o[1]
  BY <1>1, <1>4, <1>5, RtcHas DEF EntryStates
<1> QED BY <1>1, <1>2, <1>3, <1>6, ChannelPairs

LEMMA HandleIcePairs ==
  ASSUME RtcInv, Pairing, NEW m \in net, HandleIce(m)
  PROVE  Pairing'
<1> DEFINE e == To(m)
           o == IF peers[e] = None THEN Stub(e) ELSE peers[e]
           c == m.from
<1>1. e \in Ends /\ c \in Pcs
  BY Receivers
<1>2. o \in Objects /\ (peers[e] = None => o = Stub(e)) /\ (peers[e] # None => o = peers[e]) /\ Stub(e) # None
  BY <1>1, RtcNames, RtcHas DEF Entered
<1>3. UNCHANGED <<half, lock, step, work, initiated>> /\ net' = net \ {m} /\ m.kind = "ice"
  BY DEF HandleIce, locks
<1>4. UnderWay("offer")' = UnderWay("offer") /\ UnderWay("answer")' = UnderWay("answer")
  BY <1>3, SignalsStill
<1>5. CASE /\ peers' = [peers EXCEPT ![e] = o]
           /\ entry' = [entry EXCEPT ![o] = IF peers[e] = None THEN NewEntry(None, {c})
                                            ELSE [entry[o] EXCEPT !.pend = @ \cup {c}]]
           /\ UNCHANGED pc
  <2> HIDE DEF e, o, c
  <2>1. entry[o] \in EntryStates /\ NewEntry(None, {c}).dc = None /\ [entry[o] EXCEPT !.pend = @ \cup {c}].dc = entry[o].dc
    BY <1>2, RtcHas DEF EntryStates, NewEntry
  <2>2. \A x \in Objects : entry'[x].dc \in {None, entry[x].dc}
    BY <1>2, <1>5, <2>1, RtcHas
  <2>3. Channels'
    BY <1>3, <1>5, <2>2 DEF Pairing, Channels
  <2>4. \A x \in Ends : peers'[x] = IF x = e THEN o ELSE peers[x]
    BY <1>5, RtcHas DEF Entered
  <2>5. \A x \in Ends : peers'[x] = peers[x] \/ (peers[x] = None /\ peers'[x] = Stub(x))
    BY <1>2, <2>4
  <2>6. \A x \in Ends : Unmoved(x)
    BY <1>5, <2>5 DEF Unmoved, HasPc
  <2>7. \A p \in Pcs : p[1] \in Ends /\ p # None
    BY RtcNames
  <2>8. OneEach'
    <3>1. \A p \in Pcs : /\ pc'[p].sig = "none" => pc'[p].remote = None
                         /\ pc'[p].sig # "none" => p = peers'[p[1]]
                         /\ pc'[p].sig # "closed"
      BY <1>5, <2>5, <2>7 DEF Pairing, OneEach
    <3>2. \A x \in Ends : HasPc(x)' => pc'[peers'[x]].sig # "none"
      BY <2>6 DEF Pairing, OneEach, Unmoved
    <3> QED BY <3>1, <3>2 DEF OneEach
  <2> QED BY <1>3, <1>4, <2>3, <2>6, <2>8, StillPaired DEF Idle
<1>6. CASE /\ HasPc(e)
           /\ pc' = [pc EXCEPT ![o].added =
                       IF pc[o].remote = c /\ pc[o].sig # "closed" THEN @ \cup {c} ELSE @]
           /\ UNCHANGED entries
  <2>1. \A q \in Pcs : pc'[q].sig = pc[q].sig /\ pc'[q].remote = pc[q].remote
    BY <1>6, RtcHas DEF PcStates
  <2>2. UNCHANGED <<peers, entry>>
    BY <1>6 DEF entries
  <2>3. OneEach' /\ \A x \in Ends : Idle(x)
    BY <1>3, <2>1, <2>2, OnlyConnMoves DEF Idle
  <2>4. Channels'
    BY <1>3, <2>1, <2>2, ChannelsStill
  <2> QED BY <1>4, <2>3, <2>4, StillPaired
<1> QED BY <1>5, <1>6 DEF HandleIce

------------------------------------------------------------------------------
(* Operations that queue.                                                  *)
LEMMA QueuedPairs ==
  ASSUME RtcInv, Pairing, NEW e \in Ends, NEW op \in Op, Enqueue(e, op),
         UNCHANGED <<entries, browser, step, work>>,
         \A x \in Ends : x # e \/ op.kind # "connect" => initiated'[x] = initiated[x],
         op.kind = "connect" => ~initiated[e] /\ initiated'[e],
         op.kind # "connect" => op.from[1] = Other(e),
         UnderWay("offer")' = UnderWay("offer"), UnderWay("answer")' = UnderWay("answer")
  PROVE  Pairing'
<1>1. UNCHANGED <<peers, pc, entry, half, step, work>>
  BY DEF entries, browser
<1>2. OneEach' /\ Channels' /\ \A x \in Ends : Unmoved(x)
  BY <1>1, HeldStill, ChannelsStill
<1>3. Senders'
  BY <1>1, <1>2, SendersKept
<1>4. \A x \in Ends : \A k : Running(x, k) => Running(x, k)'
  BY QueuedLine DEF Running
<1>5. ASSUME NEW x \in Ends PROVE Mutual(x)'
  <2>1. (Replying(x) => Replying(x)') /\ (Calling(x) => Calling(x)')
    BY <1>1, <1>4 DEF Replying, Calling
  <2>2. Other(x) \in Ends
    BY RtcEnds
  <2> QED BY <1>2, <2>1, <2>2, MutualKept DEF Pairing
<1>6. ASSUME NEW x \in Ends \ {e} PROVE Local(x)'
  <2>1. Idle(x)
    BY <1>1, <1>2, QueuedLine DEF Idle
  <2> QED BY <2>1, IdleLocal DEF Pairing
<1>7. Local(e)'
  <2>1. /\ Len(lock'[e]) = Len(lock[e]) + 1 /\ Len(lock[e]) \in Nat
        /\ \A i \in 1..Len(lock'[e]) : lock'[e][i] = IF i <= Len(lock[e]) THEN lock[e][i] ELSE op
    BY QueuedLine
  <2>2. (OfferOut(e)' <=> OfferOut(e)) /\ (Knows(e)' <=> Knows(e)) /\ (Agreed(e)' <=> Agreed(e)) /\ (HasPc(e)' <=> HasPc(e))
    BY <1>2, SameView DEF Unmoved
  <2>3. \A k : WorksOn(e, k) => WorksOn(e, k)'
    BY <1>1, <1>2, <1>4 DEF WorksOn, Unmoved
  <2>4. Phase(e)'
    BY <1>1, <2>2, <2>3 DEF Pairing, Local, Phase
  <2>5. Routed(e)'
    <3> SUFFICES ASSUME NEW i \in 1..Len(lock'[e]), lock'[e][i].kind # "connect"
                 PROVE  lock'[e][i].from[1] = Other(e)
      BY DEF Routed
    <3>1. \A j \in 1..Len(lock[e]) : lock[e][j].kind # "connect" => lock[e][j].from[1] = Other(e)
      BY DEF Pairing, Local, Routed
    <3> QED BY <2>1, <3>1
  <2>6. Once(e)'
    <3>1. /\ OfferOut(e) => initiated[e] /\ ~Knows(e)
          /\ \A i \in 1..Len(lock[e]) : lock[e][i].kind = "connect" =>
               initiated[e] /\ (OfferOut(e) => i = 1 /\ step[e] = "send")
          /\ \A i, j \in 1..Len(lock[e]) : lock[e][i].kind = "connect" /\ lock[e][j].kind = "connect" => i = j
      BY DEF Pairing, Local, Once
    <3>2. CASE op.kind = "connect"
      <4>1. ~OfferOut(e) /\ \A i \in 1..Len(lock[e]) : lock[e][i].kind # "connect"
        BY <3>1, <3>2
      <4>2. \A i \in 1..Len(lock'[e]) : lock'[e][i].kind = "connect" => i = Len(lock[e]) + 1
        BY <2>1, <4>1
      <4>3. \A i, j \in 1..Len(lock'[e]) : lock'[e][i].kind = "connect" /\ lock'[e][j].kind = "connect" => i = j
        BY <4>2
      <4> QED BY <2>2, <3>2, <4>1, <4>3 DEF Once
    <3>3. CASE op.kind # "connect"
      <4>1. \A i \in 1..Len(lock'[e]) : lock'[e][i].kind = "connect" => i \in 1..Len(lock[e]) /\ lock'[e][i] = lock[e][i]
        BY <2>1, <3>3
      <4>2. \A i, j \in 1..Len(lock'[e]) : lock'[e][i].kind = "connect" /\ lock'[e][j].kind = "connect" => i = j
        BY <3>1, <4>1
      <4>3. initiated'[e] = initiated[e]
        BY <3>3
      <4>4. \A i \in 1..Len(lock'[e]) : lock'[e][i].kind = "connect" =>
               initiated'[e] /\ (OfferOut(e)' => i = 1 /\ step'[e] = "send")
        BY <1>1, <2>2, <3>1, <4>1, <4>3
      <4>5. OfferOut(e)' => initiated'[e] /\ ~Knows(e)'
        BY <2>2, <3>1, <4>3
      <4> QED BY <4>2, <4>4, <4>5 DEF Once
    <3> QED BY <3>2, <3>3
  <2> QED BY <2>4, <2>5, <2>6 DEF Local
<1> QED BY <1>2, <1>3, <1>5, <1>6, <1>7 DEF Pairing

LEMMA HandleSignalPairs ==
  ASSUME RtcInv, Pairing, NEW m \in net, HandleSignal(m)
  PROVE  Pairing'
<1> DEFINE op == [kind |-> m.kind, from |-> m.from]
           e == To(m)
<1>1. /\ m \in Signals /\ m.from \in Pcs /\ e \in Ends /\ m.kind \in {"offer", "answer"}
      /\ m.from[1] \in Ends /\ m.from[1] = Other(e) /\ e = Other(m.from[1])
  BY Receivers, RtcHas, RtcNames, RtcEnds DEF HandleSignal, Around, To
<1>2. op \in Op /\ op.kind = m.kind /\ op.from = m.from
  BY <1>1 DEF Op
<1>3. m = [kind |-> m.kind, from |-> m.from]
  BY <1>1 DEF Signals
<1>4. Enqueue(e, op) /\ net' = net \ {m} /\ UNCHANGED <<entries, browser, step, work, initiated>>
  BY DEF HandleSignal
<1> HIDE DEF op, e
<1>5. ASSUME NEW k \in {"offer", "answer"} PROVE UnderWay(k)' = UnderWay(k)
  <2>0. /\ \A o \in Ends \ {e} : lock'[o] = lock[o]
        /\ Len(lock'[e]) = Len(lock[e]) + 1 /\ Len(lock[e]) \in Nat
        /\ \A i \in 1..Len(lock'[e]) : lock'[e][i] = IF i <= Len(lock[e]) THEN lock[e][i] ELSE op
    BY <1>1, <1>2, <1>4, QueuedLine
  <2>1. \A o \in Ends \ {e}, p \in Pcs : InLine(o, k, p)' <=> InLine(o, k, p)
    BY <2>0 DEF InLine
  <2>2. \A p \in Pcs : InLine(e, k, p) => InLine(e, k, p)'
    <3> SUFFICES ASSUME NEW p \in Pcs, NEW i \in 1..Len(lock[e]), lock[e][i].kind = k, lock[e][i].from = p
                 PROVE  InLine(e, k, p)'
      BY DEF InLine
    <3>1. i \in 1..Len(lock'[e]) /\ lock'[e][i] = lock[e][i]
      BY <2>0
    <3> QED BY <3>1 DEF InLine
  <2>3. \A p \in Pcs : InLine(e, k, p)' => InLine(e, k, p) \/ (k = m.kind /\ p = m.from)
    <3> SUFFICES ASSUME NEW p \in Pcs, NEW i \in 1..Len(lock'[e]), lock'[e][i].kind = k, lock'[e][i].from = p
                 PROVE  InLine(e, k, p) \/ (k = m.kind /\ p = m.from)
      BY DEF InLine
    <3>1. CASE i <= Len(lock[e])
      <4>1. i \in 1..Len(lock[e]) /\ lock'[e][i] = lock[e][i]
        BY <2>0, <3>1
      <4> QED BY <4>1 DEF InLine
    <3>2. CASE ~(i <= Len(lock[e]))
      BY <1>2, <2>0, <3>2
    <3> QED BY <3>1, <3>2
  <2>4. InLine(e, m.kind, m.from)'
    <3> DEFINE j == Len(lock[e]) + 1
    <3>1. j \in 1..Len(lock'[e]) /\ lock'[e][j] = op
      BY <2>0
    <3> HIDE DEF j
    <3> QED BY <1>2, <3>1 DEF InLine
  <2>5. \A p \in Pcs : [kind |-> k, from |-> p] \in net' <=>
          [kind |-> k, from |-> p] \in net /\ ~(k = m.kind /\ p = m.from)
    <3> SUFFICES ASSUME NEW p \in Pcs PROVE ([kind |-> k, from |-> p] = m) <=> (k = m.kind /\ p = m.from)
      BY <1>4
    <3> QED BY <1>3
  <2>6. \A p \in Pcs : Other(p[1]) \in Ends
    BY RtcNames
  <2>7. \A p \in Pcs : p \in UnderWay(k) <=> [kind |-> k, from |-> p] \in net \/ InLine(Other(p[1]), k, p)
    BY DEF UnderWay
  <2>8. \A p \in Pcs : p \in UnderWay(k)' <=> [kind |-> k, from |-> p] \in net' \/ InLine(Other(p[1]), k, p)'
    BY DEF UnderWay
  <2>9. ASSUME NEW p \in Pcs PROVE p \in UnderWay(k)' <=> p \in UnderWay(k)
    <3>1. CASE k = m.kind /\ p = m.from
      <4>1. [kind |-> k, from |-> p] \in net
        BY <1>3, <3>1
      <4>2. InLine(Other(p[1]), k, p)'
        BY <1>1, <2>4, <3>1
      <4> QED BY <2>7, <2>8, <4>1, <4>2
    <3>2. CASE ~(k = m.kind /\ p = m.from)
      <4>1. InLine(Other(p[1]), k, p)' <=> InLine(Other(p[1]), k, p)
        BY <2>1, <2>2, <2>3, <2>6, <3>2
      <4> QED BY <2>5, <2>7, <2>8, <3>2, <4>1
    <3> QED BY <3>1, <3>2
  <2>10. UnderWay(k) \subseteq Pcs /\ (UnderWay(k) \subseteq Pcs)'
    BY DEF UnderWay
  <2> QED BY <2>9, <2>10
<1>6. UnderWay("offer")' = UnderWay("offer") /\ UnderWay("answer")' = UnderWay("answer")
  BY <1>5
<1> QED BY <1>1, <1>2, <1>4, <1>6, QueuedPairs

LEMMA ConnectPeerPairs ==
  ASSUME RtcInv, Pairing, NEW e \in Ends, ConnectPeer(e)
  PROVE  Pairing'
<1>1. /\ UNCHANGED <<peers, pc, entry, half, step, work, net>>
      /\ ~initiated[e] /\ initiated' = [initiated EXCEPT ![e] = TRUE]
  BY DEF ConnectPeer, entries, browser
<1>2. initiated'[e] /\ \A x \in Ends \ {e} : initiated'[x] = initiated[x]
  BY <1>1, RtcHas DEF Around
<1> DEFINE op == [kind |-> "connect", from |-> None]
<1>3. CASE Enqueue(e, op)
  <2>1. op \in Op /\ op.kind = "connect"
    BY DEF Op
  <2> HIDE DEF op
  <2>2. ASSUME NEW k \in {"offer", "answer"} PROVE UnderWay(k)' = UnderWay(k)
    <3>0. /\ \A o \in Ends \ {e} : lock'[o] = lock[o]
          /\ Len(lock'[e]) = Len(lock[e]) + 1 /\ Len(lock[e]) \in Nat
          /\ \A i \in 1..Len(lock'[e]) : lock'[e][i] = IF i <= Len(lock[e]) THEN lock[e][i] ELSE op
      BY <1>3, <2>1, QueuedLine
    <3>1. \A o \in Ends \ {e}, p \in Pcs : InLine(o, k, p)' <=> InLine(o, k, p)
      BY <3>0 DEF InLine
    <3>2. \A i \in 1..Len(lock'[e]) : lock'[e][i].kind = k => i \in 1..Len(lock[e]) /\ lock'[e][i] = lock[e][i]
      BY <2>1, <3>0
    <3>3. \A i \in 1..Len(lock[e]) : i \in 1..Len(lock'[e]) /\ lock'[e][i] = lock[e][i]
      BY <3>0
    <3>4. \A p \in Pcs : InLine(e, k, p)' <=> InLine(e, k, p)
      BY <3>2, <3>3 DEF InLine
    <3>5. \A p \in Pcs : Other(p[1]) \in Ends
      BY RtcNames
    <3> QED BY <1>1, <3>1, <3>4, <3>5 DEF UnderWay
  <2>3. UnderWay("offer")' = UnderWay("offer") /\ UnderWay("answer")' = UnderWay("answer")
    BY <2>2
  <2>4. \A x \in Ends : x # e \/ op.kind # "connect" => initiated'[x] = initiated[x]
    BY <1>2, <2>1
  <2> QED BY <1>1, <1>2, <1>3, <2>1, <2>3, <2>4, QueuedPairs DEF entries, browser
<1>4. CASE UNCHANGED lock
  <2>1. OneEach' /\ Channels' /\ \A x \in Ends : Unmoved(x)
    BY <1>1, HeldStill, ChannelsStill
  <2>2. UnderWay("offer")' = UnderWay("offer") /\ UnderWay("answer")' = UnderWay("answer")
    BY <1>1, <1>4, SignalsStill
  <2>3. Senders'
    BY <1>1, <2>1, <2>2, SendersKept
  <2>4. ASSUME NEW x \in Ends PROVE Mutual(x)'
    <3>1. (Replying(x) => Replying(x)') /\ (Calling(x) => Calling(x)') /\ Other(x) \in Ends
      BY <1>1, <1>4, RtcEnds DEF Replying, Calling, Running
    <3> QED BY <2>1, <2>2, <3>1, MutualKept DEF Pairing
  <2>5. ASSUME NEW x \in Ends \ {e} PROVE Local(x)'
    <3>1. Idle(x)
      BY <1>1, <1>2, <1>4, <2>1 DEF Idle
    <3> QED BY <3>1, IdleLocal DEF Pairing
  <2>6. Local(e)'
    <3>1. (Knows(e)' <=> Knows(e)) /\ (OfferOut(e)' <=> OfferOut(e)) /\ (Agreed(e)' <=> Agreed(e))
      BY <2>1, SameView
    <3>2. ~OfferOut(e) /\ \A i \in 1..Len(lock[e]) : lock[e][i].kind # "connect"
      BY <1>1 DEF Pairing, Local, Once
    <3>3. Once(e)'
      BY <1>4, <3>1, <3>2 DEF Once
    <3>4. Phase(e)' /\ Routed(e)'
      BY <1>1, <1>4, <2>1, <3>1 DEF Pairing, Local, Phase, Routed, Running, WorksOn, Unmoved
    <3> QED BY <3>3, <3>4 DEF Local
  <2> QED BY <2>1, <2>3, <2>4, <2>5, <2>6 DEF Pairing
<1> QED BY <1>3, <1>4 DEF ConnectPeer

------------------------------------------------------------------------------
(* Operations that end.                                                    *)
(* Of the connections under way, only the one of the operation's signal    *)
(* goes, and that is the other end's.                                      *)
LEMMA LeftOf ==
  ASSUME RtcInv, Pairing, NEW e \in Ends, lock[e] # <<>>, Leave(e), NEW k \in {"offer", "answer"}, NEW S \in SUBSET Pcs,
         \A p \in Pcs : [kind |-> k, from |-> p] \in net' <=> [kind |-> k, from |-> p] \in net \/ p \in S
  PROVE  /\ UnderWay(k)' \subseteq UnderWay(k) \cup S /\ S \subseteq UnderWay(k)'
         /\ \A p \in UnderWay(k) : p \in UnderWay(k)' \/ (Running(e, k) /\ p = peers[Other(e)])
         /\ peers[e] \in UnderWay(k) => peers[e] \in UnderWay(k)'
<1>1. /\ UnderWay(k)' \subseteq UnderWay(k) \cup S /\ S \subseteq UnderWay(k)'
      /\ \A p \in UnderWay(k) : p \in UnderWay(k)' \/ (Head(lock[e]).kind = k /\ Head(lock[e]).from = p)
  BY LeftSignals
<1>2. \A p \in UnderWay(k) : p \in UnderWay(k)' \/ (Running(e, k) /\ p = peers[Other(e)])
  BY <1>1, Arrived DEF Running
<1>3. UnderWay(k) \subseteq Pcs
  BY DEF UnderWay
<1>4. peers[e] \in Pcs => peers[e] # peers[Other(e)]
  BY RtcNames, RtcEnds, RtcHas DEF OwnPeers
<1> QED BY <1>1, <1>2, <1>3, <1>4

LEMMA DroppedPairs ==
  ASSUME RtcInv, Pairing, NEW e \in Ends, lock[e] # <<>>, step[e] = "start", Leave(e),
         UNCHANGED <<peers, pc, entry, half, initiated, net>>,
         Running(e, "offer") => Knows(e) \/ (OfferOut(e) /\ ~IsPolite(e)),
         Running(e, "answer") => Knows(e)
  PROVE  Pairing'
<1> DEFINE o == Other(e)
<1>1. o \in Ends \ {e} /\ Other(o) = e /\ (IsPolite(e) <=> ~IsPolite(o)) /\ \A x \in Ends : x = e \/ x = o
  BY RtcEnds
<1> HIDE DEF o
<1>2. OneEach' /\ Channels' /\ \A x \in Ends : Unmoved(x)
  BY HeldStill, ChannelsStill
<1>3. ASSUME NEW k \in {"offer", "answer"}
      PROVE  /\ UnderWay(k)' \subseteq UnderWay(k)
             /\ peers[e] \in UnderWay(k) => peers[e] \in UnderWay(k)'
             /\ Running(e, k) \/ UnderWay(k) \subseteq UnderWay(k)'
  <2> DEFINE S == {}
  <2>1. S \in SUBSET Pcs
    OBVIOUS
  <2>2. \A p \in Pcs : [kind |-> k, from |-> p] \in net' <=> [kind |-> k, from |-> p] \in net \/ p \in S
    OBVIOUS
  <2> HIDE DEF S
  <2>3. /\ UnderWay(k)' \subseteq UnderWay(k) \cup S
        /\ \A p \in UnderWay(k) : p \in UnderWay(k)' \/ (Running(e, k) /\ p = peers[Other(e)])
        /\ peers[e] \in UnderWay(k) => peers[e] \in UnderWay(k)'
    BY <2>1, <2>2, LeftOf
  <2> QED BY <2>3 DEF S
<1>4. step'[e] = "start" /\ step'[o] = step[o] /\ lock'[o] = lock[o] /\ work'[o] = work[o]
  BY <1>1, LeftLine
<1>5. Senders'
  <2>1. \A x \in Ends : step[x] = "apply" => step'[x] = "apply"
    BY <1>1, <1>4
  <2>2. UnderWay("offer")' \subseteq UnderWay("offer") /\ UnderWay("answer")' \subseteq UnderWay("answer")
    BY <1>3
  <2> QED BY <1>2, <2>1, <2>2, SendersKept
<1>6. \A x \in Ends : (Knows(x)' <=> Knows(x)) /\ (OfferOut(x)' <=> OfferOut(x)) /\ (Agreed(x)' <=> Agreed(x)) /\ (HasPc(x)' <=> HasPc(x))
  BY <1>2, SameView DEF Unmoved
<1>7. Local(e)'
  <2>1. OfferOut(e) => ~Knows(e)
    BY DEF Pairing, Local, Once
  <2>2. HasPc(e) => OfferOut(e) \/ Agreed(e)
    BY DEF Pairing, Local, Phase
  <2> QED BY <1>6, <2>1, <2>2, LeftLocal DEF Pairing
<1>8. Local(o)'
  <2>1. Idle(o)
    BY <1>1, <1>2, <1>4 DEF Idle
  <2> QED BY <1>1, <2>1, IdleLocal DEF Pairing
<1>9. \A x \in Ends : Known(x)' /\ Firm(x)'
  <2>1. \A x \in Ends : Offered(x)' => Offered(x)
    BY <1>2, <1>3, SignalsOf
  <2>2. \A x \in Ends : Known(x) /\ Firm(x) /\ Other(x) \in Ends
    BY RtcEnds DEF Pairing, Mutual
  <2> QED BY <1>2, <2>1, <2>2, KnownKept, FirmKept
<1>10. Answering(e)' /\ Offering(e)'
  <2>1. (Offered(e) => Offered(e)') /\ (Replied(e) => Replied(e)')
    BY <1>3 DEF Offered, Replied
  <2>2. ~Replying(e) /\ ~Calling(e)
    BY DEF Replying, Calling
  <2>3. Answering(e) /\ Offering(e) /\ Unmoved(e) /\ Unmoved(Other(e))
    BY <1>1, <1>2 DEF Pairing, Mutual, o
  <2> QED BY <2>1, <2>2, <2>3, AnsweringKept, OfferingKept
<1>11. Answering(o)' /\ Offering(o)'
  <2>1. (Replying(o) => Replying(o)') /\ (Calling(o) => Calling(o)')
    BY <1>4 DEF Replying, Calling, Running
  <2>2. Answering(o) /\ Offering(o) /\ Unmoved(o) /\ Unmoved(Other(o))
    BY <1>1, <1>2 DEF Pairing, Mutual
  <2>3. Answering(o)'
    <3>1. CASE Knows(e)
      BY <1>1, <1>6, <3>1 DEF Answering
    <3>2. CASE ~Knows(e)
      <4>1. Replied(o) => Replied(o)'
        BY <1>1, <1>2, <1>3, <3>2, SignalsOf
      <4> QED BY <2>1, <2>2, <4>1, AnsweringKept
    <3> QED BY <3>1, <3>2
  <2>4. Offering(o)'
    <3>1. CASE Running(e, "offer")
      <4>1. Knows(e)' \/ (IsPolite(o) /\ OfferOut(e)')
        BY <1>1, <1>6, <3>1
      <4> QED BY <1>1, <4>1 DEF Offering, IsPolite
    <3>2. CASE ~Running(e, "offer")
      <4>1. Offered(o) => Offered(o)'
        BY <1>1, <1>2, <1>3, <3>2, SignalsOf
      <4> QED BY <2>1, <2>2, <4>1, OfferingKept
    <3> QED BY <3>1, <3>2
  <2> QED BY <2>3, <2>4
<1> QED BY <1>1, <1>2, <1>5, <1>7, <1>8, <1>9, <1>10, <1>11 DEF Pairing, Mutual

(* A channel that is open belongs to an end that knows its other.          *)
LEMMA OpenKnows ==
  ASSUME RtcInv, Pairing, NEW e \in Ends, DcOpen(e)
  PROVE  Knows(e)
<1> DEFINE h == entry[peers[e]].dc
<1>1. peers[e] # None /\ peers[e] \in Objects /\ peers[e][1] = e /\ h # None /\ half[h] = "open"
  BY RtcHas, Entries DEF DcOpen, OwnPeers
<1>2. entry[peers[e]] \in EntryStates
  BY <1>1, RtcHas
<1>3. h \in Halves /\ h[1][1] = e
  BY <1>1, <1>2 DEF EntryStates, Pairing, Channels
<1>4. h[1] \in Pcs /\ pc[h[1]].remote # None
  BY <1>1, <1>3 DEF Halves, Pairing, Channels
<1>5. h[1] = peers[e]
  BY <1>3, <1>4 DEF Pairing, OneEach
<1> QED BY <1>3, <1>4, <1>5, RtcNames DEF Knows, HasPc

LEMMA DoConnectGivesWayPairs ==
  ASSUME RtcInv, Pairing, NEW e \in Ends, DoConnectGivesWay(e)
  PROVE  Pairing'
<1>1. ~Running(e, "offer") /\ ~Running(e, "answer") /\ lock[e] # <<>>
  BY DEF DoConnectGivesWay, Running
<1> QED BY <1>1, DroppedPairs DEF DoConnectGivesWay, entries, browser

LEMMA IgnoreOfferPairs ==
  ASSUME RtcInv, Pairing, NEW e \in Ends, IgnoreOffer(e)
  PROVE  Pairing'
<1>1. ~Running(e, "answer") /\ lock[e] # <<>>
  BY DEF IgnoreOffer, Running
<1>2. Knows(e) \/ (OfferOut(e) /\ ~IsPolite(e))
  BY OpenKnows DEF IgnoreOffer
<1> QED BY <1>1, <1>2, DroppedPairs DEF IgnoreOffer, entries, browser

(* An answer comes to an end that knows the sender, or waits for it.       *)
LEMMA AnswersFit ==
  ASSUME RtcInv, Pairing, NEW e \in Ends, Running(e, "answer")
  PROVE  /\ Knows(Other(e)) /\ (Knows(e) \/ OfferOut(e))
         /\ Head(lock[e]).from = peers[Other(e)] /\ Head(lock[e]).from \in Pcs
<1>1. /\ Head(lock[e]).from \in Pcs /\ Head(lock[e]).from \in UnderWay("answer")
      /\ Head(lock[e]).from = peers[Other(e)] /\ HasPc(Other(e))
  BY Arrived
<1>2. Other(e) \in Ends /\ Other(Other(e)) = e
  BY RtcEnds
<1>3. peers[Other(e)][1] = Other(e)
  BY <1>1, <1>2, RtcHas, PeerIsPc
<1>4. Knows(Other(e))
  BY <1>1, <1>3 DEF Pairing, Senders
<1> QED BY <1>1, <1>2, <1>4 DEF Pairing, Mutual, Answering

LEMMA LateAnswerPairs ==
  ASSUME RtcInv, Pairing, NEW e \in Ends, HandleAnswer(e), ~OfferOut(e)
  PROVE  Pairing'
<1>1. ~Running(e, "offer") /\ lock[e] # <<>> /\ Running(e, "answer")
  BY DEF HandleAnswer, Running
<1>2. Knows(e)
  BY <1>1, AnswersFit
<1> QED BY <1>1, <1>2, DroppedPairs DEF HandleAnswer

------------------------------------------------------------------------------
(* Operations that send.                                                   *)
LEMMA SendersAgain ==
  ASSUME Pairing, NEW S, NEW T,
         \A p \in Pcs : p = peers[p[1]] => p = peers'[p[1]],
         \A e \in Ends : OfferOut(e) \/ Knows(e) \/ step[e] = "apply" =>
           OfferOut(e)' \/ Knows(e)' \/ step'[e] = "apply",
         \A e \in Ends : Knows(e) => Knows(e)',
         UnderWay("offer")' \subseteq UnderWay("offer") \cup S,
         UnderWay("answer")' \subseteq UnderWay("answer") \cup T,
         \A p \in S : p = peers'[p[1]] /\ OfferOut(p[1])',
         \A p \in T : p = peers'[p[1]] /\ Knows(p[1])'
  PROVE  Senders'
<1>1. \A p \in Pcs : p[1] \in Ends
  BY RtcNames
<1>2. UnderWay("offer") \subseteq Pcs /\ UnderWay("answer") \subseteq Pcs
  BY DEF UnderWay
<1>3. ASSUME NEW p \in UnderWay("offer")'
      PROVE  p = peers'[p[1]] /\ (OfferOut(p[1])' \/ Knows(p[1])' \/ step'[p[1]] = "apply")
  BY <1>1, <1>2, <1>3 DEF Pairing, Senders
<1>4. ASSUME NEW p \in UnderWay("answer")'
      PROVE  p = peers'[p[1]] /\ Knows(p[1])'
  BY <1>1, <1>2, <1>4 DEF Pairing, Senders
<1> QED BY <1>3, <1>4 DEF Senders

LEMMA SendSignalPairs ==
  ASSUME RtcInv, Pairing, NEW e \in Ends, SendSignal(e)
  PROVE  Pairing'
<1> DEFINE o == Other(e)
           p == peers[e]
<1>1. o \in Ends \ {e} /\ Other(o) = e /\ \A x \in Ends : x = e \/ x = o
  BY RtcEnds
<1>2. /\ lock[e] # <<>> /\ Leave(e) /\ step[e] = "send"
      /\ UNCHANGED <<peers, pc, entry, half, initiated>>
      /\ net' = net \cup {[kind |-> IF Running(e, "connect") THEN "offer" ELSE "answer", from |-> work[e]]}
  BY RtcHas DEF SendSignal, Send, entries, browser, Doing
<1>3. /\ HasPc(e) /\ work[e] = p
      /\ \/ Running(e, "connect") /\ OfferOut(e)
         \/ Running(e, "offer") /\ Agreed(e)
  BY <1>2 DEF Pairing, Local, Phase, WorksOn
<1>4. p \in Pcs /\ p[1] = e /\ peers[o] # p
  BY <1>1, <1>3, RtcHas, RtcNames, PeerIsPc DEF OwnPeers
<1>5. OneEach' /\ Channels' /\ \A x \in Ends : Unmoved(x)
  BY <1>2, HeldStill, ChannelsStill
<1>6. \A x \in Ends : (Knows(x)' <=> Knows(x)) /\ (OfferOut(x)' <=> OfferOut(x)) /\ (Agreed(x)' <=> Agreed(x)) /\ (HasPc(x)' <=> HasPc(x))
  BY <1>5, SameView DEF Unmoved
<1>7. step'[e] = "start" /\ step'[o] = step[o] /\ lock'[o] = lock[o] /\ work'[o] = work[o]
  BY <1>1, <1>2, LeftLine
<1>8. Local(e)'
  <2>1. OfferOut(e) => ~Knows(e)
    BY DEF Pairing, Local, Once
  <2>2. HasPc(e) => OfferOut(e) \/ Agreed(e)
    BY <1>3
  <2> QED BY <1>2, <1>6, <2>1, <2>2, LeftLocal DEF Pairing
<1>9. Local(o)'
  <2>1. Idle(o)
    BY <1>1, <1>2, <1>5, <1>7 DEF Idle
  <2> QED BY <1>1, <2>1, IdleLocal DEF Pairing
<1>10. \A x \in Ends : Known(x)'
  <2>1. \A x \in Ends : Known(x) /\ Other(x) \in Ends
    BY RtcEnds DEF Pairing, Mutual
  <2> QED BY <1>5, <2>1, KnownKept
<1>11. /\ Known(e) /\ Firm(e) /\ Answering(e) /\ Offering(e) /\ Unmoved(e)
       /\ Known(o) /\ Firm(o) /\ Answering(o) /\ Offering(o) /\ Unmoved(o) /\ Unmoved(Other(o))
  BY <1>1, <1>5 DEF Pairing, Mutual
<1>12. (Replying(o) => Replying(o)') /\ (Calling(o) => Calling(o)')
  BY <1>7 DEF Replying, Calling, Running
<1> HIDE DEF o
<1>13. CASE Running(e, "connect") /\ OfferOut(e)
  <2> DEFINE S == {p}
             T == {}
  <2>0. ~Running(e, "answer") /\ ~Running(e, "offer")
    BY <1>13 DEF Running
  <2>a. \A q \in Pcs : [kind |-> "offer", from |-> q] \in net' <=> [kind |-> "offer", from |-> q] \in net \/ q \in S
    BY <1>2, <1>3, <1>13
  <2>b. \A q \in Pcs : [kind |-> "answer", from |-> q] \in net' <=> [kind |-> "answer", from |-> q] \in net \/ q \in T
    BY <1>2, <1>13
  <2>c. S \in SUBSET Pcs /\ T \in SUBSET Pcs
    BY <1>4
  <2> HIDE DEF S, T
  <2>1. /\ UnderWay("offer")' \subseteq UnderWay("offer") \cup S /\ S \subseteq UnderWay("offer")'
        /\ UnderWay("offer") \subseteq UnderWay("offer")'
    BY <1>2, <2>0, <2>a, <2>c, LeftOf
  <2>2. /\ UnderWay("answer")' \subseteq UnderWay("answer") \cup T
        /\ UnderWay("answer") \subseteq UnderWay("answer")'
    BY <1>2, <2>0, <2>b, <2>c, LeftOf
  <2> USE DEF S, T
  <2>3. Senders'
    <3>1. \A x \in Ends : step[x] = "apply" => step'[x] = "apply"
      BY <1>1, <1>2, <1>7
    <3>2. \A q \in S : q = peers'[q[1]] /\ OfferOut(q[1])'
      BY <1>2, <1>4, <1>6, <1>13
    <3>3. \A q \in T : q = peers'[q[1]] /\ Knows(q[1])'
      OBVIOUS
    <3> HIDE DEF S, T
    <3> QED BY <1>2, <1>6, <2>1, <2>2, <3>1, <3>2, <3>3, SendersAgain
  <2>4. ~Knows(e)' /\ OfferOut(e)' /\ Offered(e)'
    BY <1>2, <1>6, <1>13, <2>1 DEF Pairing, Local, Once, Offered
  <2>5. Firm(e)' /\ Answering(e)' /\ Offering(e)'
    BY <2>4 DEF Firm, Answering, Offering
  <2>6. Offered(o)' <=> Offered(o)
    BY <1>2, <1>4, <2>1 DEF Offered
  <2>7. Replied(o) => Replied(o)'
    BY <1>2, <2>2 DEF Replied
  <2>8. Firm(o)' /\ Answering(o)' /\ Offering(o)'
    BY <1>11, <1>12, <2>6, <2>7, FirmKept, AnsweringKept, OfferingKept
  <2> QED BY <1>1, <1>5, <1>8, <1>9, <1>10, <2>3, <2>5, <2>8 DEF Pairing, Mutual
<1>14. CASE Running(e, "offer") /\ Agreed(e)
  <2> DEFINE S == {}
             T == {p}
  <2>0. ~Running(e, "answer") /\ ~Running(e, "connect")
    BY <1>14 DEF Running
  <2>a. \A q \in Pcs : [kind |-> "offer", from |-> q] \in net' <=> [kind |-> "offer", from |-> q] \in net \/ q \in S
    BY <1>2, <2>0
  <2>b. \A q \in Pcs : [kind |-> "answer", from |-> q] \in net' <=> [kind |-> "answer", from |-> q] \in net \/ q \in T
    BY <1>2, <1>3, <2>0
  <2>c. S \in SUBSET Pcs /\ T \in SUBSET Pcs
    BY <1>4
  <2> HIDE DEF S, T
  <2>1. UnderWay("offer")' \subseteq UnderWay("offer") \cup S
    BY <1>2, <2>a, <2>c, LeftOf
  <2>2. /\ UnderWay("answer")' \subseteq UnderWay("answer") \cup T /\ T \subseteq UnderWay("answer")'
    BY <1>2, <2>b, <2>c, LeftOf
  <2> USE DEF S, T
  <2>4. Knows(e)' /\ ~OfferOut(e)' /\ Replied(e)'
    BY <1>2, <1>6, <1>14, <2>2 DEF Agreed, OfferOut, Replied
  <2>3. Senders'
    <3>1. \A x \in Ends : step[x] = "apply" => step'[x] = "apply"
      BY <1>1, <1>2, <1>7
    <3>2. \A q \in T : q = peers'[q[1]] /\ Knows(q[1])'
      BY <1>2, <1>4, <2>4
    <3>3. \A q \in S : q = peers'[q[1]] /\ OfferOut(q[1])'
      OBVIOUS
    <3> HIDE DEF S, T
    <3> QED BY <1>2, <1>6, <2>1, <2>2, <3>1, <3>2, <3>3, SendersAgain
  <2>5. Offering(e)' /\ Answering(o)' /\ Offering(o)'
    BY <1>1, <2>4 DEF Answering, Offering
  <2>6. Answering(e)'
    BY <1>1, <1>6, <1>11, <2>4 DEF Answering, o
  <2>7. UnderWay("offer")' \subseteq UnderWay("offer")
    BY <2>1
  <2>8. (Offered(e)' => Offered(e)) /\ (Offered(o)' => Offered(o))
    BY <1>2, <2>7 DEF Offered
  <2>9. Firm(e)' /\ Firm(o)'
    BY <1>11, <2>8, FirmKept DEF o
  <2> QED BY <1>1, <1>5, <1>8, <1>9, <1>10, <2>3, <2>5, <2>6, <2>9 DEF Pairing, Mutual
<1> QED BY <1>3, <1>13, <1>14

------------------------------------------------------------------------------
(* Operations that go on.                                                  *)
LEMMA OneSet ==
  ASSUME RtcInv, Pairing, NEW e \in Ends, HasPc(e), NEW p \in Pcs, p = peers[e], Touches(p), UNCHANGED peers,
         pc'[p].sig \in {"stable", "have-local-offer", "have-remote-offer"},
         pc[p].remote # None => pc'[p].remote # None
  PROVE  /\ OneEach' /\ Unmoved(Other(e)) /\ HasPc(e)' /\ p[1] = e
         /\ Knows(e)' <=> pc'[p].remote # None
         /\ OfferOut(e)' <=> pc'[p].sig = "have-local-offer"
         /\ Agreed(e)' <=> pc'[p].remote # None /\ pc'[p].sig = "stable"
         /\ \A q \in Pcs : pc[q].remote # None => pc'[q].remote # None
<1>1. p[1] = e
  BY RtcHas DEF OwnPeers, HasPc
<1>2. \A q \in Pcs \ {p} : pc'[q] = pc[q]
  BY DEF Touches
<1>3. HasPc(e)' /\ \A x \in Ends : HasPc(x)' <=> HasPc(x)
  BY DEF HasPc
<1>4. OneEach'
  <2>1. \A x \in Ends : HasPc(x) => peers[x] \in Pcs
    BY RtcHas, PeerIsPc
  <2>2. \A q \in Pcs : /\ pc'[q].sig = "none" => pc'[q].remote = None
                       /\ pc'[q].sig # "none" => q = peers'[q[1]]
                       /\ pc'[q].sig # "closed"
    BY <1>1, <1>2 DEF Pairing, OneEach
  <2>3. \A x \in Ends : HasPc(x)' => pc'[peers'[x]].sig # "none"
    BY <1>2, <1>3, <2>1 DEF Pairing, OneEach
  <2> QED BY <2>2, <2>3 DEF OneEach
<1>5. Unmoved(Other(e))
  <2>1. Other(e) \in Ends /\ Other(e) # e
    BY RtcEnds
  <2> QED BY <1>1, <1>2, <2>1, OtherUnmoved
<1>6. /\ Knows(e)' <=> pc'[p].remote # None
      /\ OfferOut(e)' <=> pc'[p].sig = "have-local-offer"
      /\ Agreed(e)' <=> pc'[p].remote # None /\ pc'[p].sig = "stable"
  BY <1>3 DEF Knows, OfferOut, Agreed
<1> QED BY <1>1, <1>2, <1>3, <1>4, <1>5, <1>6

LEMMA GoneOn ==
  ASSUME RtcInv, NEW e \in Ends, NEW s \in Steps, NEW p \in Pcs, Goto(e, s, p), UNCHANGED net
  PROVE  /\ step'[e] = s /\ work'[e] = p /\ UNCHANGED lock
         /\ \A x \in Ends \ {e} : step'[x] = step[x] /\ work'[x] = work[x]
         /\ \A x \in Ends : /\ Running(x, "connect")' <=> Running(x, "connect")
                            /\ Running(x, "offer")' <=> Running(x, "offer")
         /\ \A x \in Ends \ {e} : (Replying(x) => Replying(x)') /\ (Calling(x) => Calling(x)')
         /\ UnderWay("offer")' = UnderWay("offer") /\ UnderWay("answer")' = UnderWay("answer")
<1>1. /\ step'[e] = s /\ work'[e] = p /\ lock' = lock
      /\ \A x \in Ends \ {e} : step'[x] = step[x] /\ work'[x] = work[x]
  BY RtcHas DEF Goto, LockTypes
<1>2. UnderWay("offer")' = UnderWay("offer") /\ UnderWay("answer")' = UnderWay("answer")
  BY <1>1, SignalsStill
<1>3. \A x \in Ends : /\ Running(x, "connect")' <=> Running(x, "connect")
                      /\ Running(x, "offer")' <=> Running(x, "offer")
  BY <1>1 DEF Running
<1>4. \A x \in Ends \ {e} : (Replying(x) => Replying(x)') /\ (Calling(x) => Calling(x)')
  BY <1>1, <1>3 DEF Replying, Calling
<1> QED BY <1>1, <1>2, <1>3, <1>4

LEMMA GoesOnPairs ==
  ASSUME RtcInv, Pairing, NEW e \in Ends, NEW s \in Steps, NEW p \in Pcs, Goto(e, s, p), UNCHANGED <<net, initiated>>,
         OneEach', Channels', Unmoved(Other(e)),
         Phase(e)', OfferOut(e)' => ~Knows(e)' /\ s = "send" /\ Running(e, "connect"),
         OfferOut(e) \/ Knows(e) \/ step[e] = "apply" => OfferOut(e)' \/ Knows(e)' \/ s = "apply",
         Knows(e) => Knows(e)', HasPc(e) => peers'[e] = peers[e],
         Mutual(e)', Mutual(Other(e))'
  PROVE  Pairing'
<1> DEFINE o == Other(e)
<1>1. o \in Ends \ {e} /\ Other(o) = e /\ \A x \in Ends : x = e \/ x = o
  BY RtcEnds
<1>2. /\ step'[e] = s /\ UNCHANGED lock /\ step'[o] = step[o] /\ work'[o] = work[o]
      /\ UnderWay("offer")' = UnderWay("offer") /\ UnderWay("answer")' = UnderWay("answer")
  BY <1>1, GoneOn
<1>3. Local(o)'
  <2>1. Idle(o)
    BY <1>1, <1>2 DEF Idle
  <2> QED BY <1>1, <2>1, IdleLocal DEF Pairing
<1>4. Local(e)'
  <2>1. /\ \A i \in 1..Len(lock[e]) : lock[e][i].kind = "connect" => initiated[e]
        /\ \A i, j \in 1..Len(lock[e]) : lock[e][i].kind = "connect" /\ lock[e][j].kind = "connect" => i = j
    BY DEF Pairing, Local, Once
  <2>2. Running(e, "connect") => 1 \in 1..Len(lock[e]) /\ lock[e][1].kind = "connect"
    BY RtcHas DEF Running, LockTypes
  <2>3. Once(e)'
    BY <1>2, <2>1, <2>2 DEF Once
  <2>4. Routed(e)'
    BY <1>2 DEF Pairing, Local, Routed
  <2> QED BY <2>3, <2>4 DEF Local
<1>5. Senders'
  <2>1. \A x \in Ends : OfferOut(x) \/ Knows(x) \/ step[x] = "apply" => OfferOut(x)' \/ Knows(x)' \/ step'[x] = "apply"
    BY <1>1, <1>2, SameView
  <2>2. \A x \in Ends : Knows(x) => Knows(x)'
    BY <1>1, SameView
  <2>3. \A q \in Pcs : q = peers[q[1]] => q = peers'[q[1]]
    <3> SUFFICES ASSUME NEW q \in Pcs, q = peers[q[1]] PROVE q = peers'[q[1]]
      OBVIOUS
    <3>1. q[1] \in Ends /\ HasPc(q[1])
      BY RtcNames DEF HasPc
    <3> QED BY <1>1, <3>1 DEF Unmoved
  <2> DEFINE S == {}
  <2>4. UnderWay("offer")' \subseteq UnderWay("offer") \cup S /\ UnderWay("answer")' \subseteq UnderWay("answer") \cup S
    BY <1>2
  <2>5. (\A q \in S : q = peers'[q[1]] /\ OfferOut(q[1])') /\ (\A q \in S : q = peers'[q[1]] /\ Knows(q[1])')
    OBVIOUS
  <2> HIDE DEF S, o
  <2> QED BY <2>1, <2>2, <2>3, <2>4, <2>5, SendersAgain
<1> QED BY <1>1, <1>3, <1>4, <1>5 DEF Pairing

LEMMA AcceptOnOldPcPairs ==
  ASSUME RtcInv, Pairing, NEW e \in Ends, AcceptOnOldPc(e)
  PROVE  Pairing'
<1>1. /\ Running(e, "offer") /\ step[e] = "start" /\ HasPc(e) /\ ~OfferOut(e) /\ Goto(e, "apply", peers[e])
      /\ UNCHANGED <<peers, pc, entry, half, initiated, net>>
  BY DEF AcceptOnOldPc, PcUsable, entries, browser
<1>2. peers[e] \in Pcs /\ Other(e) \in Ends \ {e} /\ Other(Other(e)) = e
  BY <1>1, RtcHas, PeerIsPc, RtcEnds
<1>3. Agreed(e)
  BY <1>1 DEF Pairing, Local, Phase
<1>4. OneEach' /\ Channels' /\ \A x \in Ends : Unmoved(x)
  BY <1>1, HeldStill, ChannelsStill
<1>5. (Knows(e)' <=> Knows(e)) /\ (OfferOut(e)' <=> OfferOut(e)) /\ (Agreed(e)' <=> Agreed(e)) /\ HasPc(e)'
  BY <1>1, <1>4, SameView DEF Unmoved
<1>6. /\ step'[e] = "apply" /\ work'[e] = peers[e] /\ Running(e, "offer")'
      /\ (Replying(Other(e)) => Replying(Other(e))') /\ (Calling(Other(e)) => Calling(Other(e))')
      /\ UnderWay("offer")' = UnderWay("offer") /\ UnderWay("answer")' = UnderWay("answer")
  BY <1>1, <1>2, GoneOn DEF Steps
<1>7. Phase(e)'
  BY <1>1, <1>3, <1>5, <1>6 DEF Phase, WorksOn, Agreed
<1>8. ~Replying(e) /\ ~Calling(e)
  BY <1>1 DEF Replying, Calling
<1>9. Mutual(e)' /\ Mutual(Other(e))'
  BY <1>2, <1>4, <1>6, <1>8, MutualKept DEF Pairing
<1> QED BY <1>1, <1>2, <1>4, <1>5, <1>7, <1>9, GoesOnPairs DEF Steps

------------------------------------------------------------------------------
LEMMA SetLocalOfferPairs ==
  ASSUME RtcInv, Pairing, NEW e \in Ends, SetLocalOffer(e)
  PROVE  Pairing'
<1> DEFINE o == Other(e)
           p == peers[e]
<1>0. o \in Ends \ {e} /\ Other(o) = e
  BY RtcEnds
<1>1. WorksOn(e, "connect") /\ pc[p].sig = "stable" /\ ~Knows(e) /\ HasPc(e) /\ work[e] = p /\ Running(e, "connect")
  BY DEF SetLocalOffer, Pairing, Local, Phase, WorksOn
<1>2. /\ p \in Pcs /\ pc' = Sig(p, "have-local-offer") /\ Goto(e, "send", p)
      /\ UNCHANGED <<peers, entry, half, initiated, net>>
  BY <1>1, RtcHas, PeerIsPc DEF SetLocalOffer, entries
<1>3. /\ Touches(p) /\ pc'[p].sig = "have-local-offer" /\ pc'[p].remote = pc[p].remote /\ pc[p].remote = None
  BY <1>1, <1>2, Signed, RtcHas DEF Sigs, Knows
<1>4. /\ OneEach' /\ Unmoved(o) /\ HasPc(e)' /\ ~Knows(e)' /\ OfferOut(e)'
      /\ \A q \in Pcs : pc[q].remote # None => pc'[q].remote # None
  BY <1>1, <1>2, <1>3, OneSet
<1>5. Channels'
  BY <1>2, <1>4, ChannelsStill
<1>6. /\ step'[e] = "send" /\ work'[e] = p /\ Running(e, "connect")'
      /\ (Replying(o) => Replying(o)') /\ (Calling(o) => Calling(o)')
      /\ UnderWay("offer")' = UnderWay("offer") /\ UnderWay("answer")' = UnderWay("answer")
  BY <1>0, <1>1, <1>2, GoneOn DEF Steps
<1>7. Phase(e)'
  BY <1>2, <1>4, <1>6 DEF Phase, WorksOn
<1>8. ~OfferOut(e) /\ (Knows(o)' <=> Knows(o)) /\ (OfferOut(o)' <=> OfferOut(o))
  BY <1>1, <1>4, SameView DEF OfferOut
<1>9. ~Knows(o)
  BY <1>0, <1>1, <1>8 DEF Pairing, Mutual, Answering
<1>10. Calling(e)'
  BY <1>6 DEF Calling
<1>11. Mutual(e)'
  BY <1>4, <1>10 DEF Mutual, Known, Firm, Answering, Offering
<1>12. Mutual(o)'
  <2>1. ~Knows(o)'
    BY <1>8, <1>9
  <2>2. (Offered(o)' <=> Offered(o))
    BY <1>2, <1>6 DEF Offered
  <2>3. Firm(o)'
    BY <1>0, <1>1, <1>8, <2>2 DEF Pairing, Mutual, Firm, IsPolite
  <2>4. Offering(o)'
    BY <1>0, <1>1, <1>6, <1>8, <2>2 DEF Pairing, Mutual, Offering, IsPolite
  <2> QED BY <2>1, <2>3, <2>4 DEF Mutual, Known, Answering
<1> QED BY <1>1, <1>2, <1>4, <1>5, <1>7, <1>11, <1>12, GoesOnPairs DEF Steps

LEMMA SetLocalAnswerPairs ==
  ASSUME RtcInv, Pairing, NEW e \in Ends, SetLocalAnswer(e)
  PROVE  Pairing'
<1> DEFINE o == Other(e)
           p == peers[e]
<1>0. o \in Ends \ {e} /\ Other(o) = e
  BY RtcEnds
<1>1. /\ WorksOn(e, "offer") /\ pc[p].sig = "have-remote-offer" /\ Knows(e) /\ HasPc(e) /\ work[e] = p
      /\ Running(e, "offer") /\ step[e] = "answer"
  BY DEF SetLocalAnswer, Pairing, Local, Phase, WorksOn
<1>2. /\ p \in Pcs /\ pc' = Sig(p, "stable") /\ Goto(e, "send", p)
      /\ UNCHANGED <<peers, entry, half, initiated, net>>
  BY <1>1, RtcHas, PeerIsPc DEF SetLocalAnswer, entries
<1>3. /\ Touches(p) /\ pc'[p].sig = "stable" /\ pc'[p].remote = pc[p].remote /\ pc[p].remote # None
  BY <1>1, <1>2, Signed, RtcHas DEF Sigs, Knows
<1>4. /\ OneEach' /\ Unmoved(o) /\ HasPc(e)' /\ Knows(e)' /\ ~OfferOut(e)' /\ Agreed(e)'
      /\ \A q \in Pcs : pc[q].remote # None => pc'[q].remote # None
  BY <1>1, <1>2, <1>3, OneSet
<1>5. Channels'
  BY <1>2, <1>4, ChannelsStill
<1>6. /\ step'[e] = "send" /\ work'[e] = p /\ Running(e, "offer")'
      /\ UnderWay("offer")' = UnderWay("offer") /\ UnderWay("answer")' = UnderWay("answer")
  BY <1>0, <1>1, <1>2, GoneOn DEF Steps
<1>7. Phase(e)'
  BY <1>2, <1>4, <1>6 DEF Phase, WorksOn
<1>8. ~OfferOut(e) /\ (Knows(o)' <=> Knows(o)) /\ (OfferOut(o)' <=> OfferOut(o)) /\ (HasPc(o)' <=> HasPc(o))
  BY <1>1, <1>4, SameView DEF OfferOut, Unmoved
<1>9. Replying(e)' /\ (Offered(e)' <=> Offered(e)) /\ (Offered(o)' <=> Offered(o))
  BY <1>2, <1>6 DEF Replying, Offered
<1>10. Known(e)' /\ Known(o)'
  <2>1. Known(e) /\ Known(o)
    BY <1>0 DEF Pairing, Mutual
  <2>2. Known(e)'
    BY <1>1, <1>2, <1>3, <1>8, <2>1 DEF Known
  <2>3. Known(o)'
    BY <1>0, <1>2, <1>4, <1>8, <2>1 DEF Known, Unmoved, Knows
  <2> QED BY <2>2, <2>3
<1>11. Mutual(e)'
  <2>1. Firm(e)'
    BY <1>0, <1>8, <1>9 DEF Pairing, Mutual, Firm, IsPolite
  <2>2. Answering(e)'
    BY <1>0, <1>1, <1>8, <1>9 DEF Pairing, Mutual, Answering
  <2> QED BY <1>4, <1>10, <2>1, <2>2 DEF Mutual, Offering
<1>12. Mutual(o)'
  BY <1>0, <1>4, <1>10 DEF Mutual, Firm, Answering, Offering
<1> QED BY <1>1, <1>2, <1>4, <1>5, <1>7, <1>11, <1>12, GoesOnPairs DEF Steps

LEMMA RollBackPairs ==
  ASSUME RtcInv, Pairing, NEW e \in Ends, RollBack(e)
  PROVE  Pairing'
<1> DEFINE o == Other(e)
           p == peers[e]
<1>0. o \in Ends \ {e} /\ Other(o) = e /\ IsPolite(e) /\ ~IsPolite(o)
  BY RtcEnds DEF RollBack
<1>1. HasPc(e) /\ OfferOut(e) /\ ~Knows(e) /\ Running(e, "offer") /\ step[e] = "start"
  BY DEF RollBack, OfferOut, Pairing, Local, Once
<1>2. /\ p \in Pcs /\ pc' = Sig(p, "stable") /\ Goto(e, "apply", p)
      /\ entry' = [entry EXCEPT ![p].dc = None]
      /\ UNCHANGED <<peers, half, initiated, net>>
  BY <1>1, RtcHas, PeerIsPc DEF RollBack
<1>3. Touches(p) /\ pc'[p].sig = "stable" /\ pc'[p].remote = pc[p].remote /\ pc[p].remote = None
  BY <1>1, <1>2, Signed, RtcHas DEF Sigs, Knows
<1>4. /\ OneEach' /\ Unmoved(o) /\ HasPc(e)' /\ ~Knows(e)' /\ ~OfferOut(e)'
      /\ \A q \in Pcs : pc[q].remote # None => pc'[q].remote # None
  BY <1>1, <1>2, <1>3, OneSet
<1>5. Channels'
  <2>1. \A x \in Objects : entry'[x].dc \in {entry[x].dc, None}
    BY <1>2, RtcHas, RtcNames DEF EntryStates
  <2> QED BY <1>2, <1>4, <2>1 DEF Pairing, Channels, Halves
<1>6. /\ step'[e] = "apply" /\ work'[e] = p /\ Running(e, "offer")'
      /\ (Replying(o) => Replying(o)') /\ (Calling(o) => Calling(o)')
      /\ UnderWay("offer")' = UnderWay("offer") /\ UnderWay("answer")' = UnderWay("answer")
  BY <1>0, <1>1, <1>2, GoneOn DEF Steps
<1>7. Phase(e)'
  BY <1>2, <1>3, <1>4, <1>6 DEF Phase, WorksOn
<1>8. (Knows(o)' <=> Knows(o)) /\ (OfferOut(o)' <=> OfferOut(o))
  BY <1>4, SameView
<1>9. Offered(o) /\ OfferOut(o) /\ ~Knows(o)
  <2>1. Offered(o)
    BY <1>1, Arrived DEF Offered
  <2>2. OfferOut(o)
    BY <1>0, <1>1, <2>1 DEF Pairing, Mutual, Firm
  <2> QED BY <1>0, <2>1, <2>2 DEF Pairing, Local, Once
<1>10. Offered(o)'
  BY <1>2, <1>6, <1>9 DEF Offered
<1>11. Mutual(e)'
  BY <1>0, <1>4 DEF Mutual, Known, Firm, Answering, Offering, IsPolite
<1>12. Mutual(o)'
  BY <1>8, <1>9, <1>10 DEF Mutual, Known, Firm, Answering, Offering
<1> QED BY <1>1, <1>2, <1>4, <1>5, <1>7, <1>11, <1>12, GoesOnPairs DEF Steps

LEMMA ApplyOfferPairs ==
  ASSUME RtcInv, Pairing, NEW e \in Ends, ApplyOffer(e)
  PROVE  Pairing'
<1> DEFINE o == Other(e)
           p == peers[e]
           from == Head(lock[e]).from
<1>0. o \in Ends \ {e} /\ Other(o) = e /\ (IsPolite(e) <=> ~IsPolite(o))
  BY RtcEnds
<1>1. HasPc(e) /\ work[e] = p /\ Running(e, "offer") /\ step[e] = "apply" /\ pc[p].sig = "stable" /\ p \in Pcs
  BY RtcHas, PeerIsPc DEF ApplyOffer, Pairing, Local, Phase, WorksOn
<1>2. from \in Pcs /\ from = peers[o] /\ HasPc(o) /\ Offered(o) /\ from # None
  BY <1>1, Arrived, RtcNames DEF Offered
<1>3. pc[p].remote \in {None, from}
  BY <1>1, <1>2 DEF Pairing, Mutual, Known, Knows
<1>4. /\ Describe(e, p, from, "have-remote-offer") /\ Goto(e, "answer", p)
      /\ UNCHANGED <<peers, half, initiated, net>>
  BY <1>1, <1>3 DEF ApplyOffer
<1>5. Touches(p) /\ pc'[p].sig = "have-remote-offer" /\ pc'[p].remote = from
  BY <1>1, <1>2, <1>4, Described, RtcHas DEF Sigs
<1>6. /\ OneEach' /\ Unmoved(o) /\ HasPc(e)' /\ Knows(e)' /\ ~OfferOut(e)'
      /\ \A q \in Pcs : pc[q].remote # None => pc'[q].remote # None
  BY <1>1, <1>2, <1>4, <1>5, OneSet
<1>7. Channels'
  <2>1. \A x \in Objects : entry'[x].dc = entry[x].dc
    BY <1>4, RtcHas DEF Describe, EntryStates
  <2> QED BY <1>4, <1>6, <2>1 DEF Pairing, Channels, Halves
<1>8. /\ step'[e] = "answer" /\ work'[e] = p /\ Running(e, "offer")'
      /\ UnderWay("offer")' = UnderWay("offer") /\ UnderWay("answer")' = UnderWay("answer")
  BY <1>0, <1>1, <1>4, GoneOn DEF Steps
<1>9. Phase(e)'
  BY <1>4, <1>5, <1>6, <1>8 DEF Phase, WorksOn
<1>10. ~OfferOut(e) /\ (Knows(o)' <=> Knows(o)) /\ (OfferOut(o)' <=> OfferOut(o)) /\ (HasPc(o)' <=> HasPc(o))
  BY <1>1, <1>6, SameView DEF OfferOut, Unmoved
<1>11. Replying(e)' /\ (Offered(e)' <=> Offered(e))
  BY <1>4, <1>8 DEF Replying, Offered
<1>12. OfferOut(o) \/ Knows(o)
  <2> SUFFICES ASSUME ~Knows(o), ~OfferOut(o) PROVE FALSE
    OBVIOUS
  <2>1. step[o] = "apply"
    <3>1. from[1] = o /\ from \in UnderWay("offer")
      BY <1>0, <1>2, RtcHas, PeerIsPc DEF Offered
    <3> QED BY <3>1 DEF Pairing, Senders
  <2>2. Running(o, "offer")
    BY <1>0, <2>1 DEF Pairing, Local, Phase, WorksOn
  <2>3. Offered(e)
    BY <1>0, <2>2, Arrived DEF Offered
  <2>4. IsPolite(e)
    BY <1>10, <2>3 DEF Pairing, Mutual, Firm
  <2>5. Knows(e)
    BY <1>0, <1>2, <2>4 DEF Pairing, Mutual, Firm
  <2> QED BY <2>5 DEF Pairing, Mutual, Answering
<1>13. Known(e)' /\ Known(o)'
  <2>1. Known(e)'
    BY <1>2, <1>4, <1>5, <1>10 DEF Known
  <2>2. Known(o)
    BY <1>0 DEF Pairing, Mutual
  <2>3. Known(o)'
    BY <1>0, <1>1, <1>2, <1>4, <1>6, <1>10, <2>2 DEF Known, Unmoved
  <2> QED BY <2>1, <2>3
<1>14. Mutual(e)'
  <2>1. Firm(e)'
    BY <1>0, <1>10, <1>11 DEF Pairing, Mutual, Firm, IsPolite
  <2>2. Answering(e)'
    BY <1>10, <1>11, <1>12 DEF Answering
  <2> QED BY <1>6, <1>13, <2>1, <2>2 DEF Mutual, Offering
<1>15. Mutual(o)'
  BY <1>0, <1>6, <1>13 DEF Mutual, Firm, Answering, Offering
<1> QED BY <1>1, <1>4, <1>6, <1>7, <1>9, <1>14, <1>15, GoesOnPairs DEF Steps

------------------------------------------------------------------------------
LEMMA HandleAnswerPairs ==
  ASSUME RtcInv, Pairing, NEW e \in Ends, HandleAnswer(e)
  PROVE  Pairing'
<1> DEFINE o == Other(e)
           p == peers[e]
           from == Head(lock[e]).from
<1>a. CASE ~OfferOut(e)
  BY <1>a, LateAnswerPairs
<1>b. CASE OfferOut(e)
  <2>0. o \in Ends \ {e} /\ Other(o) = e /\ \A x \in Ends : x = e \/ x = o
    BY RtcEnds
  <2>1. /\ HasPc(e) /\ p \in Pcs /\ Running(e, "answer") /\ lock[e] # <<>> /\ Leave(e) /\ step[e] = "start"
        /\ Describe(e, p, from, "stable") /\ UNCHANGED <<peers, half, initiated, net>>
    BY <1>b, RtcHas, PeerIsPc DEF HandleAnswer, OfferOut, Running
  <2>2. Knows(o) /\ from = peers[o] /\ from \in Pcs /\ from # None
    BY <2>1, AnswersFit, RtcNames
  <2>3. Touches(p) /\ pc'[p].sig = "stable" /\ pc'[p].remote = from
    BY <2>1, <2>2, Described, RtcHas DEF Sigs
  <2>4. /\ OneEach' /\ Unmoved(o) /\ HasPc(e)' /\ Knows(e)' /\ ~OfferOut(e)' /\ Agreed(e)'
        /\ \A q \in Pcs : pc[q].remote # None => pc'[q].remote # None
    BY <2>1, <2>2, <2>3, OneSet
  <2>5. Channels'
    <3>1. \A x \in Objects : entry'[x].dc = entry[x].dc
      BY <2>1, RtcHas DEF Describe, EntryStates
    <3> QED BY <2>1, <2>4, <3>1 DEF Pairing, Channels, Halves
  <2>6. step'[e] = "start" /\ step'[o] = step[o] /\ lock'[o] = lock[o] /\ work'[o] = work[o]
    BY <2>0, <2>1, LeftLine
  <2>7. Local(e)'
    BY <2>1, <2>4, LeftLocal DEF Pairing
  <2>8. Local(o)'
    <3>1. Idle(o)
      BY <2>1, <2>4, <2>6 DEF Idle
    <3> QED BY <2>0, <3>1, IdleLocal DEF Pairing
  <2>9. Knows(o)' /\ (OfferOut(o)' <=> OfferOut(o)) /\ (HasPc(o)' <=> HasPc(o)) /\ HasPc(o)
    BY <2>2, <2>4, SameView DEF Unmoved, Knows
  <2>10. Senders'
    <3> DEFINE S == {}
    <3>1. S \in SUBSET Pcs /\ (\A q \in S : q = peers'[q[1]] /\ OfferOut(q[1])')
          /\ (\A q \in S : q = peers'[q[1]] /\ Knows(q[1])')
      OBVIOUS
    <3>2. \A k : \A q \in Pcs : [kind |-> k, from |-> q] \in net' <=> [kind |-> k, from |-> q] \in net \/ q \in S
      BY <2>1
    <3> HIDE DEF S, o
    <3>3. UnderWay("offer")' \subseteq UnderWay("offer") \cup S
      BY <2>1, <3>1, <3>2, LeftOf
    <3>4. UnderWay("answer")' \subseteq UnderWay("answer") \cup S
      BY <2>1, <3>1, <3>2, LeftOf
    <3>5. \A x \in Ends : OfferOut(x) \/ Knows(x) \/ step[x] = "apply" => OfferOut(x)' \/ Knows(x)' \/ step'[x] = "apply"
      BY <2>0, <2>4, <2>9
    <3>6. \A x \in Ends : Knows(x) => Knows(x)'
      BY <2>0, <2>4, <2>9
    <3>7. \A q \in Pcs : q = peers[q[1]] => q = peers'[q[1]]
      BY <2>1
    <3> QED BY <3>1, <3>3, <3>4, <3>5, <3>6, <3>7, SendersAgain
  <2>11. Known(e)' /\ Known(o)'
    <3>1. Known(e)'
      BY <2>1, <2>2, <2>3, <2>9 DEF Known
    <3>2. Known(o)
      BY <2>0 DEF Pairing, Mutual
    <3>3. Known(o)'
      BY <2>0, <2>1, <2>2, <2>4, <2>9, <3>2 DEF Known, Unmoved
    <3> QED BY <3>1, <3>3
  <2>12. Mutual(e)'
    BY <2>4, <2>9, <2>11 DEF Mutual, Firm, Answering, Offering
  <2>13. Mutual(o)'
    BY <2>0, <2>4, <2>11 DEF Mutual, Firm, Answering, Offering
  <2> QED BY <2>0, <2>4, <2>5, <2>7, <2>8, <2>10, <2>12, <2>13 DEF Pairing
<1> QED BY <1>a, <1>b

------------------------------------------------------------------------------
(* The one connection of an end.                                           *)
LEMMA NewPairs ==
  ASSUME RtcInv, Pairing, NEW e \in Ends, ~HasPc(e), NEW p \in UnusedPcs(e), step[e] = "start",
         peers' = [peers EXCEPT ![e] = p], pc' = [pc EXCEPT ![p] = FreshPc],
         NEW s, Goto(e, s, p), UNCHANGED <<initiated, net>>, Channels',
         \/ s = "setLocal" /\ Running(e, "connect")
         \/ s = "apply" /\ Running(e, "offer")
  PROVE  Pairing'
<1> DEFINE o == Other(e)
<1>0. o \in Ends \ {e} /\ Other(o) = e /\ (\A x \in Ends : x = e \/ x = o) /\ (IsPolite(e) <=> ~IsPolite(o))
  BY RtcEnds
<1>1. p \in Pcs /\ p[1] = e /\ pc[p].sig = "none" /\ p # None /\ p # Stub(e) /\ s \in Steps
  BY RtcNames DEF UnusedPcs, Steps
<1>2. peers'[e] = p /\ peers'[o] = peers[o]
  BY <1>0, RtcHas DEF Entered
<1>3. /\ pc'[p].sig = "stable" /\ pc'[p].remote = None
      /\ \A q \in Pcs : q # p => pc'[q] = pc[q]
  BY <1>1, RtcHas DEF FreshPc, NoPc
<1>4. \A q \in Pcs : q[1] \in Ends /\ q # None /\ q # Stub(e) /\ q # peers[e]
  BY RtcNames DEF HasPc
<1>5. HasPc(e)' /\ ~Knows(e)' /\ ~OfferOut(e)'
  BY <1>1, <1>2, <1>3 DEF HasPc, Knows, OfferOut
<1>6. Unmoved(o)
  BY <1>0, <1>1, <1>2, <1>3, OtherUnmoved
<1>7. OneEach'
  <2>1. \A q \in Pcs : /\ pc'[q].sig = "none" => pc'[q].remote = None
                       /\ pc'[q].sig # "none" => q = peers'[q[1]]
                       /\ pc'[q].sig # "closed"
    BY <1>0, <1>1, <1>2, <1>3, <1>4 DEF Pairing, OneEach
  <2>2. \A x \in Ends : HasPc(x)' => pc'[peers'[x]].sig # "none"
    BY <1>0, <1>2, <1>3, <1>6 DEF Pairing, OneEach, Unmoved
  <2> QED BY <2>1, <2>2 DEF OneEach
<1>8. /\ step'[e] = s /\ work'[e] = p
      /\ (Running(e, "connect")' <=> Running(e, "connect")) /\ (Running(e, "offer")' <=> Running(e, "offer"))
      /\ (Replying(o) => Replying(o)') /\ (Calling(o) => Calling(o)')
      /\ UnderWay("offer")' = UnderWay("offer") /\ UnderWay("answer")' = UnderWay("answer")
  BY <1>0, <1>1, GoneOn
<1>9. Phase(e)'
  BY <1>2, <1>3, <1>5, <1>8 DEF Phase, WorksOn
<1>10. (Knows(o)' <=> Knows(o)) /\ (OfferOut(o)' <=> OfferOut(o)) /\ ~Knows(e) /\ ~OfferOut(e)
  BY <1>6, SameView DEF Knows, OfferOut
<1>11. ~Offered(e)' /\ (Offered(o)' <=> Offered(o))
  <2>1. p \notin UnderWay("offer")
    BY <1>1, <1>4 DEF Pairing, Senders
  <2> QED BY <1>2, <1>8, <2>1 DEF Offered
<1>12. Mutual(e)'
  BY <1>5, <1>11 DEF Mutual, Known, Firm, Answering, Offering
<1>13. Mutual(o)'
  <2>1. ~Knows(o)
    BY <1>0 DEF Pairing, Mutual, Known
  <2>2. Firm(o)'
    BY <1>0, <1>10, <1>11 DEF Pairing, Mutual, Firm, IsPolite
  <2>3. Offering(o)'
    BY <1>0, <1>8, <1>10, <1>11 DEF Pairing, Mutual, Offering, IsPolite
  <2> QED BY <1>10, <2>1, <2>2, <2>3 DEF Mutual, Known, Answering
<1> QED BY <1>1, <1>5, <1>6, <1>7, <1>9, <1>10, <1>12, <1>13, GoesOnPairs

(* While nothing breaks, a connection that is under the key is in use.     *)
LEMMA HeldIsUsable ==
  ASSUME RtcInv, Pairing, NEW e \in Ends, HasPc(e)
  PROVE  PcUsable(e)
<1>1. peers[e] \in Pcs /\ pc[peers[e]].sig # "closed"
  BY RtcHas, PeerIsPc DEF Pairing, OneEach
<1> QED BY <1>1, RtcHas DEF Sane, PcUsable

LEMMA NewChannels ==
  ASSUME RtcInv, Pairing, NEW e \in Ends, NEW p \in UnusedPcs(e), pc' = [pc EXCEPT ![p] = FreshPc],
         NEW d, entry' = [entry EXCEPT ![p] = NewEntry(d, Pending(e))], d # None => d[1][1] = e,
         \A h \in Halves : half'[h] = "open" => half[h] = "open"
  PROVE  Channels'
<1>1. p \in Pcs /\ p[1] = e /\ pc[p].remote = None /\ p \in Objects
  BY RtcNames DEF UnusedPcs, Pairing, OneEach
<1>2. \A q \in Pcs : q # p => pc'[q] = pc[q]
  BY RtcHas
<1>3. \A h \in Halves : half'[h] = "open" => pc'[h[1]].remote # None
  BY <1>1, <1>2 DEF Pairing, Channels, Halves
<1>4. entry'[p].dc = d /\ \A x \in Objects : x # p => entry'[x] = entry[x]
  BY <1>1, RtcHas DEF NewEntry
<1>5. \A x \in Objects : entry'[x].dc # None => entry'[x].dc[1][1] = x[1]
  BY <1>1, <1>4 DEF Pairing, Channels
<1> QED BY <1>3, <1>5 DEF Channels

LEMMA DoConnectPairs ==
  ASSUME RtcInv, Pairing, NEW e \in Ends, DoConnect(e)
  PROVE  Pairing'
<1> DEFINE p == NextPc(e)
           d == <<p, "own">>
<1>1. p \in UnusedPcs(e)
  BY DEF DoConnect, NextPc
<1>2. /\ pc' = [pc EXCEPT ![p] = FreshPc] /\ half' = [half EXCEPT ![d] = "connecting"]
      /\ entry' = [entry EXCEPT ![p] = NewEntry(d, Pending(e))]
      /\ peers' = [peers EXCEPT ![e] = p] /\ Goto(e, "setLocal", p)
      /\ ~TakenOver(e) /\ Running(e, "connect") /\ step[e] = "start" /\ UNCHANGED <<initiated, net>>
  BY DEF DoConnect
<1> HIDE DEF p
<1>3. d[1][1] = e
  BY <1>1 DEF UnusedPcs
<1> HIDE DEF d
<1>4. ~HasPc(e)
  <2> SUFFICES ASSUME HasPc(e) PROVE FALSE
    OBVIOUS
  <2>1. lock[e] \in Seq(Op) /\ 1 \in 1..Len(lock[e]) /\ lock[e][1].kind = "connect"
    BY <1>2, RtcHas DEF Running, LockTypes
  <2>2. ~OfferOut(e)
    BY <1>2, <2>1 DEF Pairing, Local, Once
  <2>3. Knows(e)
    BY <1>2, <2>2 DEF Pairing, Local, Phase, Agreed
  <2> QED BY <1>2, <2>3, HeldIsUsable DEF TakenOver, Knows
<1>5. \A h \in Halves : half'[h] = "open" => half[h] = "open"
  BY <1>2, RtcHas DEF Around
<1>6. Channels'
  BY <1>1, <1>2, <1>3, <1>5, NewChannels
<1> QED BY <1>1, <1>2, <1>4, <1>6, NewPairs

LEMMA AcceptOnNewPcPairs ==
  ASSUME RtcInv, Pairing, NEW e \in Ends, AcceptOnNewPc(e)
  PROVE  Pairing'
<1> DEFINE p == NextPc(e)
           d == IF peers[e] = None THEN None ELSE entry[peers[e]].dc
<1>1. p \in UnusedPcs(e)
  BY DEF AcceptOnNewPc, NextPc
<1>2. /\ pc' = [pc EXCEPT ![p] = FreshPc] /\ entry' = [entry EXCEPT ![p] = NewEntry(d, Pending(e))]
      /\ peers' = [peers EXCEPT ![e] = p] /\ Goto(e, "apply", p)
      /\ ~PcUsable(e) /\ Running(e, "offer") /\ step[e] = "start" /\ UNCHANGED <<half, initiated, net>>
  BY DEF AcceptOnNewPc
<1>3. d # None => d[1][1] = e
  BY RtcHas, Entries DEF Pairing, Channels, OwnPeers
<1> HIDE DEF p, d
<1>4. ~HasPc(e)
  BY <1>2, HeldIsUsable
<1>5. Channels'
  BY <1>1, <1>2, <1>3, NewChannels
<1> QED BY <1>1, <1>2, <1>4, <1>5, NewPairs

------------------------------------------------------------------------------
(* While nothing breaks, no connection is given up.                        *)
LEMMA NeverHopeless ==
  ASSUME RtcInv, Pairing, NEW p \in Pcs
  PROVE  ~Hopeless(p)
<1> SUFFICES ASSUME Hopeless(p) PROVE FALSE
  OBVIOUS
<1> DEFINE e == p[1]
           o == Other(e)
           q == pc[p].remote
<1>1. /\ e \in Ends /\ p # None /\ p # Stub(e) /\ o \in Ends /\ Other(o) = e
      /\ pc[p].sig = "stable" /\ q # None
  BY RtcNames, RtcEnds DEF Hopeless
<1>2. p = peers[e] /\ Knows(e)
  BY <1>1 DEF Pairing, OneEach, Knows, HasPc
<1>3. HasPc(o) /\ q = peers[o] /\ q \in Pcs
  BY <1>1, <1>2, RtcHas, PeerIsPc DEF Pairing, Mutual, Known
<1>4. pc[q].sig # "closed" /\ pc[q].conn # "failed"
  BY <1>3, RtcHas DEF Pairing, OneEach, Sane
<1>5. pc[q].sig = "stable" /\ pc[q].remote # p
  BY <1>4 DEF Hopeless
<1>6. ~OfferOut(o)
  BY <1>3, <1>5 DEF OfferOut
<1>7. Knows(o)
  BY <1>1, <1>2, <1>6 DEF Pairing, Mutual, Answering
<1>8. pc[q].remote = p
  BY <1>1, <1>2, <1>3, <1>7 DEF Pairing, Mutual, Known
<1> QED BY <1>5, <1>8

------------------------------------------------------------------------------
Paired == RtcInv /\ (faults = {} => Pairing)

(* A disturbance is noted; it makes no more promises.                      *)
LEMMA Disturbed ==
  ASSUME NEW k, Fault(k)
  PROVE  faults' # {}
BY DEF Fault

LEMMA PairingStep == RtcInv /\ Pairing /\ [RtcNext]_rtcVars => Pairing' \/ faults' # {}
<1> SUFFICES ASSUME RtcInv, Pairing, [RtcNext]_rtcVars PROVE Pairing' \/ faults' # {}
  OBVIOUS
<1>1. ASSUME NEW e \in Ends, ConnectPeer(e) PROVE Pairing'
  BY <1>1, ConnectPeerPairs
<1>2. ASSUME NEW e \in Ends, Operation(e) PROVE Pairing'
  BY <1>2, DoConnectGivesWayPairs, DoConnectPairs, SetLocalOfferPairs, IgnoreOfferPairs, RollBackPairs,
     AcceptOnNewPcPairs, AcceptOnOldPcPairs, ApplyOfferPairs, SetLocalAnswerPairs, SendSignalPairs,
     HandleAnswerPairs DEF Operation
<1>3. ASSUME NEW e \in Ends, SendFails(e) \/ DisconnectUser(e) PROVE faults' # {}
  BY <1>3, Disturbed DEF SendFails, DisconnectUser
<1>4. ASSUME NEW m \in net, Signalling(m) PROVE Pairing'
  BY <1>4, HandleSignalPairs, HandleIcePairs DEF Signalling
<1>5. ASSUME NEW m \in net, LoseSignal(m) PROVE faults' # {}
  BY <1>5, Disturbed DEF LoseSignal
<1>6. ASSUME NEW p \in Pcs, Event(p) PROVE Pairing'
  <2>1. ~PcGivesUp(p)
    BY NeverHopeless DEF PcGivesUp
  <2>2. ASSUME NEW k \in {"own", "in"} PROVE ~DcCloses(<<p, k>>)
    BY NeverHopeless DEF DcCloses
  <2> QED BY <1>6, <2>1, <2>2, EmitCandidatePairs, PcConnectsPairs, DcOpensPairs, DcArrivesPairs DEF Event
<1>7. ASSUME NEW p \in Pcs, PcBreaks(p) PROVE faults' # {}
  BY <1>7, Disturbed DEF PcBreaks
<1>8. ASSUME UNCHANGED rtcVars PROVE Pairing'
  <2>1. UNCHANGED <<peers, entry, pc, half, lock, step, work, initiated, net>>
    BY <1>8 DEF rtcVars
  <2>2. OneEach' /\ Channels' /\ \A e \in Ends : Idle(e)
    BY <2>1, HeldStill, ChannelsStill DEF Idle
  <2>3. UnderWay("offer")' = UnderWay("offer") /\ UnderWay("answer")' = UnderWay("answer")
    BY <2>1, SignalsStill
  <2> QED BY <2>2, <2>3, StillPaired
<1> QED BY <1>1, <1>2, <1>3, <1>4, <1>5, <1>6, <1>7, <1>8 DEF RtcNext

LEMMA FaultsStay == RtcTypeOK /\ [RtcNext]_rtcVars => (faults' = {} => faults = {})
<1> SUFFICES ASSUME [RtcNext]_rtcVars, faults' = {} PROVE faults = {}
  OBVIOUS
<1>1. \A k : Fault(k) => FALSE
  BY DEF Fault
<1>2. ASSUME NEW e \in Ends, ConnectPeer(e) \/ Operation(e) \/ SendFails(e) \/ DisconnectUser(e) PROVE faults = {}
  BY <1>1, <1>2 DEF ConnectPeer, Operation, SendFails, DisconnectUser, DoConnectGivesWay, DoConnect, SetLocalOffer,
     IgnoreOffer, RollBack, AcceptOnNewPc, AcceptOnOldPc, ApplyOffer, SetLocalAnswer, SendSignal, HandleAnswer
<1>3. ASSUME NEW m \in net, Signalling(m) \/ LoseSignal(m) PROVE faults = {}
  BY <1>1, <1>3 DEF Signalling, LoseSignal, HandleSignal, HandleIce
<1>4. ASSUME NEW p \in Pcs, Event(p) \/ PcBreaks(p) PROVE faults = {}
  BY <1>1, <1>4 DEF Event, PcBreaks, EmitCandidate, PcConnects, DcOpens, DcArrives, PcGivesUp, DcCloses
<1> QED BY <1>2, <1>3, <1>4 DEF RtcNext, rtcVars

LEMMA PairingStart == RtcInit => Pairing
<1> SUFFICES ASSUME RtcInit PROVE Pairing
  OBVIOUS
<1>1. /\ \A e \in Ends : peers[e] = None /\ lock[e] = <<>> /\ step[e] = "start" /\ initiated[e] = FALSE
      /\ \A p \in Pcs : pc[p] = NoPc /\ p[1] \in Ends
      /\ \A h \in Halves : half[h] = "none"
      /\ \A o \in Objects : entry[o].dc = None
      /\ net = {}
  BY RtcNames DEF RtcInit, NewEntry
<1>2. \A e \in Ends : ~HasPc(e) /\ ~OfferOut(e) /\ ~Knows(e) /\ Len(lock[e]) = 0
  BY <1>1 DEF HasPc, OfferOut, Knows
<1>3. UnderWay("offer") = {} /\ UnderWay("answer") = {}
  <2>1. \A p \in Pcs : Other(p[1]) \in Ends
    BY <1>1, RtcEnds
  <2> QED BY <1>1, <1>2, <2>1 DEF UnderWay, InLine
<1>4. OneEach /\ Channels /\ Senders
  BY <1>1, <1>2, <1>3 DEF OneEach, Channels, Senders, NoPc
<1>5. ASSUME NEW e \in Ends PROVE Local(e)
  BY <1>1, <1>2 DEF Local, Phase, Once, Routed
<1>6. ASSUME NEW e \in Ends PROVE Mutual(e)
  <2>1. ~Offered(e)
    BY <1>3 DEF Offered
  <2> QED BY <1>2, <2>1 DEF Mutual, Known, Firm, Answering, Offering
<1> QED BY <1>4, <1>5, <1>6 DEF Pairing

(* While no signal is lost and nothing breaks, two ends of two users that  *)
(* have nothing left to do hold connections that describe each other,      *)
(* however their attempts, crossing offers and late signals are timed      *)
(* (rtc.js: connect, #doConnect, #handleOffer, #handleAnswer).             *)
THEOREM QuietMeansPairedHolds == RtcSpec => []QuietMeansPaired
<1>1. RtcInit => Paired
  BY RtcStart, PairingStart DEF Paired
<1>2. Paired /\ [RtcNext]_rtcVars => Paired'
  <2> SUFFICES ASSUME Paired, [RtcNext]_rtcVars PROVE Paired'
    OBVIOUS
  <2>1. RtcInv'
    BY RtcStep DEF Paired
  <2>2. faults' = {} => Pairing'
    BY PairingStep, FaultsStay DEF Paired, RtcInv
  <2> QED BY <2>1, <2>2 DEF Paired
<1>3. Paired => QuietMeansPaired
  <2>1. ASSUME Paired, Quiet, Undisturbed
        PROVE  \A e \in Ends : HasPc(e) => HasPc(Other(e)) /\ pc[peers[e]].sig = "stable"
                                           /\ pc[peers[e]].remote = peers[Other(e)]
    BY <2>1, PairedWhenQuiet DEF Paired, Undisturbed
  <2> QED BY <2>1 DEF QuietMeansPaired
<1> QED BY <1>1, <1>2, <1>3, PTL DEF RtcSpec

(***************************************************************************)
(* ServerRouting.                                                          *)
(***************************************************************************)
(* A set of positive numbers has a least one: intervals from 1 on are      *)
(* ordered by inclusion.                                                   *)
LEMMA LeastNumber ==
  ASSUME NEW S \in SUBSET (Nat \ {0}), S # {}
  PROVE  Min(S) \in S /\ \A k \in S : Min(S) <= k
<1> DEFINE T == {1..i : i \in S}
<1>1. T \subseteq FiniteSubsetsOf(Nat) /\ T # {}
  <2>1. \A i \in S : IsFiniteSet(1..i)
    BY FS_Interval
  <2>2. \A i \in S : 1..i \in FiniteSubsetsOf(Nat)
    BY <2>1 DEF FiniteSubsetsOf
  <2> QED BY <2>2
<1>2. PICK x \in T : \A y \in T : ~ (<<y, x>> \in StrictSubsetOrdering(Nat))
  <2> HIDE DEF T
  <2> QED BY <1>1, WFMin, FS_StrictSubsetOrderingWellFounded
<1>3. PICK m \in S : x = 1..m
  OBVIOUS
<1>4. ASSUME NEW k \in S, k < m PROVE FALSE
  <2>1. <<1..k, 1..m>> \notin StrictSubsetOrdering(Nat)
    BY <1>2, <1>3
  <2>2. 1..k \in SUBSET Nat /\ 1..m \in SUBSET Nat /\ 1..k \subseteq 1..m /\ m \in 1..m /\ m \notin 1..k
    BY <1>4
  <2> QED BY <2>1, <2>2 DEF StrictSubsetOrdering
<1>5. \E n \in S : \A k \in S : n <= k
  BY <1>4
<1> QED BY <1>5 DEF Min

(* A finite set as a sequence: each of its elements is there.              *)
LEMMA SetAsSeq ==
  ASSUME NEW S, IsFiniteSet(S)
  PROVE  /\ SetToSeq(S) \in Seq(S)
         /\ \A x \in S : \E n \in 1..Len(SetToSeq(S)) : SetToSeq(S)[n] = x
<1> DEFINE n == Cardinality(S)
           f == SetToSeq(S)
<1>1. n \in Nat /\ ExistsBijection(1..n, S)
  BY FS_CardinalityType
<1>2. f \in [1..n -> S] /\ \A i, k \in 1..n : f[i] = f[k] => i = k
  <2>1. PICK g \in Bijection(1..n, S) : TRUE
    BY <1>1 DEF ExistsBijection
  <2>2. g \in [1..n -> S] /\ IsInjective(g)
    BY <2>1 DEF Bijection, Injection, IsInjective
  <2>3. f \in [1..n -> S] /\ IsInjective(f)
    BY <2>2 DEF SetToSeq
  <2> QED BY <2>3 DEF IsInjective
<1>3. f \in Surjection(1..n, S)
  <2>1. f \in Injection(1..n, S)
    BY <1>2 DEF Injection, IsInjective
  <2>2. Cardinality(1..n) = n
    BY <1>1, FS_Interval
  <2> HIDE DEF f
  <2> QED BY <2>1, <2>2, FS_Injection
<1>4. f \in Seq(S) /\ Len(f) = n
  BY <1>1, <1>2
<1> QED BY <1>3, <1>4 DEF Surjection

(* A sequence of the elements of a set: none twice.                        *)
LEMMA SeqOfSet ==
  ASSUME NEW S, IsFiniteSet(S), NEW c \in SetToSeqs(S)
  PROVE  /\ c \in Seq(S) /\ (c = <<>> => S = {}) /\ (S = {} => c = <<>>)
         /\ \A m, n \in DOMAIN c : c[m] = c[n] => m = n
<1> DEFINE D == 1..Cardinality(S)
<1>1. Cardinality(S) \in Nat
  BY FS_CardinalityType
<1>2. c \in [D -> S] /\ \A m, n \in D : c[m] = c[n] => m = n
  BY DEF SetToSeqs
<1>3. c \in Seq(S) /\ Len(c) = Cardinality(S)
  BY <1>1, <1>2
<1>4. Cardinality(S) = 0 <=> S = {}
  BY FS_EmptySet
<1> QED BY <1>1, <1>2, <1>3, <1>4

------------------------------------------------------------------------------
(* The lists of candidates: no server is in one twice.                     *)
Distinct(c) == \A m, n \in DOMAIN c : c[m].url = c[n].url => m = n
Listed(c, u) == \E n \in DOMAIN c : c[n].url = u

LEMMA TailOfCandidates ==
  ASSUME NEW c \in Seq(Candidate), c # <<>>, Distinct(c)
  PROVE  /\ Tail(c) \in Seq(Candidate) /\ Distinct(Tail(c)) /\ ~Listed(Tail(c), c[1].url)
<1>1. /\ Tail(c) \in Seq(Candidate) /\ Len(c) \in Nat \ {0} /\ Len(Tail(c)) = Len(c) - 1
      /\ DOMAIN c = 1..Len(c) /\ DOMAIN Tail(c) = 1..(Len(c) - 1)
  OBVIOUS
<1>2. \A n \in 1..(Len(c) - 1) : Tail(c)[n] = c[n + 1] /\ n + 1 \in 1..Len(c) /\ n + 1 # 1
  BY <1>1
<1>3. Distinct(Tail(c))
  BY <1>1, <1>2 DEF Distinct
<1>4. ~Listed(Tail(c), c[1].url)
  BY <1>1, <1>2 DEF Distinct, Listed
<1> QED BY <1>1, <1>3, <1>4

LEMMA RestOfCandidates ==
  ASSUME NEW c \in Seq(Candidate), Distinct(c), NEW n \in 1..Len(c)
  PROVE  LET s == SubSeq(c, n, Len(c)) IN
         /\ s \in Seq(Candidate) /\ s # <<>> /\ Distinct(s)
         /\ \A u : Listed(s, u) => Listed(c, u)
<1> DEFINE s == SubSeq(c, n, Len(c))
<1>1. Len(c) \in Nat /\ n \in Nat /\ DOMAIN c = 1..Len(c)
  OBVIOUS
<1>2. s \in Seq(Candidate) /\ Len(s) = Len(c) - n + 1 /\ DOMAIN s = 1..(Len(c) - n + 1)
  OBVIOUS
<1>3. \A i \in 1..(Len(c) - n + 1) : s[i] = c[n + i - 1] /\ n + i - 1 \in 1..Len(c)
  BY <1>1
<1> HIDE DEF s
<1>4. Distinct(s)
  <2>1. ASSUME NEW i \in 1..(Len(c) - n + 1), NEW k \in 1..(Len(c) - n + 1), s[i].url = s[k].url
        PROVE  i = k
    <3> DEFINE p == n + i - 1
               q == n + k - 1
    <3>1. p \in DOMAIN c /\ q \in DOMAIN c /\ s[i] = c[p] /\ s[k] = c[q]
      BY <1>1, <1>3
    <3> HIDE DEF p, q
    <3>2. p = q
      BY <2>1, <3>1 DEF Distinct
    <3> QED BY <1>1, <3>2 DEF p, q
  <2> QED BY <1>2, <2>1 DEF Distinct
<1>5. \A u : Listed(s, u) => Listed(c, u)
  BY <1>1, <1>2, <1>3 DEF Listed
<1>6. s # <<>>
  BY <1>1, <1>2
<1> QED BY <1>2, <1>4, <1>5, <1>6 DEF s

LEMMA NextCandidate ==
  ASSUME NEW r \in JobStates, NEW c \in Seq(Candidate), Distinct(c)
  PROVE  LET t == TryNext(r, c) IN
         /\ t \in JobStates /\ t.pc \in {"relay", r.last} /\ t.part = r.part /\ t.last = r.last
         /\ Distinct(t.cands) /\ (t.pc = "relay" => t.cands # <<>>)
         /\ \A u : Listed(t.cands, u) => Listed(c, u)
<1> DEFINE S == WithSession(c)
           t == TryNext(r, c)
<1>0. r.last \in {"offline", "failed"} /\ r.part \in [Servers -> Part] /\ r.place \in [Servers -> Places]
      /\ r.sent \in BOOLEAN
  BY DEF JobStates
<1>1. CASE S = {}
  <2>1. t = [r EXCEPT !.pc = r.last, !.cands = <<>>, !.tried = TRUE]
    BY <1>1 DEF TryNext
  <2>2. <<>> \in Seq(Candidate) /\ Distinct(<<>>) /\ \A u : ~Listed(<<>>, u)
    BY DEF Distinct, Listed
  <2>3. t.pc = r.last /\ t.cands = <<>> /\ t.part = r.part /\ t.last = r.last
    BY <2>1 DEF JobStates
  <2>4. t \in JobStates
    BY <2>1, <2>2, <1>0 DEF JobStates, Over
  <2> QED BY <1>0, <2>2, <2>3, <2>4
<1>2. CASE S # {}
  <2> DEFINE n == Min(S)
             s == SubSeq(c, n, Len(c))
             o == c[n].url \in open
  <2>1. S \in SUBSET (Nat \ {0}) /\ S \subseteq 1..Len(c)
    BY DEF WithSession
  <2>2. n \in 1..Len(c)
    BY <1>2, <2>1, LeastNumber
  <2>3. t = [r EXCEPT !.pc = "relay", !.cands = s, !.sent = o]
    BY <1>2 DEF TryNext
  <2>4. s \in Seq(Candidate) /\ s # <<>> /\ Distinct(s) /\ \A u : Listed(s, u) => Listed(c, u)
    BY <2>2, RestOfCandidates
  <2>5. o \in BOOLEAN
    OBVIOUS
  <2> HIDE DEF n, s, o
  <2>6. t.pc = "relay" /\ t.cands = s /\ t.part = r.part /\ t.last = r.last
    BY <2>3 DEF JobStates
  <2>7. t \in JobStates
    BY <2>3, <2>4, <2>5, <1>0 DEF JobStates
  <2> QED BY <2>4, <2>6, <2>7
<1> QED BY <1>1, <1>2

------------------------------------------------------------------------------
(* Advance.                                                                *)
Tidy(r) == Distinct(r.cands) /\ (r.pc = "relay" => r.cands # <<>>)
CacheOK(C) == C \in [TargetUsers -> Seq(Candidate)] /\ \A t \in TargetUsers : Distinct(C[t])
Settled(r, n) ==
  IF Complete(r) THEN /\ n.last = r.last
                      /\ IF Found(r) = {} THEN n.pc = "offline" ELSE n.pc \in {"relay", r.last}
  ELSE n = r
NewCommand(c, u) == Awaits(job'[c[2]], u, c[1]) /\ ~Awaits(job[c[2]], u, c[1])

(* What the wire has after Advance.                                        *)
Extends(base) ==
  \A u \in Servers : \E s \in Seq(Requests) :
    /\ wire'[u] = base[u] \o s
    /\ \A c \in Commands \X Jobs : (\E n \in 1..Len(s) : s[n] = c) <=> NewCommand(c, u)

LEMMA FoundCandidates ==
  ASSUME NEW r \in JobStates
  PROVE  /\ IsFiniteSet(Found(r)) /\ Found(r) \subseteq Candidate
         /\ \A x, y \in Found(r) : x.url = y.url => x = y
         /\ \A u \in Servers : r.part[u] = "in" => Found(r) # {}
<1> DEFINE S == {v \in Servers : r.part[v] = "in"}
           f == [u \in S |-> [url |-> u, here |-> r.place[u] = "here"]]
<1>1. Found(r) = {f[u] : u \in S}
  BY DEF Found
<1>2. IsFiniteSet(S)
  BY RoutingAssumption, FS_Subset
<1>3. f \in Surjection(S, Found(r))
  BY <1>1 DEF Surjection
<1>4. IsFiniteSet(Found(r))
  <2> HIDE DEF f, S
  <2> QED BY <1>2, <1>3, FS_Surjection
<1>5. Found(r) \subseteq Candidate
  <2>1. ASSUME NEW u \in S PROVE f[u] \in Candidate
    <3> DEFINE b == r.place[u] = "here"
    <3>1. f[u] = [url |-> u, here |-> b] /\ b \in BOOLEAN /\ u \in Servers
      OBVIOUS
    <3> HIDE DEF b, f
    <3> QED BY <3>1 DEF Candidate
  <2> HIDE DEF f
  <2> QED BY <1>1, <2>1
<1>7. ASSUME NEW x \in Found(r), NEW y \in Found(r), x.url = y.url PROVE x = y
  <2>1. PICK u \in S : x = f[u]
    BY <1>1
  <2>2. PICK v \in S : y = f[v]
    BY <1>1
  <2>3. f[u].url = u /\ f[v].url = v
    OBVIOUS
  <2> HIDE DEF f
  <2> QED BY <1>7, <2>1, <2>2, <2>3
<1>6. \A u \in Servers : r.part[u] = "in" => Found(r) # {}
  BY <1>1
<1> QED BY <1>4, <1>5, <1>6, <1>7

LEMMA Lists ==
  ASSUME NEW r \in JobStates, NEW c \in Sorted(r)
  PROVE  /\ c \in Seq(Candidate) /\ Distinct(c)
         /\ Complete(r) => (c = <<>> <=> Found(r) = {})
<1>1. CASE Complete(r)
  <2>1. c \in SetToSeqs(Found(r))
    BY <1>1 DEF Sorted
  <2>2. c \in Seq(Found(r)) /\ (c = <<>> <=> Found(r) = {}) /\ \A m, n \in DOMAIN c : c[m] = c[n] => m = n
    BY <2>1, FoundCandidates, SeqOfSet
  <2>3. c \in Seq(Candidate)
    BY <2>2, FoundCandidates
  <2>4. \A m \in DOMAIN c : c[m] \in Found(r)
    BY <2>2
  <2>5. Distinct(c)
    BY <2>2, <2>4, FoundCandidates DEF Distinct
  <2> QED BY <2>2, <2>3, <2>5
<1>2. CASE ~Complete(r)
  <2>1. c = <<>>
    BY <1>2 DEF Sorted
  <2> QED BY <1>2, <2>1 DEF Distinct
<1> QED BY <1>1, <1>2

LEMMA Collecting ==
  ASSUME NEW r \in JobStates, Complete(r), Tidy(r), NEW c \in Sorted(r)
  PROVE  LET n == Collected(r, c) IN
         n \in JobStates /\ Tidy(n) /\ ~Complete(n) /\ Settled(r, n)
<1> DEFINE n == Collected(r, c)
<1>0. r.last \in {"offline", "failed"} /\ c \in Seq(Candidate) /\ Distinct(c) /\ (c = <<>> <=> Found(r) = {})
  BY Lists DEF JobStates
<1>1. CASE c = <<>>
  <2>1. n = [r EXCEPT !.pc = "offline"]
    BY <1>1 DEF Collected
  <2>2. n \in JobStates /\ n.pc = "offline" /\ n.last = r.last /\ n.cands = r.cands
    BY <2>1 DEF JobStates, Over
  <2> QED BY <1>0, <1>1, <2>2 DEF Tidy, Complete, Settled
<1>2. CASE c # <<>>
  <2>1. n = TryNext(r, c)
    BY <1>2 DEF Collected
  <2>2. /\ n \in JobStates /\ n.pc \in {"relay", r.last} /\ n.last = r.last
        /\ Distinct(n.cands) /\ (n.pc = "relay" => n.cands # <<>>)
    BY <1>0, <2>1, NextCandidate
  <2>3. n.pc # "query"
    BY <1>0, <2>2
  <2> QED BY <1>0, <1>2, <2>2, <2>3 DEF Tidy, Complete, Settled
<1> QED BY <1>1, <1>2

LEMMA Commanded ==
  ASSUME NEW u \in Servers, NEW jobs
  PROVE  LET s == Sent(jobs, u) IN
         /\ s \in Seq(Requests)
         /\ \A c \in Commands \X Jobs : (\E n \in 1..Len(s) : s[n] = c) <=>
              (Awaits(jobs[c[2]], u, c[1]) /\ ~Awaits(job[c[2]], u, c[1]))
<1> DEFINE S == {c \in Commands \X Jobs : Awaits(jobs[c[2]], u, c[1]) /\ ~Awaits(job[c[2]], u, c[1])}
           s == SetToSeq(S)
<1>1. IsFiniteSet(S)
  <2>1. IsFiniteSet(Commands)
    <3>1. /\ IsFiniteSet({"query"}) /\ IsFiniteSet({"test"}) /\ IsFiniteSet({"report"}) /\ IsFiniteSet({"relay"})
      BY FS_Singleton
    <3>2. IsFiniteSet({"query"} \cup {"test"}) /\ IsFiniteSet({"report"} \cup {"relay"})
      BY <3>1, FS_Union
    <3>3. IsFiniteSet(({"query"} \cup {"test"}) \cup ({"report"} \cup {"relay"}))
      BY <3>2, FS_Union
    <3>4. Commands = ({"query"} \cup {"test"}) \cup ({"report"} \cup {"relay"})
      BY DEF Commands
    <3> QED BY <3>3, <3>4
  <2>2. IsFiniteSet(Commands \X Jobs)
    BY <2>1, RoutingAssumption, FS_Product
  <2> QED BY <2>2, FS_Subset
<1>2. S \subseteq Requests
  BY DEF Requests
<1>3. Sent(jobs, u) = s
  BY DEF Sent
<1>4. s \in Seq(S) /\ \A x \in S : \E n \in 1..Len(s) : s[n] = x
  <2> HIDE DEF S
  <2> QED BY <1>1, SetAsSeq
<1>5. \A n \in 1..Len(s) : s[n] \in S
  <2> HIDE DEF s
  <2> QED BY <1>4
<1>6. s \in Seq(Requests)
  <2> HIDE DEF S, s
  <2> QED BY <1>2, <1>4
<1>7. \A c \in Commands \X Jobs : (\E n \in 1..Len(s) : s[n] = c) <=> c \in S
  <2> HIDE DEF S, s
  <2> QED BY <1>4, <1>5
<1>8. \A c \in Commands \X Jobs : c \in S <=> Awaits(jobs[c[2]], u, c[1]) /\ ~Awaits(job[c[2]], u, c[1])
  OBVIOUS
<1> HIDE DEF S, s
<1> QED BY <1>3, <1>6, <1>7, <1>8

LEMMA Advanced ==
  ASSUME NEW jobs \in [Jobs -> JobStates], NEW base \in [Servers -> Seq(Requests)], NEW C,
         CacheOK(C), \A j \in Jobs : Tidy(jobs[j]), Advance(jobs, base, C)
  PROVE  /\ job' \in [Jobs -> JobStates] /\ wire' \in [Servers -> Seq(Requests)] /\ CacheOK(candidateCache')
         /\ \A j \in Jobs : Tidy(job'[j]) /\ ~Complete(job'[j]) /\ Settled(jobs[j], job'[j])
         /\ Extends(base)
<1>1. PICK cands \in [Jobs -> UNION {Sorted(jobs[j]) : j \in Jobs}] :
        LET next == [j \in Jobs |-> IF Complete(jobs[j]) THEN Collected(jobs[j], cands[j]) ELSE jobs[j]]
            collected(t) == {j \in Jobs : Target[j] = t /\ cands[j] # <<>>}
            vain(t) == {j \in Jobs : Target[j] = t /\ next[j].pc \in {"offline", "failed"} /\
                          job[j].pc \notin Over \ {"idle"} /\ next[j].tried}
        IN /\ \A j \in Jobs : cands[j] \in Sorted(jobs[j])
           /\ job' = next
           /\ wire' = [u \in Servers |-> base[u] \o Sent(next, u)]
           /\ candidateCache' = [t \in TargetUsers |-> IF vain(t) # {} THEN <<>>
                           ELSE IF collected(t) = {} THEN C[t] ELSE cands[CHOOSE j \in collected(t) : TRUE]]
  BY DEF Advance
<1>2. \A j \in Jobs : cands[j] \in Sorted(jobs[j])
  BY <1>1
<1>3. job' = [j \in Jobs |-> IF Complete(jobs[j]) THEN Collected(jobs[j], cands[j]) ELSE jobs[j]]
  BY <1>1
<1>4. wire' = [u \in Servers |-> base[u] \o Sent(job', u)]
  BY <1>1
<1>5. ASSUME NEW j \in Jobs
      PROVE  job'[j] \in JobStates /\ Tidy(job'[j]) /\ ~Complete(job'[j]) /\ Settled(jobs[j], job'[j])
  <2>1. CASE Complete(jobs[j])
    <3>1. job'[j] = Collected(jobs[j], cands[j]) /\ jobs[j] \in JobStates /\ Tidy(jobs[j])
      BY <1>3, <2>1
    <3> QED BY <3>1, <2>1, <1>2, Collecting
  <2>2. CASE ~Complete(jobs[j])
    <3>1. job'[j] = jobs[j]
      BY <1>3, <2>2
    <3> QED BY <2>2, <3>1 DEF Settled
  <2> QED BY <2>1, <2>2
<1>6. job' \in [Jobs -> JobStates]
  BY <1>3, <1>5
<1>7. CacheOK(candidateCache')
  <2>1. \A j \in Jobs : cands[j] \in Seq(Candidate) /\ Distinct(cands[j])
    BY <1>2, Lists
  <2>2. ASSUME NEW t \in TargetUsers
        PROVE  \/ candidateCache'[t] = <<>> \/ candidateCache'[t] = C[t]
               \/ \E j \in Jobs : candidateCache'[t] = cands[j]
    <3> DEFINE lists == {j \in Jobs : Target[j] = t /\ cands[j] # <<>>}
    <3>1. \/ candidateCache'[t] = <<>> \/ candidateCache'[t] = C[t]
          \/ lists # {} /\ candidateCache'[t] = cands[CHOOSE j \in lists : TRUE]
      BY <1>1
    <3>2. lists # {} => (CHOOSE j \in lists : TRUE) \in Jobs
      OBVIOUS
    <3> HIDE DEF lists
    <3> QED BY <3>1, <3>2
  <2>3. <<>> \in Seq(Candidate) /\ Distinct(<<>>)
    BY DEF Distinct
  <2>4. \A t \in TargetUsers : candidateCache'[t] \in Seq(Candidate) /\ Distinct(candidateCache'[t])
    BY <2>1, <2>2, <2>3 DEF CacheOK
  <2>5. candidateCache' = [t \in TargetUsers |-> candidateCache'[t]]
    BY <1>1
  <2> QED BY <2>4, <2>5 DEF CacheOK
<1>8. ASSUME NEW u \in Servers
      PROVE  \E s \in Seq(Requests) :
               /\ wire'[u] = base[u] \o s
               /\ \A c \in Commands \X Jobs : (\E n \in 1..Len(s) : s[n] = c) <=> NewCommand(c, u)
  <2> DEFINE s == Sent(job', u)
  <2>1. /\ s \in Seq(Requests)
        /\ \A c \in Commands \X Jobs : (\E n \in 1..Len(s) : s[n] = c) <=>
              (Awaits(job'[c[2]], u, c[1]) /\ ~Awaits(job[c[2]], u, c[1]))
    BY Commanded
  <2>2. wire'[u] = base[u] \o s
    BY <1>4
  <2> HIDE DEF s
  <2> QED BY <2>1, <2>2 DEF NewCommand
<1>9. wire' \in [Servers -> Seq(Requests)]
  <2>1. ASSUME NEW u \in Servers PROVE wire'[u] \in Seq(Requests)
    <3>1. PICK s \in Seq(Requests) : wire'[u] = base[u] \o s
      BY <1>8
    <3>2. base[u] \in Seq(Requests)
      OBVIOUS
    <3> QED BY <3>1, <3>2, ConcatProperties
  <2> QED BY <1>4, <2>1
<1> QED BY <1>5, <1>6, <1>7, <1>8, <1>9 DEF Extends

------------------------------------------------------------------------------
(* The invariant of a job that nothing blurred.  Its commands that carry a *)
(* verdict are on the wire as long as it waits for them, and none of their *)
(* kind is ahead.                                                          *)
Heeded == {"query", "relay"}
OnWireAt(w, u, c) == \E n \in 1..Len(w[u]) : w[u][n] = c
Owned(j) == \A u \in Servers, k \in Heeded : OnWireAt(wire, u, <<k, j>>) <=> Awaits(job[j], u, k)
FirstOfKind(w, j) ==
  \A u \in Servers, k \in Heeded : \A n \in 1..Len(w[u]) : \A m \in 1..(n - 1) :
    w[u][n] = <<k, j>> => w[u][m][1] # k

(* While every server has the session and none refuses, all answers say so.*)
Excused == away \cup refused
Everywhere(j) == \A u \in Servers : u \in open /\ where[Target[j]][u] = "here"
Present(j) ==
  /\ job[j].pc \in Heeded => Everywhere(j)
  /\ job[j].pc = "query" => \A u \in Servers : job[j].part[u] \in {"query", "test", "report", "in"}
  /\ job[j].pc # "offline" /\ job[j].last = "failed"
Verdict(j) == job[j].pc = "ok" <=> j \in delivered

JobInv(j) == Owned(j) /\ FirstOfKind(wire, j) /\ Verdict(j) /\ (j \notin Excused => Present(j))
Resting == (\A j \in Jobs : Tidy(job[j]) /\ ~Complete(job[j])) /\ \A t \in TargetUsers : Distinct(candidateCache[t])
RoutingInv == RoutingTypeOK /\ Resting /\ \A j \in Jobs \ blurred : JobInv(j)

LEMMA RoutingHas ==
  ASSUME RoutingInv
  PROVE  /\ job \in [Jobs -> JobStates] /\ wire \in [Servers -> Seq(Requests)] /\ CacheOK(candidateCache)
         /\ \A j \in Jobs : Tidy(job[j]) /\ ~Complete(job[j]) /\ job[j] \in JobStates
         /\ \A u \in Servers : wire[u] \in Seq(Requests)
         /\ \A j \in Jobs : Target[j] \in TargetUsers
BY DEF RoutingInv, RoutingTypeOK, Resting, CacheOK, TargetUsers

(* The types of what Advance leaves alone.                                 *)
AroundJobs ==
  /\ open \subseteq Servers /\ latency \subseteq Servers
  /\ where \in [TargetUsers -> [Servers -> Places]]
  /\ probe \in [Servers -> {"idle", "test", "report"}]
  /\ delivered \subseteq Jobs /\ away \subseteq Jobs /\ refused \subseteq Jobs /\ blurred \subseteq Jobs
  /\ upset \in 0..MaxUpsets

LEMMA RoutingPut ==
  ASSUME (job \in [Jobs -> JobStates])', (wire \in [Servers -> Seq(Requests)])', CacheOK(candidateCache'),
         AroundJobs', \A j \in Jobs : Tidy(job'[j]) /\ ~Complete(job'[j]),
         \A j \in Jobs \ blurred' : JobInv(j)'
  PROVE  RoutingInv'
BY DEF RoutingInv, RoutingTypeOK, Resting, CacheOK, AroundJobs

LEMMA ConcatOn ==
  ASSUME NEW p \in Seq(Requests), NEW s \in Seq(Requests)
  PROVE  /\ p \o s \in Seq(Requests) /\ Len(p \o s) = Len(p) + Len(s)
         /\ \A n \in 1..Len(p) : (p \o s)[n] = p[n]
<1>1. /\ p \o s \in Seq(Requests) /\ Len(p \o s) = Len(p) + Len(s) /\ Len(p) \in Nat /\ Len(s) \in Nat
      /\ \A n \in 1..(Len(p) + Len(s)) : (p \o s)[n] = IF n <= Len(p) THEN p[n] ELSE s[n - Len(p)]
  BY ConcatProperties
<1> QED BY <1>1

Occurs(c, s) == \E n \in 1..Len(s) : s[n] = c

LEMMA ConcatOccurs ==
  ASSUME NEW p \in Seq(Requests), NEW s \in Seq(Requests), NEW c
  PROVE  Occurs(c, p \o s) <=> Occurs(c, p) \/ Occurs(c, s)
<1>1. /\ p \o s \in Seq(Requests) /\ Len(p \o s) = Len(p) + Len(s) /\ Len(p) \in Nat /\ Len(s) \in Nat
      /\ \A n \in 1..(Len(p) + Len(s)) : (p \o s)[n] = IF n <= Len(p) THEN p[n] ELSE s[n - Len(p)]
  BY ConcatProperties
<1>2. \A n \in 1..Len(p) : (p \o s)[n] = p[n]
  BY <1>1
<1>3. ASSUME NEW n \in 1..Len(s) PROVE (p \o s)[n + Len(p)] = s[n] /\ n + Len(p) \in 1..Len(p \o s)
  <2> DEFINE i == n + Len(p)
  <2>1. i \in 1..(Len(p) + Len(s)) /\ ~(i <= Len(p)) /\ i - Len(p) = n
    BY <1>1
  <2> HIDE DEF i
  <2>2. (p \o s)[i] = s[n] /\ i \in 1..Len(p \o s)
    BY <1>1, <2>1
  <2> QED BY <2>2 DEF i
<1>4. ASSUME NEW n \in 1..Len(p \o s), (p \o s)[n] = c
      PROVE  (\E m \in 1..Len(p) : p[m] = c) \/ (\E m \in 1..Len(s) : s[m] = c)
  <2>1. CASE n <= Len(p)
    BY <1>1, <1>4, <2>1
  <2>2. CASE ~(n <= Len(p))
    <3>1. n - Len(p) \in 1..Len(s) /\ s[n - Len(p)] = c
      BY <1>1, <1>4, <2>2
    <3> QED BY <3>1
  <2> QED BY <2>1, <2>2
<1>5. ASSUME NEW n \in 1..Len(p), p[n] = c PROVE \E m \in 1..Len(p \o s) : (p \o s)[m] = c
  BY <1>1, <1>2, <1>5
<1>6. ASSUME NEW n \in 1..Len(s), s[n] = c PROVE \E m \in 1..Len(p \o s) : (p \o s)[m] = c
  BY <1>3, <1>6
<1> QED BY <1>4, <1>5, <1>6 DEF Occurs

StillAsked(base, j) ==
  \A u \in Servers, k \in Heeded :
    OnWireAt(base, u, <<k, j>>) <=> Awaits(job[j], u, k) /\ Awaits(job'[j], u, k)

LEMMA OwnedAfter ==
  ASSUME NEW base \in [Servers -> Seq(Requests)], Extends(base), NEW j \in Jobs, StillAsked(base, j)
  PROVE  Owned(j)'
<1> SUFFICES ASSUME NEW u \in Servers, NEW k \in Heeded
             PROVE  OnWireAt(wire', u, <<k, j>>) <=> Awaits(job'[j], u, k)
  BY DEF Owned
<1> DEFINE c == <<k, j>>
<1>1. PICK s \in Seq(Requests) :
        /\ wire'[u] = base[u] \o s
        /\ \A d \in Commands \X Jobs : (\E n \in 1..Len(s) : s[n] = d) <=> NewCommand(d, u)
  BY DEF Extends
<1>2. c \in Commands \X Jobs /\ c[1] = k /\ c[2] = j /\ base[u] \in Seq(Requests)
  BY DEF Heeded, Commands
<1>3. (\E n \in 1..Len(s) : s[n] = c) <=> Awaits(job'[j], u, k) /\ ~Awaits(job[j], u, k)
  BY <1>1, <1>2 DEF NewCommand
<1>4. OnWireAt(base, u, c) <=> Awaits(job[j], u, k) /\ Awaits(job'[j], u, k)
  BY DEF StillAsked
<1>5. OnWireAt(wire', u, c) <=> OnWireAt(base, u, c) \/ \E n \in 1..Len(s) : s[n] = c
  <2> DEFINE p == base[u]
             w == wire'[u]
  <2> HIDE DEF c, p, w
  <2>1. w = p \o s /\ p \in Seq(Requests) /\ s \in Seq(Requests)
    BY <1>1, <1>2 DEF p, w
  <2>2. (\E n \in 1..Len(w) : w[n] = c) <=> (\E n \in 1..Len(p) : p[n] = c) \/ \E n \in 1..Len(s) : s[n] = c
    <3>1. Occurs(c, p \o s) <=> Occurs(c, p) \/ Occurs(c, s)
      BY <2>1, ConcatOccurs
    <3> QED BY <2>1, <3>1 DEF Occurs
  <2> QED BY <2>2 DEF OnWireAt, p, w
<1> QED BY <1>3, <1>4, <1>5

LEMMA FirstIfUnmixed ==
  ASSUME NEW w, NEW j \in Jobs, j \notin Mixed(w)
  PROVE  FirstOfKind(w, j)
<1> SUFFICES ASSUME NEW u \in Servers, NEW k \in Heeded, NEW n \in 1..Len(w[u]), NEW m \in 1..(n - 1),
                    w[u][n] = <<k, j>>, w[u][m][1] = k
             PROVE  FALSE
  BY DEF FirstOfKind
<1>1. w[u][n][2] = j /\ w[u][m][1] = w[u][n][1]
  OBVIOUS
<1> QED BY <1>1 DEF Mixed

LEMMA SettledIfIncomplete ==
  ASSUME NEW r, NEW n, Settled(r, n), ~Complete(r)
  PROVE  n = r
BY DEF Settled

(* A job that the step does not touch.                                     *)
LEMMA OtherJobs ==
  ASSUME NEW j \in Jobs, JobInv(j), job'[j] = job[j], Owned(j)', FirstOfKind(wire', j),
         j \in delivered' <=> j \in delivered,
         j \notin Excused' => j \notin Excused /\ (job[j].pc \in Heeded => Everywhere(j)')
  PROVE  JobInv(j)'
BY DEF JobInv, Verdict, Present

(* The wire and the jobs stay as they are.                                 *)
LEMMA JobsKept ==
  ASSUME RoutingInv, UNCHANGED <<job, wire, delivered>>, CacheOK(candidateCache'), AroundJobs',
         blurred \subseteq blurred', Excused \subseteq Excused',
         \A j \in Jobs \ Excused' : job[j].pc \in Heeded /\ Everywhere(j) => Everywhere(j)'
  PROVE  RoutingInv'
<1>1. ASSUME NEW j \in Jobs \ blurred' PROVE JobInv(j)'
  <2>1. JobInv(j)
    BY DEF RoutingInv
  <2>2. Owned(j)' /\ FirstOfKind(wire', j)
    BY <2>1 DEF JobInv, Owned
  <2>3. j \notin Excused' => j \notin Excused /\ (job[j].pc \in Heeded => Everywhere(j)')
    BY <2>1 DEF JobInv, Present
  <2> QED BY <2>1, <2>2, <2>3, OtherJobs
<1> QED BY <1>1, RoutingHas, RoutingPut DEF Complete

LEMMA OverIsIdle == \A j \in Jobs : job[j].pc \in Heeded => job[j].pc \notin Over
BY DEF Heeded, Over

------------------------------------------------------------------------------
(* Steps that leave the jobs alone.                                        *)
LEMMA DisturbTyped == AroundJobs /\ Disturb => upset' \in 0..MaxUpsets
BY RoutingAssumption DEF AroundJobs, Disturb

LEMMA RoutingAround == RoutingInv => AroundJobs
BY DEF RoutingInv, RoutingTypeOK, AroundJobs

LEMMA MoveKeeps ==
  ASSUME RoutingInv, NEW t \in TargetUsers, NEW u \in Servers, Move(t, u)
  PROVE  RoutingInv'
<1>1. AroundJobs /\ upset' \in 0..MaxUpsets
  BY RoutingAround, DisturbTyped DEF Move
<1>2. where' \in [TargetUsers -> [Servers -> Places]]
  BY <1>1 DEF Move, AroundJobs
<1>3. AroundJobs'
  BY <1>1, <1>2 DEF Move, AroundJobs
<1>4. \A j \in Jobs \ Excused' : job[j].pc \notin Heeded
  BY OverIsIdle DEF Move, Excused
<1> QED BY <1>3, <1>4, RoutingHas, JobsKept DEF Move, Excused

LEMMA ExpireCandidatesKeeps ==
  ASSUME RoutingInv, NEW t \in TargetUsers, ExpireCandidates(t)
  PROVE  RoutingInv'
<1>1. AroundJobs'
  BY RoutingAround DEF ExpireCandidates, AroundJobs
<1>2. <<>> \in Seq(Candidate) /\ Distinct(<<>>)
  BY DEF Distinct
<1>3. CacheOK(candidateCache')
  BY <1>2, RoutingHas DEF ExpireCandidates, CacheOK
<1> QED BY <1>1, <1>3, JobsKept DEF ExpireCandidates, Everywhere, Excused

LEMMA ProbeTimesOutKeeps ==
  ASSUME RoutingInv, NEW u \in Servers, ProbeTimesOut(u)
  PROVE  RoutingInv'
<1>1. AroundJobs'
  BY RoutingAround, DisturbTyped DEF ProbeTimesOut, AroundJobs
<1> QED BY <1>1, RoutingHas, JobsKept DEF ProbeTimesOut, Everywhere, Excused

LEMMA TestLatencyKeeps ==
  ASSUME RoutingInv, NEW u \in Servers, TestLatency(u)
  PROVE  RoutingInv'
<1> DEFINE p == <<"test", Probe>>
<1>1. AroundJobs'
  BY RoutingAround DEF TestLatency, AroundJobs
<1>2. p \in Requests /\ wire \in [Servers -> Seq(Requests)] /\ wire' = [wire EXCEPT ![u] = Append(@, p)]
  BY RoutingHas DEF TestLatency, Requests, Commands
<1>3. /\ wire' \in [Servers -> Seq(Requests)] /\ wire'[u] = Append(wire[u], p)
      /\ \A v \in Servers \ {u} : wire'[v] = wire[v]
  BY <1>2
<1>4. p[1] \notin Heeded
  BY DEF Heeded
<1>5. \A k \in Heeded, j \in Jobs : p # <<k, j>>
  BY DEF Heeded
<1> HIDE DEF p
<1>6. /\ Len(wire'[u]) = Len(wire[u]) + 1 /\ Len(wire[u]) \in Nat /\ wire'[u][Len(wire[u]) + 1] = p
      /\ \A n \in 1..Len(wire[u]) : wire'[u][n] = wire[u][n]
  BY <1>2, <1>3, AppendProperties
<1>7. ASSUME NEW j \in Jobs \ blurred' PROVE JobInv(j)'
  <2>1. JobInv(j) /\ job'[j] = job[j]
    BY <1>7 DEF RoutingInv, TestLatency
  <2>2. ASSUME NEW v \in Servers, NEW k \in Heeded
        PROVE  OnWireAt(wire', v, <<k, j>>) <=> OnWireAt(wire, v, <<k, j>>)
    <3> DEFINE c == <<k, j>>
    <3>1. c # p
      BY <1>5
    <3> HIDE DEF c
    <3>2. OnWireAt(wire', v, c) <=> OnWireAt(wire, v, c)
      <4>1. CASE v # u
        BY <4>1, <1>3 DEF OnWireAt
      <4>2. CASE v = u
        <5>1. \A n \in 1..Len(wire'[u]) : n \in 1..Len(wire[u]) \/ wire'[u][n] = p
          BY <1>6
        <5>2. ASSUME NEW n \in 1..Len(wire'[u]), wire'[u][n] = c PROVE OnWireAt(wire, u, c)
          <6>1. n \in 1..Len(wire[u])
            BY <5>1, <5>2, <3>1
          <6> QED BY <6>1, <5>2, <1>6 DEF OnWireAt
        <5>3. ASSUME NEW n \in 1..Len(wire[u]), wire[u][n] = c PROVE OnWireAt(wire', u, c)
          BY <5>3, <1>6 DEF OnWireAt
        <5> QED BY <4>2, <5>2, <5>3 DEF OnWireAt
      <4> QED BY <4>1, <4>2
    <3> QED BY <3>2 DEF c
  <2>3. Owned(j)'
    BY <2>1, <2>2 DEF JobInv, Owned
  <2>4. FirstOfKind(wire', j)
    <3> SUFFICES ASSUME NEW v \in Servers, NEW k \in Heeded, NEW n \in 1..Len(wire'[v]),
                        NEW m \in 1..(n - 1), wire'[v][n] = <<k, j>>, wire'[v][m][1] = k
                 PROVE  FALSE
      BY DEF FirstOfKind
    <3>1. n \in 1..Len(wire[v]) /\ wire'[v][n] = wire[v][n]
      <4>1. CASE v # u
        BY <4>1, <1>3
      <4>2. CASE v = u
        <5>1. wire'[u][n] # p
          BY <4>2, <1>5
        <5>2. n # Len(wire[u]) + 1
          BY <5>1, <1>6
        <5>3. n \in 1..Len(wire[u])
          BY <4>2, <5>2, <1>6
        <5> QED BY <4>2, <5>3, <1>6
      <4> QED BY <4>1, <4>2
    <3>2. wire'[v][m] = wire[v][m]
      BY <3>1, <1>3, <1>6
    <3> QED BY <2>1, <3>1, <3>2 DEF JobInv, FirstOfKind
  <2>5. j \notin Excused' => j \notin Excused /\ (job[j].pc \in Heeded => Everywhere(j)')
    BY <2>1 DEF JobInv, Present, Everywhere, TestLatency, Excused
  <2> QED BY <2>1, <2>3, <2>4, <2>5, OtherJobs DEF TestLatency
<1> QED BY <1>1, <1>3, <1>7, RoutingHas, RoutingPut DEF TestLatency, Complete

LEMMA CloseServerKeeps ==
  ASSUME RoutingInv, NEW u \in Servers, CloseServer(u)
  PROVE  RoutingInv'
<1>1. AroundJobs'
  <2>1. AroundJobs /\ upset' \in 0..MaxUpsets /\ OnWire(u) \subseteq Jobs
    BY RoutingAround, DisturbTyped DEF CloseServer, OnWire
  <2> QED BY <2>1 DEF CloseServer, AroundJobs
<1>2. <<>> \in Seq(Candidate) /\ Distinct(<<>>) /\ <<>> \in Seq(Requests)
  BY DEF Distinct
<1>3. CacheOK(candidateCache')
  BY <1>2 DEF CloseServer, CacheOK
<1>4. /\ wire' \in [Servers -> Seq(Requests)] /\ wire'[u] = <<>>
      /\ \A v \in Servers \ {u} : wire'[v] = wire[v]
  BY <1>2, RoutingHas DEF CloseServer, Lost
<1>5. ASSUME NEW j \in Jobs \ blurred' PROVE JobInv(j)'
  <2>1. JobInv(j) /\ job'[j] = job[j] /\ j \notin OnWire(u)
    BY <1>5 DEF RoutingInv, CloseServer
  <2>2. \A k \in Heeded : ~OnWireAt(wire, u, <<k, j>>)
    BY <2>1 DEF OnWireAt, OnWire
  <2>3. \A k \in Heeded : ~OnWireAt(wire', u, <<k, j>>)
    BY <1>4 DEF OnWireAt
  <2>4. Owned(j)'
    <3>1. ASSUME NEW v \in Servers, NEW k \in Heeded
          PROVE  OnWireAt(wire', v, <<k, j>>) <=> OnWireAt(wire, v, <<k, j>>)
      <4>1. CASE v # u
        BY <4>1, <1>4 DEF OnWireAt
      <4>2. CASE v = u
        BY <4>2, <2>2, <2>3
      <4> QED BY <4>1, <4>2
    <3> QED BY <2>1, <3>1 DEF JobInv, Owned
  <2>5. FirstOfKind(wire', j)
    <3> SUFFICES ASSUME NEW v \in Servers, NEW k \in Heeded, NEW n \in 1..Len(wire'[v]),
                        NEW m \in 1..(n - 1), wire'[v][n] = <<k, j>>, wire'[v][m][1] = k
                 PROVE  FALSE
      BY DEF FirstOfKind
    <3>1. v # u
      BY <1>4
    <3>2. wire'[v] = wire[v]
      BY <3>1, <1>4
    <3> QED BY <2>1, <3>2 DEF JobInv, FirstOfKind
  <2>6. j \notin Excused' => j \notin Excused /\ (job[j].pc \in Heeded => Everywhere(j)')
    BY OverIsIdle DEF CloseServer, Excused
  <2> QED BY <2>1, <2>4, <2>5, <2>6, OtherJobs DEF CloseServer
<1> QED BY <1>1, <1>3, <1>4, <1>5, RoutingHas, RoutingPut DEF CloseServer, Complete

------------------------------------------------------------------------------
(* Steps of jobs.  Those that the step does not change keep their part.    *)
LEMMA StillAskedIfSame ==
  ASSUME NEW j \in Jobs, Owned(j), job'[j] = job[j], NEW base,
         \A u \in Servers, k \in Heeded : OnWireAt(base, u, <<k, j>>) <=> OnWireAt(wire, u, <<k, j>>)
  PROVE  StillAsked(base, j)
BY DEF StillAsked, Owned

LEMMA RejectedOK ==
  ASSUME NEW r \in JobStates, Tidy(r), NEW u \in Servers, NEW k \in Commands, k = "relay" => r.pc = "relay"
  PROVE  Rejected(r, u, k) \in JobStates /\ Tidy(Rejected(r, u, k))
<1>1. CASE k # "relay"
  <2> DEFINE x == IF k = "query" THEN "out" ELSE "in"
  <2>1. Rejected(r, u, k) = [r EXCEPT !.part[u] = x] /\ x \in Part
    BY <1>1 DEF Rejected, Commands, Part
  <2> HIDE DEF x
  <2>2. [r EXCEPT !.part[u] = x] \in JobStates /\ Tidy([r EXCEPT !.part[u] = x])
    BY <2>1 DEF JobStates, Tidy
  <2> QED BY <2>1, <2>2
<1>2. CASE k = "relay"
  <2> DEFINE r1 == [r EXCEPT !.last = "failed"]
  <2>1. Rejected(r, u, k) = TryNext(r1, Tail(r.cands))
    BY <1>2 DEF Rejected
  <2>2. r1 \in JobStates
    BY DEF JobStates
  <2>3. Tail(r.cands) \in Seq(Candidate) /\ Distinct(Tail(r.cands))
    BY <1>2, TailOfCandidates DEF Tidy, JobStates
  <2> HIDE DEF r1
  <2> QED BY <2>1, <2>2, <2>3, NextCandidate DEF Tidy
<1> QED BY <1>1, <1>2

Begun(j) ==
  IF candidateCache[Target[j]] # <<>> THEN TryNext(NewJob, candidateCache[Target[j]])
  ELSE IF open = {} THEN [NewJob EXCEPT !.pc = "offline"]
  ELSE [NewJob EXCEPT !.pc = "query", !.part = [u \in Servers |-> IF u \in open THEN "query" ELSE "none"]]

LEMMA Starting ==
  ASSUME RoutingInv, NEW j \in Jobs
  PROVE  LET X == Begun(j) IN
         /\ X \in JobStates /\ Tidy(X) /\ ~Complete(X) /\ X.pc # "ok" /\ X.last = "failed"
         /\ Servers \subseteq open => /\ X.pc # "offline"
                                      /\ X.pc = "query" => \A u \in Servers : X.part[u] = "query"
<1> DEFINE C == candidateCache[Target[j]]
           X == Begun(j)
<1>0. open \subseteq Servers /\ C \in Seq(Candidate) /\ Distinct(C)
  BY RoutingAround, RoutingHas DEF AroundJobs, CacheOK
<1>1. NewJob \in JobStates /\ NewJob.last = "failed" /\ Tidy(NewJob)
  <2>1. <<>> \in Seq(Candidate) /\ Distinct(<<>>)
    BY DEF Distinct
  <2> QED BY <2>1 DEF NewJob, JobStates, Tidy, Over, Part, Places
<1>2. CASE C # <<>>
  <2>1. X = TryNext(NewJob, C)
    BY <1>2 DEF Begun
  <2> HIDE DEF C
  <2>2. X \in JobStates /\ X.pc \in {"relay", "failed"} /\ X.last = "failed" /\ Tidy(X)
    BY <2>1, <1>0, <1>1, NextCandidate DEF Tidy
  <2> QED BY <2>2 DEF Complete
<1>3. CASE C = <<>> /\ open = {}
  <2>1. X = [NewJob EXCEPT !.pc = "offline"]
    BY <1>3 DEF Begun
  <2>2. X \in JobStates /\ X.pc = "offline" /\ X.last = "failed" /\ Tidy(X)
    BY <2>1, <1>1 DEF JobStates, Over, Tidy
  <2>3. ~(Servers \subseteq open)
    BY <1>3, RoutingAssumption
  <2> QED BY <2>2, <2>3 DEF Complete
<1>4. CASE C = <<>> /\ open # {}
  <2> DEFINE p == [u \in Servers |-> IF u \in open THEN "query" ELSE "none"]
  <2>1. X = [NewJob EXCEPT !.pc = "query", !.part = p]
    BY <1>4 DEF Begun
  <2>2. p \in [Servers -> Part] /\ (\A u \in open : p[u] = "query") /\ \E u \in Servers : p[u] = "query"
    BY <1>0, <1>4 DEF Part
  <2> HIDE DEF p
  <2>3. X \in JobStates /\ X.pc = "query" /\ X.last = "failed" /\ X.part = p /\ Tidy(X)
    BY <2>1, <2>2, <1>1 DEF JobStates, Tidy
  <2>4. ~Complete(X)
    BY <2>2, <2>3 DEF Complete
  <2> QED BY <2>2, <2>3, <2>4
<1> QED BY <1>2, <1>3, <1>4

LEMMA SendToUserKeeps ==
  ASSUME RoutingInv, NEW j \in Jobs, SendToUser(j)
  PROVE  RoutingInv'
<1> DEFINE X == Begun(j)
           jobs == [job EXCEPT ![j] = X]
<1>1. Advance(jobs, wire, candidateCache) /\ job[j] = NewJob
  BY DEF SendToUser, Begun
<1>2. /\ X \in JobStates /\ Tidy(X) /\ ~Complete(X) /\ X.pc # "ok" /\ X.last = "failed"
      /\ Servers \subseteq open => /\ X.pc # "offline"
                                   /\ X.pc = "query" => \A u \in Servers : X.part[u] = "query"
  BY Starting
<1> HIDE DEF X
<1>3. jobs \in [Jobs -> JobStates] /\ (\A i \in Jobs : Tidy(jobs[i]) /\ ~Complete(jobs[i]))
      /\ jobs[j] = X /\ \A i \in Jobs \ {j} : jobs[i] = job[i]
  BY <1>2, RoutingHas
<1> HIDE DEF jobs
<1>4. /\ job' \in [Jobs -> JobStates] /\ wire' \in [Servers -> Seq(Requests)] /\ CacheOK(candidateCache')
      /\ \A i \in Jobs : Tidy(job'[i]) /\ ~Complete(job'[i]) /\ Settled(jobs[i], job'[i])
      /\ Extends(wire)
  BY <1>1, <1>3, RoutingHas, Advanced
<1>5. job'[j] = X /\ \A i \in Jobs \ {j} : job'[i] = job[i]
  BY <1>3, <1>4, SettledIfIncomplete
<1>6. AroundJobs'
  BY RoutingAround DEF SendToUser, AroundJobs, Mixed
<1>7. ASSUME NEW i \in Jobs \ blurred' PROVE JobInv(i)'
  <2>1. JobInv(i) /\ FirstOfKind(wire', i)
    BY <1>7, FirstIfUnmixed DEF RoutingInv, SendToUser
  <2>2. CASE i # j
    <3>1. Owned(i)'
      BY <2>1, <2>2, <1>4, <1>5, RoutingHas, StillAskedIfSame, OwnedAfter DEF JobInv
    <3>2. i \notin Excused' => i \notin Excused /\ (job[i].pc \in Heeded => Everywhere(i)')
      BY <2>1 DEF SendToUser, JobInv, Present, Everywhere, Excused
    <3> QED BY <2>1, <2>2, <1>5, <3>1, <3>2, OtherJobs DEF SendToUser
  <2>3. CASE i = j
    <3>1. NewJob.pc = "idle" /\ \A u \in Servers, k \in Heeded : ~Awaits(NewJob, u, k)
      BY DEF NewJob, Awaits
    <3>2. StillAsked(wire, i)
      BY <2>1, <2>3, <3>1, <1>1 DEF StillAsked, JobInv, Owned
    <3>3. Owned(i)'
      BY <3>2, <1>4, RoutingHas, OwnedAfter
    <3>4. Verdict(i)'
      BY <2>1, <2>3, <3>1, <1>1, <1>2, <1>5 DEF JobInv, Verdict, SendToUser
    <3>5. i \notin Excused' => Everywhere(i)
      BY <2>3 DEF SendToUser, Everywhere, Excused
    <3>6. ASSUME i \notin Excused' PROVE Present(i)'
      <4>1. Servers \subseteq open /\ Everywhere(i)'
        BY <3>5, <3>6 DEF Everywhere, SendToUser
      <4> QED BY <4>1, <2>3, <1>2, <1>5 DEF Present
    <3> QED BY <2>1, <3>3, <3>4, <3>6 DEF JobInv
  <2> QED BY <2>2, <2>3
<1> QED BY <1>4, <1>6, <1>7, RoutingPut

LEMMA LostWire ==
  ASSUME wire \in [Servers -> Seq(Requests)], NEW u \in Servers
  PROVE  /\ Lost(u, wire) \in [Servers -> Seq(Requests)] /\ Lost(u, wire)[u] = <<>>
         /\ \A v \in Servers \ {u} : Lost(u, wire)[v] = wire[v]
<1>1. <<>> \in Seq(Requests)
  OBVIOUS
<1> QED BY <1>1 DEF Lost

LEMMA NoCandidates == CacheOK([t \in TargetUsers |-> <<>>])
<1>1. <<>> \in Seq(Candidate) /\ Distinct(<<>>)
  BY DEF Distinct
<1> QED BY <1>1 DEF CacheOK

LEMMA TimesOutKeeps ==
  ASSUME RoutingInv, NEW j \in Jobs, NEW u \in Servers, NEW k \in Commands, TimesOut(j, u, k)
  PROVE  RoutingInv'
<1> DEFINE reset == k = "relay" /\ u \in open
           base == IF reset THEN Lost(u, wire) ELSE wire
           C == IF reset THEN [t \in TargetUsers |-> <<>>] ELSE candidateCache
           jobs == [job EXCEPT ![j] = Rejected(job[j], u, k)]
<1>1. /\ Advance(jobs, base, C) /\ Awaits(job[j], u, k) /\ Disturb
      /\ open' = IF reset THEN open \ {u} ELSE open
      /\ blurred' = blurred \cup {j} \cup (IF reset THEN OnWire(u) ELSE {}) \cup Mixed(wire')
      /\ away' = away \cup {i \in Jobs : job[i].pc \notin Over}
      /\ UNCHANGED <<where, latency, probe, delivered, refused>>
  BY DEF TimesOut
<1>2. base \in [Servers -> Seq(Requests)] /\ CacheOK(C)
  BY RoutingHas, LostWire, NoCandidates
<1>3. Rejected(job[j], u, k) \in JobStates /\ Tidy(Rejected(job[j], u, k))
  <2>1. k = "relay" => job[j].pc = "relay"
    BY <1>1 DEF Awaits
  <2> QED BY <2>1, RoutingHas, RejectedOK
<1>4. jobs \in [Jobs -> JobStates] /\ (\A i \in Jobs : Tidy(jobs[i]))
      /\ \A i \in Jobs \ {j} : jobs[i] = job[i]
  BY <1>3, RoutingHas
<1>b. \A v \in Servers : base[v] = wire[v] \/ (reset /\ v = u /\ base[v] = <<>>)
  BY RoutingHas, LostWire
<1> HIDE DEF jobs, base, C
<1>5. /\ job' \in [Jobs -> JobStates] /\ wire' \in [Servers -> Seq(Requests)] /\ CacheOK(candidateCache')
      /\ \A i \in Jobs : Tidy(job'[i]) /\ ~Complete(job'[i]) /\ Settled(jobs[i], job'[i])
      /\ Extends(base)
  BY <1>1, <1>2, <1>4, Advanced
<1>6. \A i \in Jobs \ {j} : job'[i] = job[i]
  BY <1>4, <1>5, RoutingHas, SettledIfIncomplete
<1>7. AroundJobs'
  <2>1. AroundJobs /\ upset' \in 0..MaxUpsets /\ OnWire(u) \subseteq Jobs /\ Mixed(wire') \subseteq Jobs
    BY <1>1, RoutingAround, DisturbTyped DEF OnWire, Mixed
  <2>2. blurred' \subseteq Jobs /\ away' \subseteq Jobs /\ open' \subseteq Servers
    BY <1>1, <2>1 DEF AroundJobs
  <2> QED BY <1>1, <2>1, <2>2 DEF AroundJobs
<1>8. ASSUME NEW i \in Jobs \ blurred' PROVE JobInv(i)'
  <2>1. JobInv(i) /\ i # j /\ (reset => i \notin OnWire(u)) /\ i \notin Mixed(wire')
    BY <1>1, <1>8 DEF RoutingInv
  <2>2. ASSUME NEW v \in Servers, NEW c \in Heeded
        PROVE  OnWireAt(base, v, <<c, i>>) <=> OnWireAt(wire, v, <<c, i>>)
    <3>1. CASE base[v] = wire[v]
      BY <3>1 DEF OnWireAt
    <3>2. CASE reset /\ v = u /\ base[v] = <<>>
      <4>1. ~OnWireAt(wire, u, <<c, i>>)
        BY <2>1, <3>2 DEF OnWireAt, OnWire
      <4>2. ~OnWireAt(base, v, <<c, i>>)
        BY <3>2 DEF OnWireAt
      <4> QED BY <3>2, <4>1, <4>2
    <3> QED BY <1>b, <3>1, <3>2
  <2>3. Owned(i)'
    BY <2>1, <2>2, <1>2, <1>5, <1>6, StillAskedIfSame, OwnedAfter DEF JobInv
  <2>4. FirstOfKind(wire', i)
    BY <2>1, FirstIfUnmixed
  <2>5. i \notin Excused' => i \notin Excused /\ (job[i].pc \in Heeded => Everywhere(i)')
    BY <1>1, OverIsIdle DEF Excused
  <2> QED BY <2>1, <2>3, <2>4, <2>5, <1>1, <1>6, OtherJobs
<1> QED BY <1>5, <1>7, <1>8, RoutingPut

LEMMA ReconnectKeeps ==
  ASSUME RoutingInv, NEW u \in Servers, Reconnect(u)
  PROVE  RoutingInv'
<1> DEFINE jobs == [j \in Jobs |-> IF j \in Unsent(u) THEN [job[j] EXCEPT !.sent = TRUE] ELSE job[j]]
<1>1. Advance(jobs, wire, candidateCache)
  BY DEF Reconnect
<1>2. ASSUME NEW j \in Jobs
      PROVE  /\ jobs[j] \in JobStates /\ Tidy(jobs[j]) /\ ~Complete(jobs[j])
             /\ jobs[j].pc = job[j].pc /\ jobs[j].last = job[j].last /\ jobs[j].part = job[j].part
             /\ j \notin Unsent(u) => jobs[j] = job[j]
  <2>1. job[j] \in JobStates /\ Tidy(job[j]) /\ ~Complete(job[j])
    BY RoutingHas
  <2>2. CASE j \in Unsent(u)
    <3>1. jobs[j] = [job[j] EXCEPT !.sent = TRUE]
      BY <2>2
    <3> HIDE DEF jobs
    <3>2. jobs[j] \in JobStates /\ jobs[j].pc = job[j].pc /\ jobs[j].last = job[j].last
          /\ jobs[j].part = job[j].part /\ jobs[j].cands = job[j].cands
      BY <2>1, <3>1 DEF JobStates
    <3> QED BY <2>1, <2>2, <3>2 DEF Tidy, Complete
  <2>3. CASE j \notin Unsent(u)
    BY <2>1, <2>3
  <2> QED BY <2>2, <2>3
<1>3. jobs \in [Jobs -> JobStates]
  BY <1>2
<1> HIDE DEF jobs
<1>4. /\ job' \in [Jobs -> JobStates] /\ wire' \in [Servers -> Seq(Requests)] /\ CacheOK(candidateCache')
      /\ \A i \in Jobs : Tidy(job'[i]) /\ ~Complete(job'[i]) /\ Settled(jobs[i], job'[i])
      /\ Extends(wire)
  BY <1>1, <1>2, <1>3, RoutingHas, Advanced
<1>5. \A i \in Jobs : job'[i] = jobs[i]
  BY <1>2, <1>4, SettledIfIncomplete
<1>6. AroundJobs'
  BY RoutingAround DEF Reconnect, AroundJobs, Mixed
<1>7. ASSUME NEW i \in Jobs \ blurred' PROVE JobInv(i)'
  <2>1. JobInv(i) /\ FirstOfKind(wire', i)
    BY <1>7, FirstIfUnmixed DEF RoutingInv, Reconnect
  <2>2. StillAsked(wire, i)
    <3>1. CASE i \notin Unsent(u)
      <4>1. job'[i] = job[i]
        BY <1>2, <1>5, <3>1
      <4> QED BY <2>1, <4>1, StillAskedIfSame DEF JobInv
    <3>2. CASE i \in Unsent(u)
      <4>1. \A v \in Servers, k \in Heeded : ~Awaits(job[i], v, k)
        BY <3>2 DEF Unsent, Awaits, Heeded
      <4> QED BY <2>1, <4>1 DEF JobInv, Owned, StillAsked
    <3> QED BY <3>1, <3>2
  <2>3. Owned(i)'
    BY <2>2, <1>4, RoutingHas, OwnedAfter
  <2>4. job'[i].pc = job[i].pc /\ job'[i].last = job[i].last /\ job'[i].part = job[i].part
    BY <1>2, <1>5
  <2>5. Verdict(i)' /\ (i \notin Excused' => Present(i)')
    BY <2>1, <2>4 DEF JobInv, Verdict, Present, Everywhere, Reconnect, Excused
  <2> QED BY <2>1, <2>3, <2>5 DEF JobInv
<1> QED BY <1>4, <1>6, <1>7, RoutingPut

LEMMA ReconnectFailsKeeps ==
  ASSUME RoutingInv, NEW u \in Servers, ReconnectFails(u)
  PROVE  RoutingInv'
<1> DEFINE jobs == [j \in Jobs |-> IF j \in Unsent(u) THEN Rejected(job[j], u, "relay") ELSE job[j]]
<1>1. Advance(jobs, wire, candidateCache)
  BY DEF ReconnectFails
<1>2. ASSUME NEW j \in Jobs
      PROVE  jobs[j] \in JobStates /\ Tidy(jobs[j]) /\ (j \notin Unsent(u) => jobs[j] = job[j])
  <2>1. job[j] \in JobStates /\ Tidy(job[j])
    BY RoutingHas
  <2>2. j \in Unsent(u) => job[j].pc = "relay"
    BY DEF Unsent
  <2> QED BY <2>1, <2>2, RejectedOK DEF Commands
<1>3. jobs \in [Jobs -> JobStates]
  BY <1>2
<1> HIDE DEF jobs
<1>4. /\ job' \in [Jobs -> JobStates] /\ wire' \in [Servers -> Seq(Requests)] /\ CacheOK(candidateCache')
      /\ \A i \in Jobs : Tidy(job'[i]) /\ ~Complete(job'[i]) /\ Settled(jobs[i], job'[i])
      /\ Extends(wire)
  BY <1>1, <1>2, <1>3, RoutingHas, Advanced
<1>5. \A i \in Jobs \ Unsent(u) : job'[i] = job[i]
  BY <1>2, <1>4, RoutingHas, SettledIfIncomplete
<1>6. AroundJobs'
  BY RoutingAround DEF ReconnectFails, AroundJobs, Unsent
<1>7. ASSUME NEW i \in Jobs \ blurred' PROVE JobInv(i)'
  <2>1. JobInv(i) /\ job'[i] = job[i]
    BY <1>5, <1>7 DEF RoutingInv, ReconnectFails
  <2>2. Owned(i)'
    BY <2>1, <1>4, RoutingHas, StillAskedIfSame, OwnedAfter DEF JobInv
  <2>3. FirstOfKind(wire', i)
    <3> SUFFICES ASSUME NEW v \in Servers, NEW k \in Heeded, NEW n \in 1..Len(wire'[v]),
                        NEW m \in 1..(n - 1), wire'[v][n] = <<k, i>>, wire'[v][m][1] = k
                 PROVE  FALSE
      BY DEF FirstOfKind
    <3> DEFINE c == <<k, i>>
    <3>1. PICK s \in Seq(Requests) :
            /\ wire'[v] = wire[v] \o s
            /\ \A d \in Commands \X Jobs : (\E l \in 1..Len(s) : s[l] = d) <=> NewCommand(d, v)
      BY <1>4 DEF Extends
    <3>2. c \in Commands \X Jobs /\ c[2] = i
      BY DEF Heeded, Commands
    <3>3. ~NewCommand(c, v)
      BY <2>1, <3>2 DEF NewCommand
    <3>4. \A l \in 1..Len(s) : s[l] # c
      BY <3>1, <3>2, <3>3
    <3> HIDE DEF c
    <3>5. /\ wire[v] \in Seq(Requests) /\ Len(wire'[v]) = Len(wire[v]) + Len(s)
          /\ \A l \in 1..Len(wire[v]) : wire'[v][l] = wire[v][l]
      BY <3>1, RoutingHas, ConcatOn
    <3>6. n \in 1..Len(wire[v])
      <4>1. \A l \in 1..(Len(wire[v]) + Len(s)) : wire'[v][l] = IF l <= Len(wire[v]) THEN wire[v][l] ELSE s[l - Len(wire[v])]
        BY <3>1, <3>5, ConcatProperties
      <4>2. CASE ~(n <= Len(wire[v]))
        <5>1. /\ Len(wire[v]) \in Nat /\ Len(s) \in Nat
              /\ n \in 1..(Len(wire[v]) + Len(s))
          BY <3>5, LenProperties
        <5>2. n - Len(wire[v]) \in 1..Len(s)
          BY <5>1, <4>2
        <5>3. wire'[v][n] = s[n - Len(wire[v])]
          BY <5>1, <4>1, <4>2
        <5> QED BY <5>2, <5>3, <3>4 DEF c
      <4> QED BY <4>2, <3>5
    <3>7. wire'[v][n] = wire[v][n] /\ wire'[v][m] = wire[v][m]
      BY <3>5, <3>6
    <3> QED BY <2>1, <3>6, <3>7 DEF JobInv, FirstOfKind
  <2>4. i \notin Excused' => i \notin Excused /\ (job[i].pc \in Heeded => Everywhere(i)')
    BY <2>1 DEF JobInv, Present, Everywhere, ReconnectFails, Excused
  <2> QED BY <2>1, <2>2, <2>3, <2>4, OtherJobs DEF ReconnectFails
<1> QED BY <1>4, <1>6, <1>7, RoutingPut

------------------------------------------------------------------------------
(* Answers: what one does to a job that takes it.                          *)
Verdicts == Places \cup {"refused"}

LEMMA ResolvedRequest ==
  ASSUME NEW r \in JobStates, Tidy(r), NEW u \in Servers, NEW k \in Commands \ {"relay"},
         r.pc = "query", r.part[u] = k, NEW val \in Verdicts, k = "query" => val \in Places, NEW lat
  PROVE  LET x == Resolved(r, u, k, val, lat) IN
         /\ x \in JobStates /\ Tidy(x) /\ x.pc = "query" /\ x.last = r.last
         /\ \A v \in Servers \ {u} : x.part[v] = r.part[v]
         /\ x.part[u] \in {"test", "report", "in", "out"}
         /\ val # "offline" \/ k # "query" => x.part[u] # "out"
<1> DEFINE p == CASE k = "query" -> IF val = "offline" THEN "out" ELSE IF u \in lat THEN "in" ELSE "test"
                  [] k = "test" -> "report"
                  [] k = "report" -> "in"
           y == IF k = "query" THEN val ELSE r.place[u]
           x == Resolved(r, u, k, val, lat)
<1>0. k \in {"query", "test", "report"}
  BY DEF Commands
<1>1. p \in Part /\ p \in {"test", "report", "in", "out"} /\ (val # "offline" \/ k # "query" => p # "out")
  BY <1>0 DEF Part
<1>2. /\ r.place \in [Servers -> Places] /\ r.part \in [Servers -> Part] /\ y \in Places
  BY DEF JobStates
<1>3. x = IF k = "query" THEN [r EXCEPT !.place[u] = y, !.part[u] = p] ELSE [r EXCEPT !.part[u] = p]
  BY <1>0 DEF Resolved
<1> HIDE DEF p, y, x
<1>4. CASE k = "query"
  <2>1. x = [r EXCEPT !.place[u] = y, !.part[u] = p]
    BY <1>3, <1>4
  <2>2. x \in JobStates
    BY <1>1, <1>2, <2>1 DEF JobStates
  <2>3. x.pc = r.pc /\ x.last = r.last /\ x.cands = r.cands /\ x.part = [r.part EXCEPT ![u] = p]
    BY <2>1 DEF JobStates
  <2>4. x.part[u] = p /\ \A v \in Servers \ {u} : x.part[v] = r.part[v]
    BY <1>2, <2>3
  <2> QED BY <1>1, <2>2, <2>3, <2>4 DEF Tidy, x
<1>5. CASE k # "query"
  <2>1. x = [r EXCEPT !.part[u] = p]
    BY <1>3, <1>5
  <2>2. x \in JobStates
    BY <1>1, <1>2, <2>1 DEF JobStates
  <2>3. x.pc = r.pc /\ x.last = r.last /\ x.cands = r.cands /\ x.part = [r.part EXCEPT ![u] = p]
    BY <2>1 DEF JobStates
  <2>4. x.part[u] = p /\ \A v \in Servers \ {u} : x.part[v] = r.part[v]
    BY <1>2, <2>3
  <2> QED BY <1>1, <2>2, <2>3, <2>4 DEF Tidy, x
<1> QED BY <1>4, <1>5

RelaysTo(r, u) == r.pc = "relay" /\ r.cands[1].url = u

LEMMA ResolvedRelay ==
  ASSUME NEW r \in JobStates, Tidy(r), NEW u \in Servers, RelaysTo(r, u),
         NEW val, NEW lat
  PROVE  LET x == Resolved(r, u, "relay", val, lat) IN
         /\ x \in JobStates /\ Tidy(x)
         /\ val = "here" => x.pc = "ok" /\ x.last = r.last
         /\ val # "here" => x.pc \in {"relay", "offline"} /\ ~RelaysTo(x, u)
<1> DEFINE x == Resolved(r, u, "relay", val, lat)
<1>0. r.cands \in Seq(Candidate) /\ r.cands # <<>> /\ Distinct(r.cands) /\ r.cands[1].url = u
  BY DEF RelaysTo, Tidy, JobStates
<1>1. CASE val = "here"
  <2>1. x = [r EXCEPT !.pc = "ok", !.cands = <<>>]
    BY <1>1 DEF Resolved, Accepted
  <2>2. <<>> \in Seq(Candidate) /\ Distinct(<<>>)
    BY DEF Distinct
  <2>3. x \in JobStates /\ x.pc = "ok" /\ x.last = r.last /\ x.cands = <<>>
    BY <2>1, <2>2 DEF JobStates, Over
  <2> QED BY <1>1, <2>2, <2>3 DEF Tidy, RelaysTo
<1>2. CASE val # "here"
  <2> DEFINE r1 == [r EXCEPT !.last = "offline"]
             c == Tail(r.cands)
  <2>1. x = TryNext(r1, c)
    BY <1>2 DEF Resolved, Accepted
  <2>2. r1 \in JobStates /\ r1.last = "offline"
    BY DEF JobStates
  <2>3. c \in Seq(Candidate) /\ Distinct(c) /\ ~Listed(c, u)
    BY <1>0, TailOfCandidates
  <2> HIDE DEF r1, c, x
  <2>4. /\ x \in JobStates /\ x.pc \in {"relay", "offline"} /\ Tidy(x)
        /\ x.pc = "relay" => x.cands # <<>>
        /\ ~Listed(x.cands, u)
    BY <2>1, <2>2, <2>3, NextCandidate DEF Tidy
  <2>5. x.pc = "relay" => 1 \in DOMAIN x.cands
    <3>1. x.cands \in Seq(Candidate)
      BY <2>4 DEF JobStates
    <3> QED BY <2>4, <3>1
  <2> QED BY <1>2, <2>4, <2>5 DEF Listed, RelaysTo, x
<1> QED BY <1>1, <1>2

(* A command that got its answer is no longer waited for, the others are.  *)
LEMMA OneLess ==
  ASSUME NEW r \in JobStates, Tidy(r), NEW u \in Servers, NEW k \in Commands, Awaits(r, u, k),
         NEW val \in Verdicts, k = "query" => val \in Places, NEW lat,
         NEW n, Settled(Resolved(r, u, k, val, lat), n), ~Complete(n),
         NEW v \in Servers, NEW c \in Heeded, Awaits(r, v, c)
  PROVE  Awaits(n, v, c) <=> ~(v = u /\ c = k)
<1> DEFINE x == Resolved(r, u, k, val, lat)
<1>1. CASE k # "relay"
  <2>1. r.pc = "query" /\ r.part[u] = k
    BY <1>1 DEF Awaits
  <2>2. c = "query" /\ r.part[v] = "query"
    BY <2>1 DEF Awaits, Heeded
  <2>3. /\ x.pc = "query" /\ x.last \in {"offline", "failed"}
        /\ \A w \in Servers \ {u} : x.part[w] = r.part[w]
        /\ x.part[u] \in {"test", "report", "in", "out"}
    <3>1. k \in Commands \ {"relay"} /\ r.last \in {"offline", "failed"}
      BY <1>1 DEF JobStates
    <3>2. /\ x.pc = "query" /\ x.last = r.last
          /\ \A w \in Servers \ {u} : x.part[w] = r.part[w]
          /\ x.part[u] \in {"test", "report", "in", "out"}
      BY <2>1, <3>1, ResolvedRequest
    <3> QED BY <3>1, <3>2
  <2> HIDE DEF x
  <2>4. CASE Complete(x)
    <3>1. n.pc # "query"
      BY <2>3, <2>4 DEF Settled, x
    <3>2. v = u
      BY <2>2, <2>3, <2>4 DEF Complete
    <3> QED BY <2>1, <2>2, <3>1, <3>2 DEF Awaits
  <2>5. CASE ~Complete(x)
    <3>1. n = x
      BY <2>5 DEF Settled, x
    <3>2. Awaits(n, v, c) <=> x.part[v] = "query"
      BY <3>1, <2>2, <2>3 DEF Awaits
    <3> QED BY <2>1, <2>2, <2>3, <3>2
  <2> QED BY <2>4, <2>5
<1>2. CASE k = "relay"
  <2>1. r.pc = "relay" /\ r.cands[1].url = u /\ RelaysTo(r, u)
    BY <1>2 DEF Awaits, RelaysTo
  <2>2. c = "relay" /\ v = u
    BY <2>1 DEF Awaits, Heeded
  <2>3. /\ val = "here" => x.pc = "ok"
        /\ val # "here" => x.pc \in {"relay", "offline"} /\ ~RelaysTo(x, u)
    <3> DEFINE y == Resolved(r, u, "relay", val, lat)
    <3>2. x = y
      BY <1>2
    <3>1. /\ y \in JobStates /\ Tidy(y)
          /\ val = "here" => y.pc = "ok" /\ y.last = r.last
          /\ val # "here" => y.pc \in {"relay", "offline"} /\ ~RelaysTo(y, u)
      BY <2>1, ResolvedRelay
    <3> HIDE DEF y
    <3> QED BY <3>1, <3>2
  <2> HIDE DEF x
  <2>4. n = x
    BY <2>3 DEF Settled, Complete, x
  <2>5. ~Awaits(n, v, c)
    BY <2>2, <2>3, <2>4 DEF Awaits, RelaysTo
  <2> QED BY <1>2, <2>2, <2>5
<1> QED BY <1>1, <1>2

(* The wire without its first command on u, and maybe with the probe's     *)
(* report after it.                                                        *)
Answered(u, base) ==
  /\ base \in [Servers -> Seq(Requests)]
  /\ \A v \in Servers \ {u} : base[v] = wire[v]
  /\ \A j \in Jobs, k \in Heeded :
       OnWireAt(base, u, <<k, j>>) <=> \E n \in 2..Len(wire[u]) : wire[u][n] = <<k, j>>

LEMMA AnsweredBase ==
  ASSUME wire \in [Servers -> Seq(Requests)], NEW u \in Servers, wire[u] # <<>>, NEW b \in BOOLEAN
  PROVE  LET rest == [wire EXCEPT ![u] = Tail(@)]
         IN  Answered(u, IF b THEN [rest EXCEPT ![u] = Append(@, <<"report", Probe>>)] ELSE rest)
<1> DEFINE w == wire[u]
           t == Tail(w)
           p == <<"report", Probe>>
           s == IF b THEN Append(t, p) ELSE t
           rest == [wire EXCEPT ![u] = Tail(@)]
           base == IF b THEN [rest EXCEPT ![u] = Append(@, p)] ELSE rest
<1>1. /\ t \in Seq(Requests) /\ Len(w) \in Nat \ {0} /\ Len(t) = Len(w) - 1
      /\ \A n \in 1..(Len(w) - 1) : t[n] = w[n + 1]
  OBVIOUS
<1>2. p \in Requests /\ \A j \in Jobs, k \in Heeded : p # <<k, j>>
  BY DEF Requests, Commands, Heeded
<1>3. base \in [Servers -> Seq(Requests)] /\ base[u] = s /\ \A v \in Servers \ {u} : base[v] = wire[v]
  <2> HIDE DEF p
  <2>1. Append(t, p) \in Seq(Requests)
    BY <1>1, <1>2
  <2> QED BY <1>1, <2>1
<1>4. ASSUME NEW j \in Jobs, NEW k \in Heeded
      PROVE  (\E n \in 1..Len(s) : s[n] = <<k, j>>) <=> \E n \in 2..Len(w) : w[n] = <<k, j>>
  <2> DEFINE c == <<k, j>>
  <2>1. c # p
    BY <1>2
  <2> HIDE DEF c, p, w, t
  <2>2. (\E n \in 1..Len(s) : s[n] = c) <=> \E n \in 1..Len(t) : t[n] = c
    <3>1. CASE b
      <4>1. /\ s = Append(t, p) /\ Len(s) = Len(t) + 1 /\ Len(t) \in Nat /\ s[Len(t) + 1] = p
            /\ \A n \in 1..Len(t) : s[n] = t[n]
        BY <3>1, <1>1, <1>2, AppendProperties
      <4>2. \A n \in 1..Len(s) : n \in 1..Len(t) \/ s[n] = p
        BY <4>1
      <4>3. \A n \in 1..Len(t) : n \in 1..Len(s)
        BY <4>1
      <4> HIDE DEF s
      <4> QED BY <4>1, <4>2, <4>3, <2>1
    <3>2. CASE ~b
      BY <3>2
    <3> QED BY <3>1, <3>2
  <2>3. (\E n \in 1..Len(t) : t[n] = c) <=> \E n \in 2..Len(w) : w[n] = c
    <3>1. ASSUME NEW n \in 1..Len(t), t[n] = c PROVE \E m \in 2..Len(w) : w[m] = c
      <4>1. n + 1 \in 2..Len(w) /\ w[n + 1] = c
        BY <3>1, <1>1
      <4> QED BY <4>1
    <3>2. ASSUME NEW m \in 2..Len(w), w[m] = c PROVE \E n \in 1..Len(t) : t[n] = c
      <4> DEFINE n == m - 1
      <4>1. n \in 1..Len(t) /\ n \in 1..(Len(w) - 1) /\ n + 1 = m
        BY <1>1
      <4> HIDE DEF n
      <4>2. t[n] = c
        BY <4>1, <3>2, <1>1
      <4> QED BY <4>1, <4>2
    <3> QED BY <3>1, <3>2
  <2> QED BY <2>2, <2>3 DEF c
<1>5. Answered(u, base)
  <2> HIDE DEF s, base, w
  <2> QED BY <1>3, <1>4 DEF Answered, OnWireAt, w
<1> QED BY <1>5

(* The first command of a wire is the one awaited, if one of its kind is.  *)
LEMMA HeadIsOwn ==
  ASSUME wire \in [Servers -> Seq(Requests)], NEW i \in Jobs, Owned(i), FirstOfKind(wire, i),
         NEW u \in Servers, wire[u] # <<>>, NEW k \in Heeded
  PROVE  /\ wire[u][1][1] = k /\ Awaits(job[i], u, k) => wire[u][1] = <<k, i>>
         /\ wire[u][1] = <<k, i>> => /\ Awaits(job[i], u, k) /\ wire[u][1][1] = k
                                     /\ \A n \in 2..Len(wire[u]) : wire[u][n] # <<k, i>>
<1> DEFINE w == wire[u]
           c == <<k, i>>
<1>1. Len(w) \in Nat \ {0} /\ c[1] = k
  OBVIOUS
<1>2. ASSUME NEW n \in 2..Len(w), w[n] = c PROVE w[1][1] # k
  <2>1. n \in 1..Len(w) /\ 1 \in 1..(n - 1)
    BY <1>1
  <2> QED BY <2>1, <1>2 DEF FirstOfKind
<1>3. (\E n \in 1..Len(w) : w[n] = c) <=> Awaits(job[i], u, k)
  BY DEF Owned, OnWireAt
<1> HIDE DEF w, c
<1>4. ASSUME w[1][1] = k, Awaits(job[i], u, k) PROVE w[1] = c
  <2>1. PICK n \in 1..Len(w) : w[n] = c
    BY <1>3, <1>4
  <2>2. n \notin 2..Len(w)
    BY <1>2, <1>4, <2>1
  <2>3. n = 1
    BY <1>1, <2>2
  <2> QED BY <2>1, <2>3
<1>5. ASSUME w[1] = c PROVE Awaits(job[i], u, k) /\ w[1][1] = k /\ \A n \in 2..Len(w) : w[n] # c
  <2>1. 1 \in 1..Len(w)
    BY <1>1
  <2> QED BY <2>1, <1>1, <1>2, <1>3, <1>5
<1> QED BY <1>4, <1>5 DEF w, c

LEMMA AskedAfterAnswer ==
  ASSUME wire \in [Servers -> Seq(Requests)], NEW i \in Jobs, Owned(i), FirstOfKind(wire, i),
         NEW u \in Servers, wire[u] # <<>>, NEW base, Answered(u, base),
         \A v \in Servers, c \in Heeded :
           Awaits(job[i], v, c) => (Awaits(job'[i], v, c) <=> ~(v = u /\ c = wire[u][1][1]))
  PROVE  StillAsked(base, i)
<1> SUFFICES ASSUME NEW v \in Servers, NEW c \in Heeded
             PROVE  OnWireAt(base, v, <<c, i>>) <=> Awaits(job[i], v, c) /\ Awaits(job'[i], v, c)
  BY DEF StillAsked
<1>1. OnWireAt(wire, v, <<c, i>>) <=> Awaits(job[i], v, c)
  BY DEF Owned
<1>2. CASE v # u
  <2>1. OnWireAt(base, v, <<c, i>>) <=> OnWireAt(wire, v, <<c, i>>)
    BY <1>2 DEF Answered, OnWireAt
  <2> QED BY <2>1, <1>1, <1>2
<1>3. CASE v = u
  <2> DEFINE w == wire[u]
             d == <<c, i>>
  <2>1. OnWireAt(base, u, d) <=> \E n \in 2..Len(w) : w[n] = d
    BY DEF Answered
  <2>2. /\ w[1][1] = c /\ Awaits(job[i], u, c) => w[1] = d
        /\ w[1] = d => w[1][1] = c /\ \A n \in 2..Len(w) : w[n] # d
    BY HeadIsOwn
  <2>3. Len(w) \in Nat \ {0}
    OBVIOUS
  <2>4. OnWireAt(wire, u, d) <=> \E n \in 1..Len(w) : w[n] = d
    BY DEF OnWireAt
  <2> HIDE DEF w, d
  <2>5. OnWireAt(wire, u, d) <=> w[1] = d \/ \E n \in 2..Len(w) : w[n] = d
    <3>1. 1 \in 1..Len(w) /\ (\A n \in 1..Len(w) : n = 1 \/ n \in 2..Len(w)) /\ 2..Len(w) \subseteq 1..Len(w)
      BY <2>3
    <3> QED BY <3>1, <2>4
  <2>6. OnWireAt(base, u, d) <=> OnWireAt(wire, u, d) /\ w[1][1] # c
    BY <1>1, <1>3, <2>1, <2>2, <2>5 DEF d
  <2>7. Awaits(job[i], u, c) => (Awaits(job'[i], u, c) <=> c # w[1][1])
    BY DEF w
  <2> QED BY <1>1, <1>3, <2>6, <2>7 DEF d
<1> QED BY <1>2, <1>3

(* A search that every server answers, and answers that it has the user.   *)
LEMMA RequestPresent ==
  ASSUME NEW r \in JobStates, Tidy(r), NEW u \in Servers, NEW k \in Commands \ {"relay"}, Awaits(r, u, k),
         r.last = "failed", \A v \in Servers : r.part[v] \in {"query", "test", "report", "in"},
         NEW val \in Verdicts, k = "query" => val = "here" /\ val \in Places, NEW lat,
         NEW n, Settled(Resolved(r, u, k, val, lat), n)
  PROVE  /\ n.pc \in {"query", "relay", "failed"} /\ n.last = "failed"
         /\ n.pc = "query" => \A v \in Servers : n.part[v] \in {"query", "test", "report", "in"}
<1> DEFINE x == Resolved(r, u, k, val, lat)
<1>0. r.pc = "query" /\ r.part[u] = k
  BY DEF Awaits
<1>1. /\ x.pc = "query" /\ x.last = r.last
      /\ \A v \in Servers \ {u} : x.part[v] = r.part[v]
      /\ x.part[u] \in {"test", "report", "in", "out"}
      /\ val # "offline" \/ k # "query" => x.part[u] # "out"
  <2>1. x.pc = "query" /\ x.last = r.last
    BY <1>0, ResolvedRequest
  <2>2. \A v \in Servers \ {u} : x.part[v] = r.part[v]
    BY <1>0, ResolvedRequest
  <2>3. x.part[u] \in {"test", "report", "in", "out"}
    BY <1>0, ResolvedRequest
  <2>4. val # "offline" \/ k # "query" => x.part[u] # "out"
    BY <1>0, ResolvedRequest
  <2> HIDE DEF x
  <2> QED BY <2>1, <2>2, <2>3, <2>4
<1>2. \A v \in Servers : x.part[v] \in {"query", "test", "report", "in"}
  <2> HIDE DEF x
  <2>1. x.part[u] # "out"
    BY <1>1
  <2> QED BY <2>1, <1>1
<1> HIDE DEF x
<1>3. CASE Complete(x)
  <2>1. \A v \in Servers : x.part[v] = "in"
    BY <1>2, <1>3 DEF Complete
  <2>2. PICK v \in Servers : TRUE
    BY RoutingAssumption
  <2>3. [url |-> v, here |-> x.place[v] = "here"] \in Found(x)
    BY <2>1 DEF Found
  <2>4. Found(x) # {}
    BY <2>3
  <2>5. n.last = x.last /\ n.pc \in {"relay", x.last}
    BY <1>3, <2>4 DEF Settled, x
  <2> QED BY <1>1, <2>5
<1>4. CASE ~Complete(x)
  <2>1. n = x
    BY <1>4 DEF Settled, x
  <2> QED BY <2>1, <1>1, <1>2
<1> QED BY <1>3, <1>4

(* A search does not end with the data taken.                              *)
LEMMA RequestNotOk ==
  ASSUME NEW r \in JobStates, Tidy(r), NEW u \in Servers, NEW k \in Commands \ {"relay"}, Awaits(r, u, k),
         NEW val \in Verdicts, k = "query" => val \in Places, NEW lat,
         NEW n, Settled(Resolved(r, u, k, val, lat), n)
  PROVE  n.pc # "ok"
<1> DEFINE x == Resolved(r, u, k, val, lat)
<1>0. r.pc = "query" /\ r.part[u] = k
  BY DEF Awaits
<1>1. x.pc = "query" /\ x.last = r.last
  <2>1. x.pc = "query"
    BY <1>0, ResolvedRequest
  <2>2. x.last = r.last
    BY <1>0, ResolvedRequest
  <2> QED BY <2>1, <2>2
<1>2. x.last \in {"offline", "failed"}
  BY <1>1 DEF JobStates
<1> HIDE DEF x
<1> QED BY <1>1, <1>2 DEF Settled, x

LEMMA RelayAnswered ==
  ASSUME NEW r \in JobStates, Tidy(r), NEW u \in Servers, Awaits(r, u, "relay"),
         NEW val \in Verdicts, NEW lat, NEW n, Settled(Resolved(r, u, "relay", val, lat), n)
  PROVE  /\ val = "here" => n.pc = "ok" /\ n.last = r.last
         /\ val # "here" => n.pc \in {"relay", "offline"}
<1> DEFINE x == Resolved(r, u, "relay", val, lat)
<1>0. RelaysTo(r, u)
  BY DEF Awaits, RelaysTo
<1>1. /\ val = "here" => x.pc = "ok" /\ x.last = r.last
      /\ val # "here" => x.pc \in {"relay", "offline"} /\ ~RelaysTo(x, u)
  BY <1>0, ResolvedRelay
<1> HIDE DEF x
<1>2. n = x
  BY <1>1 DEF Settled, Complete, x
<1> QED BY <1>1, <1>2

LEMMA ResolvedOK ==
  ASSUME NEW r \in JobStates, Tidy(r), NEW u \in Servers, NEW k \in Commands, Awaits(r, u, k),
         NEW val \in Verdicts, k = "query" => val \in Places, NEW lat
  PROVE  Resolved(r, u, k, val, lat) \in JobStates /\ Tidy(Resolved(r, u, k, val, lat))
<1>1. CASE k # "relay"
  <2>1. r.pc = "query" /\ r.part[u] = k
    BY <1>1 DEF Awaits
  <2>2. k \in Commands \ {"relay"}
    BY <1>1
  <2>3. Resolved(r, u, k, val, lat) \in JobStates
    BY <2>1, <2>2, ResolvedRequest
  <2>4. Tidy(Resolved(r, u, k, val, lat))
    BY <2>1, <2>2, ResolvedRequest
  <2> QED BY <2>3, <2>4
<1>2. CASE k = "relay"
  <2> DEFINE x == Resolved(r, u, "relay", val, lat)
  <2>1. RelaysTo(r, u)
    BY <1>2 DEF Awaits, RelaysTo
  <2>2. x \in JobStates /\ Tidy(x)
    BY <2>1, ResolvedRelay
  <2> QED BY <1>2, <2>2
<1> QED BY <1>1, <1>2

(* What an answer leaves of the part that only it changes.                 *)
LEMMA AnswerAround ==
  ASSUME RoutingInv, NEW u \in Servers, Answer(u)
  PROVE  AroundJobs'
<1>1. AroundJobs /\ UNCHANGED <<open, where, away, upset>>
  BY RoutingAround DEF Answer
<1>2. wire[u] \in Seq(Requests) /\ wire[u] # <<>>
  BY RoutingHas DEF Answer
<1>3. Head(wire[u]) \in Commands \X (Jobs \cup {Probe})
  BY <1>2 DEF Requests
<1> DEFINE k == Head(wire[u])[1]
           j == Head(wire[u])[2]
           place == IF j = Probe THEN "offline" ELSE where[Target[j]][u]
<1>4. probe' = [probe EXCEPT ![u] = NextProbe(u, k)] /\ NextProbe(u, k) \in {"idle", "test", "report"}
  BY <1>1 DEF Answer, NextProbe, AroundJobs
<1>5. probe' \in [Servers -> {"idle", "test", "report"}]
  BY <1>1, <1>4 DEF AroundJobs
<1>6. latency' \subseteq Servers
  <2>1. latency' = latency \/ latency' = latency \cup {u}
    BY DEF Answer
  <2> QED BY <1>1, <2>1 DEF AroundJobs
<1>7. delivered' \subseteq Jobs /\ refused' \subseteq Jobs
  <2>1. PICK val \in Statuses(k, place) :
          /\ delivered' = IF k = "relay" /\ val = "here" THEN delivered \cup {j} ELSE delivered
          /\ refused' = IF val = "refused" THEN refused \cup {j} ELSE refused
    BY DEF Answer
  <2>2. place = "here" => j \in Jobs
    BY <1>3
  <2>3. place # "refused"
    BY <1>1, <1>3, RoutingHas DEF AroundJobs, Places
  <2> HIDE DEF place, j, k
  <2>4. val \in {"here", "refused"} => place = "here"
    BY <2>1, <2>3 DEF Statuses
  <2> QED BY <1>1, <2>1, <2>2, <2>4 DEF AroundJobs
<1>8. blurred' \subseteq Jobs
  <2>1. blurred' = blurred \cup Mixed(wire') /\ Mixed(wire') \subseteq Jobs
    BY DEF Answer, Mixed
  <2> QED BY <1>1, <2>1 DEF AroundJobs
<1> QED BY <1>1, <1>5, <1>6, <1>7, <1>8 DEF AroundJobs

LEMMA AnswerKeeps ==
  ASSUME RoutingInv, NEW u \in Servers, Answer(u)
  PROVE  RoutingInv'
<1> DEFINE h == Head(wire[u])
           k == h[1]
           j == h[2]
           place == IF j = Probe THEN "offline" ELSE where[Target[j]][u]
<1>0. PICK val \in Statuses(k, place) :
        LET jobs == [i \in Jobs |-> IF Awaits(job[i], u, k)
                                    THEN Resolved(job[i], u, k, val, latency) ELSE job[i]]
            rest == [wire EXCEPT ![u] = Tail(@)]
        IN /\ Advance(jobs, IF probe'[u] = "report" /\ probe[u] = "test"
                            THEN [rest EXCEPT ![u] = Append(@, <<"report", Probe>>)] ELSE rest,
                      candidateCache)
           /\ delivered' = IF k = "relay" /\ val = "here" THEN delivered \cup {j} ELSE delivered
           /\ refused' = IF val = "refused" THEN refused \cup {j} ELSE refused
  BY DEF Answer
<1> DEFINE jobs == [i \in Jobs |-> IF Awaits(job[i], u, k)
                                   THEN Resolved(job[i], u, k, val, latency) ELSE job[i]]
           b == probe'[u] = "report" /\ probe[u] = "test"
           rest == [wire EXCEPT ![u] = Tail(@)]
           base == IF b THEN [rest EXCEPT ![u] = Append(@, <<"report", Probe>>)] ELSE rest
<1>1. /\ wire[u] # <<>> /\ Advance(jobs, base, candidateCache)
      /\ delivered' = IF k = "relay" /\ val = "here" THEN delivered \cup {j} ELSE delivered
      /\ refused' = IF val = "refused" THEN refused \cup {j} ELSE refused
      /\ blurred' = blurred \cup Mixed(wire') /\ UNCHANGED <<open, where, away, upset>>
  BY <1>0 DEF Answer
<1>2. h \in Commands \X (Jobs \cup {Probe}) /\ h = wire[u][1]
  BY <1>1, RoutingHas DEF Requests
<1>3. k \in Commands /\ h = <<k, j>> /\ (j \in Jobs \/ j = Probe)
  BY <1>2
<1>4. Answered(u, base)
  <2>1. b \in BOOLEAN
    OBVIOUS
  <2> HIDE DEF b
  <2> QED BY <2>1, <1>1, RoutingHas, AnsweredBase
<1>a. place \in Places
  BY <1>3, RoutingAround, RoutingHas DEF AroundJobs, Places
<1>6. j \in Jobs => place = where[Target[j]][u]
  BY RoutingAssumption
<1> HIDE DEF h, k, j, place, b, rest, base
<1>5. val \in Verdicts /\ (k = "query" => val \in Places)
  BY <1>0, <1>a DEF Statuses, Verdicts
<1>7. place = "here" => val = "here" \/ (k = "relay" /\ val = "refused")
  BY <1>0 DEF Statuses
<1>8. ASSUME NEW i \in Jobs
      PROVE  /\ jobs[i] \in JobStates /\ Tidy(jobs[i])
             /\ ~Awaits(job[i], u, k) => jobs[i] = job[i]
             /\ Awaits(job[i], u, k) => jobs[i] = Resolved(job[i], u, k, val, latency)
  BY <1>3, <1>5, RoutingHas, ResolvedOK
<1>9. jobs \in [Jobs -> JobStates]
  BY <1>8
<1> HIDE DEF jobs
<1>10. /\ job' \in [Jobs -> JobStates] /\ wire' \in [Servers -> Seq(Requests)] /\ CacheOK(candidateCache')
       /\ \A i \in Jobs : Tidy(job'[i]) /\ ~Complete(job'[i]) /\ Settled(jobs[i], job'[i])
       /\ Extends(base)
  BY <1>1, <1>4, <1>8, <1>9, RoutingHas, Advanced DEF Answered
<1>11. ASSUME NEW i \in Jobs \ blurred' PROVE JobInv(i)'
  <2> DEFINE r == job[i]
             A == Awaits(r, u, k)
  <2>1. JobInv(i) /\ i \in Jobs /\ FirstOfKind(wire', i)
    BY <1>1, <1>11, FirstIfUnmixed DEF RoutingInv
  <2>2. Owned(i) /\ FirstOfKind(wire, i) /\ Verdict(i) /\ (i \notin Excused => Present(i))
    BY <2>1 DEF JobInv
  <2>3. r \in JobStates /\ Tidy(r) /\ ~Complete(r)
    BY RoutingHas
  <2>4. ~A => job'[i] = r
    BY <1>8, <1>10, <2>3, SettledIfIncomplete
  <2>5. A => Settled(Resolved(r, u, k, val, latency), job'[i])
    BY <1>8, <1>10
  <2>6. k \in Heeded => /\ A => j = i
                        /\ j = i => A
    <3>1. ASSUME k \in Heeded
          PROVE  /\ wire[u][1][1] = k /\ Awaits(job[i], u, k) => wire[u][1] = <<k, i>>
                 /\ wire[u][1] = <<k, i>> => Awaits(job[i], u, k)
      BY <3>1, <1>1, <2>1, <2>2, RoutingHas, HeadIsOwn
    <3>2. wire[u][1] = <<k, j>> /\ wire[u][1][1] = k
      BY <1>2, <1>3
    <3>3. j = i <=> <<k, j>> = <<k, i>>
      OBVIOUS
    <3> QED BY <3>1, <3>2, <3>3
  <2> HIDE DEF A, r
  <2>7. Owned(i)'
    <3>1. ASSUME NEW v \in Servers, NEW c \in Heeded, Awaits(r, v, c)
          PROVE  Awaits(job'[i], v, c) <=> ~(v = u /\ c = k)
      <4>1. CASE A
        BY <4>1, <3>1, <2>3, <2>5, <1>3, <1>5, <1>10, OneLess DEF A
      <4>2. CASE ~A
        BY <4>2, <3>1, <2>4 DEF A
      <4> QED BY <4>1, <4>2
    <3>2. StillAsked(base, i)
      BY <3>1, <2>2, <1>1, <1>2, <1>4, RoutingHas, AskedAfterAnswer DEF r, k
    <3> QED BY <3>2, <1>4, <1>10, OwnedAfter DEF Answered
  <2>8. Verdict(i)'
    <3>1. CASE ~A
      <4>1. i \in delivered' <=> i \in delivered
        BY <3>1, <2>6, <1>1 DEF Heeded
      <4> QED BY <3>1, <4>1, <2>2, <2>4 DEF Verdict, r
    <3>2. CASE A /\ k = "relay"
      <4>1. /\ val = "here" => job'[i].pc = "ok"
            /\ val # "here" => job'[i].pc \in {"relay", "offline"}
        BY <3>2, <2>3, <2>5, <1>5, RelayAnswered DEF A
      <4>2. j = i /\ r.pc = "relay"
        BY <3>2, <2>6 DEF A, Awaits, Heeded
      <4>3. i \notin delivered
        BY <4>2, <2>2 DEF Verdict, r
      <4> QED BY <3>2, <4>1, <4>2, <4>3, <1>1 DEF Verdict
    <3>3. CASE A /\ k # "relay"
      <4>1. job'[i].pc # "ok" /\ r.pc = "query"
        <5>1. k \in Commands \ {"relay"}
          BY <3>3, <1>3
        <5>2. r.pc = "query"
          BY <3>3 DEF A, Awaits
        <5> QED BY <3>3, <5>1, <5>2, <2>3, <2>5, <1>5, RequestNotOk DEF A
      <4>2. i \notin delivered /\ delivered' = delivered
        BY <3>3, <4>1, <2>2, <1>1 DEF Verdict, r
      <4> QED BY <4>1, <4>2 DEF Verdict
    <3> QED BY <3>1, <3>2, <3>3
  <2>9. ASSUME i \notin Excused' PROVE Present(i)'
    <3>1. /\ i \notin Excused /\ Present(i) /\ (Everywhere(i) => Everywhere(i)')
          /\ j = i => val # "refused"
      BY <2>9, <2>2, <1>1 DEF Everywhere, Excused
    <3>2. CASE ~A
      BY <3>1, <3>2, <2>4 DEF Present, r
    <3>3. CASE A
      <4>1. r.pc \in Heeded /\ (k = "relay" => r.pc = "relay") /\ (k # "relay" => r.pc = "query")
        BY <3>3 DEF A, Awaits, Heeded
      <4>2. Everywhere(i) /\ Everywhere(i)' /\ r.last = "failed"
        BY <3>1, <4>1 DEF Present, r
      <4>3. k \in Heeded => val = "here"
        <5>1. k \in Heeded => j = i /\ place = "here"
          BY <4>2, <3>3, <2>6, <1>6, <2>1 DEF Everywhere
        <5> QED BY <5>1, <3>1, <1>7
      <4>4. CASE k = "relay"
        <5>1. val = "here"
          BY <4>3, <4>4 DEF Heeded
        <5>2. job'[i].pc = "ok" /\ job'[i].last = r.last
          BY <5>1, <4>4, <3>3, <2>3, <2>5, <1>5, RelayAnswered DEF A
        <5> QED BY <5>2, <4>2 DEF Present, Heeded
      <4>5. CASE k # "relay"
        <5>1. k \in Commands \ {"relay"} /\ (k = "query" => val = "here" /\ val \in Places)
          BY <4>3, <4>5, <1>3, <1>5 DEF Heeded
        <5>2. \A v \in Servers : r.part[v] \in {"query", "test", "report", "in"}
          BY <4>1, <4>5, <3>1 DEF Present, r
        <5>3. /\ job'[i].pc \in {"query", "relay", "failed"} /\ job'[i].last = "failed"
              /\ job'[i].pc = "query" => \A v \in Servers : job'[i].part[v] \in {"query", "test", "report", "in"}
          BY <5>1, <5>2, <4>2, <3>3, <2>3, <2>5, <1>5, RequestPresent DEF A
        <5> QED BY <5>3, <4>2 DEF Present
      <4> QED BY <4>4, <4>5
    <3> QED BY <3>2, <3>3
  <2> QED BY <2>1, <2>7, <2>8, <2>9 DEF JobInv
<1> QED BY <1>10, <1>11, AnswerAround, RoutingPut

------------------------------------------------------------------------------
LEMMA RoutingStart == RoutingInit => RoutingInv
<1> SUFFICES ASSUME RoutingInit PROVE RoutingInv
  OBVIOUS
<1>1. <<>> \in Seq(Candidate) /\ <<>> \in Seq(Requests) /\ Distinct(<<>>)
  BY DEF Distinct
<1>2. NewJob \in JobStates /\ NewJob.pc = "idle" /\ NewJob.last = "failed" /\ NewJob.cands = <<>>
  BY <1>1 DEF NewJob, JobStates, Over, Part, Places
<1>3. job = [j \in Jobs |-> NewJob] /\ wire = [u \in Servers |-> <<>>]
      /\ delivered = {} /\ away = {} /\ refused = {} /\ blurred = {}
  BY DEF RoutingInit
<1>4. RoutingTypeOK
  <2>1. job \in [Jobs -> JobStates] /\ wire \in [Servers -> Seq(Requests)]
        /\ candidateCache \in [TargetUsers -> Seq(Candidate)]
    BY <1>1, <1>2, <1>3 DEF RoutingInit
  <2>2. where \in [TargetUsers -> [Servers -> Places]] /\ probe \in [Servers -> {"idle", "test", "report"}]
    BY DEF RoutingInit, Places
  <2>3. open \subseteq Servers /\ latency \subseteq Servers /\ upset \in 0..MaxUpsets
    BY RoutingAssumption DEF RoutingInit
  <2> QED BY <1>3, <2>1, <2>2, <2>3 DEF RoutingTypeOK
<1>5. Resting
  <2>1. \A j \in Jobs : Tidy(job[j]) /\ ~Complete(job[j])
    BY <1>1, <1>2, <1>3 DEF Tidy, Complete
  <2>2. \A t \in TargetUsers : candidateCache[t] = <<>>
    BY DEF RoutingInit
  <2> QED BY <1>1, <2>1, <2>2 DEF Resting
<1>6. ASSUME NEW j \in Jobs PROVE JobInv(j)
  <2>1. job[j].pc = "idle" /\ job[j].last = "failed"
    BY <1>2, <1>3
  <2>2. Owned(j) /\ FirstOfKind(wire, j)
    BY <1>3, <2>1 DEF Owned, OnWireAt, Awaits, Heeded, FirstOfKind
  <2>3. Verdict(j) /\ Present(j)
    BY <1>3, <2>1 DEF Verdict, Present, Heeded
  <2> QED BY <2>2, <2>3 DEF JobInv
<1> QED BY <1>4, <1>5, <1>6 DEF RoutingInv

LEMMA RoutingStutters ==
  ASSUME RoutingInv, UNCHANGED routeVars
  PROVE  RoutingInv'
<1>1. AroundJobs' /\ UNCHANGED <<open, where, candidateCache, job, wire, delivered, away, refused, blurred>>
  BY RoutingAround DEF routeVars, AroundJobs
<1> QED BY <1>1, RoutingHas, JobsKept DEF Everywhere, Excused

LEMMA RoutingStep == RoutingInv /\ [RoutingNext]_routeVars => RoutingInv'
<1> SUFFICES ASSUME RoutingInv, [RoutingNext]_routeVars PROVE RoutingInv'
  OBVIOUS
<1>1. ASSUME NEW j \in Jobs, SendToUser(j) PROVE RoutingInv'
  BY <1>1, SendToUserKeeps
<1>2. ASSUME NEW j \in Jobs, NEW u \in Servers, NEW k \in Commands, TimesOut(j, u, k) PROVE RoutingInv'
  BY <1>2, TimesOutKeeps
<1>3. ASSUME NEW u \in Servers, Answer(u) PROVE RoutingInv'
  BY <1>3, AnswerKeeps
<1>4. ASSUME NEW u \in Servers, CloseServer(u) PROVE RoutingInv'
  BY <1>4, CloseServerKeeps
<1>5. ASSUME NEW u \in Servers, ProbeTimesOut(u) PROVE RoutingInv'
  BY <1>5, ProbeTimesOutKeeps
<1>6. ASSUME NEW u \in Servers, Reconnect(u) PROVE RoutingInv'
  BY <1>6, ReconnectKeeps
<1>7. ASSUME NEW u \in Servers, ReconnectFails(u) PROVE RoutingInv'
  BY <1>7, ReconnectFailsKeeps
<1>8. ASSUME NEW u \in Servers, TestLatency(u) PROVE RoutingInv'
  BY <1>8, TestLatencyKeeps
<1>9. ASSUME NEW t \in TargetUsers, ExpireCandidates(t) PROVE RoutingInv'
  BY <1>9, ExpireCandidatesKeeps
<1>10. ASSUME NEW t \in TargetUsers, NEW u \in Servers, Move(t, u) PROVE RoutingInv'
  BY <1>10, MoveKeeps
<1>11. CASE UNCHANGED routeVars
  BY <1>11, RoutingStutters
<1> QED BY <1>1, <1>2, <1>3, <1>4, <1>5, <1>6, <1>7, <1>8, <1>9, <1>10, <1>11 DEF RoutingNext

LEMMA RoutingHolds == RoutingSpec => []RoutingInv
BY RoutingStart, RoutingStep, PTL DEF RoutingSpec

(* The state of ServerRouting keeps its types, for every set of servers and*)
(* jobs: what the searches, answers and time-outs of server.js leave of a  *)
(* job, of the commands on a connection and of the candidate cache.        *)
THEOREM RoutingTyped == RoutingSpec => []RoutingTypeOK
<1>1. RoutingInv => RoutingTypeOK
  BY DEF RoutingInv
<1> QED BY <1>1, RoutingHolds, PTL

(* What sendToUser says of a call no other answer or time-out disturbed is *)
(* so: "ok" exactly when a server passed its data on (server.js:563), and  *)
(* "offline" (:917) only if some server did not have the session during it,*)
(* or refused the data.                                                    *)
THEOREM VerdictSoundHolds == RoutingSpec => []VerdictSound
<1>1. RoutingInv => VerdictSound
  BY DEF RoutingInv, JobInv, Verdict, Present, VerdictSound, Excused
<1> QED BY <1>1, RoutingHolds, PTL
--------------------------------------------------------------------------------
(* ServiceDiscovery.  A lookup that has not come to wait owes nothing to   *)
(* any session, and what is owed to one that waits is by sessions that run *)
(* the service.                                                            *)
(***************************************************************************)
Seeking == {"idle", "asking", "listing", "querying"}
Lookup == [pc : Seeking \cup {"waiting"} \cup Results, ids : SUBSET Sids, left : SUBSET Sids,
           matched : SUBSET Sids, responded : SUBSET Sids]
Cache == [known : BOOLEAN, sessions : SUBSET Sids, fresh : BOOLEAN]
Early == \A c \in Lookups : lookup[c].pc \in Seeking => since[c] = {}
Serving == \A c \in Lookups : since[c] \subseteq services
DiscoveryInv == DiscoveryTypeOK /\ Early /\ Serving /\ WaiterNotForgotten

\* What WaiterNotForgotten asks of one session.
Told(s) == \/ s \in missed
           \/ \E x \in notices : x.from = s /\ x.up
           \/ \E i \in 1..Len(announced[s]) : announced[s][i] = TRUE

LEMMA HeadAndTail ==
  ASSUME NEW T, NEW q \in Seq(T), q # <<>>
  PROVE  /\ q[1] = Head(q) /\ Head(q) \in T /\ Tail(q) \in Seq(T)
         /\ \A i \in 1..Len(q) : i # 1 => i - 1 \in 1..Len(Tail(q)) /\ Tail(q)[i - 1] = q[i]
OBVIOUS

LEMMA LookupsTyped == DiscoveryInv => lookup \in [Lookups -> Lookup]
BY DEF DiscoveryInv, DiscoveryTypeOK, Lookup, Seeking

LEMMA WaitersAreTold ==
  ASSUME announced \in [Sids -> Seq(BOOLEAN)]
  PROVE  WaiterNotForgotten <=> \A c \in serviceWaiters, s \in Sids : s \in since[c] => Told(s)
<1>1. \A s \in Sids : \A i \in 1..Len(announced[s]) : announced[s][i] <=> announced[s][i] = TRUE
  <2> TAKE s \in Sids
  <2>1. announced[s] \in Seq(BOOLEAN)
    OBVIOUS
  <2> QED BY <2>1
<1> QED BY <1>1 DEF WaiterNotForgotten, Told

LEMMA BecomesTold ==
  ASSUME DiscoveryInv, announced' \in [Sids -> Seq(BOOLEAN)]
  PROVE  WaiterNotForgotten' <=>
           \A c \in serviceWaiters', s \in Sids : s \in since'[c] => Told(s)'
<1>1. \A s \in Sids : \A i \in 1..Len(announced'[s]) : announced'[s][i] <=> announced'[s][i] = TRUE
  <2> TAKE s \in Sids
  <2>1. announced'[s] \in Seq(BOOLEAN)
    OBVIOUS
  <2> QED BY <2>1
<1> QED BY <1>1 DEF WaiterNotForgotten, Told

(* One lookup goes on, to a place where it does not wait.                  *)
LEMMA LookupMoves ==
  ASSUME DiscoveryInv, NEW c \in Lookups, NEW r \in Lookup, r.pc # "waiting",
         lookup[c].pc \in Seeking,
         lookup' = [lookup EXCEPT ![c] = r], Keep, serviceWaiters' = serviceWaiters,
         serviceSessionCache' \in Cache, misses' \in 0..MaxMisses
  PROVE  DiscoveryInv'
<1>1. lookup' \in [Lookups -> Lookup] /\ \A d \in Lookups : lookup'[d] = IF d = c THEN r ELSE lookup[d]
  BY DEF DiscoveryInv, DiscoveryTypeOK, Lookup, Seeking
<1>2. serviceWaiters' = {d \in Lookups : lookup'[d].pc = "waiting"}
  BY <1>1 DEF DiscoveryInv, DiscoveryTypeOK, Seeking
<1>3. DiscoveryTypeOK'
  BY <1>1, <1>2 DEF DiscoveryInv, DiscoveryTypeOK, Lookup, Seeking, Cache, Keep, peer
<1>4. Early'
  BY <1>1 DEF DiscoveryInv, Early, Keep
<1> QED BY <1>3, <1>4 DEF DiscoveryInv, Serving, WaiterNotForgotten, Keep, peer

(* One lookup comes to wait.                                               *)
LEMMA LookupWaits ==
  ASSUME DiscoveryInv, NEW c \in Lookups, NEW r \in Lookup, r.pc = "waiting",
         lookup[c].pc \in Seeking,
         lookup' = [lookup EXCEPT ![c] = r], Keep, serviceWaiters' = serviceWaiters \cup {c},
         serviceSessionCache' \in Cache, misses' \in 0..MaxMisses
  PROVE  DiscoveryInv'
<1>1. lookup' \in [Lookups -> Lookup] /\ \A d \in Lookups : lookup'[d] = IF d = c THEN r ELSE lookup[d]
  BY DEF DiscoveryInv, DiscoveryTypeOK, Lookup, Seeking
<1>2. serviceWaiters' = {d \in Lookups : lookup'[d].pc = "waiting"}
  BY <1>1 DEF DiscoveryInv, DiscoveryTypeOK, Seeking
<1>3. DiscoveryTypeOK'
  BY <1>1, <1>2 DEF DiscoveryInv, DiscoveryTypeOK, Lookup, Seeking, Cache, Keep, peer
<1>4. Early'
  BY <1>1 DEF DiscoveryInv, Early, Keep, Seeking
<1>5. since[c] = {}
  BY DEF DiscoveryInv, Early
<1>6. WaiterNotForgotten'
  BY <1>5 DEF DiscoveryInv, WaiterNotForgotten, Keep
<1> QED BY <1>3, <1>4, <1>6 DEF DiscoveryInv, Serving, Keep, peer

LEMMA StepKeeps ==
  ASSUME DiscoveryInv, NEW c \in Lookups, NEW r \in Lookup, r.pc # "waiting",
         lookup[c].pc \in Seeking, Step(c, r), Keep, misses' \in 0..MaxMisses
  PROVE  DiscoveryInv'
<1>1. lookup' = [lookup EXCEPT ![c] = r] /\ serviceWaiters' = serviceWaiters
      /\ serviceSessionCache' \in Cache
  BY DEF Step, found, DiscoveryInv, DiscoveryTypeOK, Cache
<1> QED BY <1>1, LookupMoves

LEMMA TargetsKeep ==
  ASSUME DiscoveryInv, NEW c \in Lookups, NEW S \in SUBSET Sids, NEW offline \in BOOLEAN,
         lookup[c].pc \in Seeking, Targets(c, S, offline), Keep,
         serviceSessionCache' \in Cache, misses' \in 0..MaxMisses
  PROVE  DiscoveryInv'
<1>1. CASE /\ lookup' = [lookup EXCEPT ![c] = [NewLookup EXCEPT !.matched = S,
                             !.pc = IF offline THEN "offline" ELSE "deliver"]]
           /\ UNCHANGED serviceWaiters
  <2> DEFINE r == [NewLookup EXCEPT !.matched = S, !.pc = IF offline THEN "offline" ELSE "deliver"]
  <2>1. r \in Lookup /\ r.pc # "waiting"
    BY DEF NewLookup, Lookup, Results, Seeking
  <2>2. lookup' = [lookup EXCEPT ![c] = r] /\ serviceWaiters' = serviceWaiters
    BY <1>1
  <2> HIDE DEF r
  <2> QED BY <2>1, <2>2, LookupMoves
<1>2. CASE /\ lookup' = [lookup EXCEPT ![c] = [NewLookup EXCEPT !.pc = "no_receiver"]]
           /\ UNCHANGED serviceWaiters
  <2> DEFINE r == [NewLookup EXCEPT !.pc = "no_receiver"]
  <2>1. r \in Lookup /\ r.pc # "waiting"
    BY DEF NewLookup, Lookup, Results, Seeking
  <2>2. lookup' = [lookup EXCEPT ![c] = r] /\ serviceWaiters' = serviceWaiters
    BY <1>2
  <2> HIDE DEF r
  <2> QED BY <2>1, <2>2, LookupMoves
<1>3. CASE /\ lookup' = [lookup EXCEPT ![c] = [NewLookup EXCEPT !.pc = "waiting"]]
           /\ serviceWaiters' = serviceWaiters \cup {c}
  <2> DEFINE r == [NewLookup EXCEPT !.pc = "waiting"]
  <2>1. r \in Lookup /\ r.pc = "waiting"
    BY DEF NewLookup, Lookup, Results, Seeking
  <2>2. lookup' = [lookup EXCEPT ![c] = r] /\ serviceWaiters' = serviceWaiters \cup {c}
    BY <1>3
  <2> HIDE DEF r
  <2> QED BY <2>1, <2>2, LookupWaits
<1> QED BY <1>1, <1>2, <1>3 DEF Targets

(* A step of a session of the peer, or of what the server knows of it, that*)
(* leaves the lookups where they are.                                      *)
LEMMA QuietStep ==
  ASSUME DiscoveryInv, DiscoveryTypeOK', lookup' = lookup, serviceWaiters' = serviceWaiters,
         announced' = announced, missed' = missed,
         \A x \in notices : x.from \in services' => x \in notices',
         \A c \in Lookups : since'[c] \subseteq since[c] \cap services'
  PROVE  DiscoveryInv'
<1>1. Early'
  BY DEF DiscoveryInv, Early
<1>2. Serving'
  BY DEF Serving
<1>3. WaiterNotForgotten'
  <2> SUFFICES ASSUME NEW c \in serviceWaiters', NEW s \in Sids, s \in since'[c]
               PROVE  Told(s)'
    BY BecomesTold DEF DiscoveryTypeOK
  <2>1. c \in Lookups /\ c \in serviceWaiters /\ s \in since[c] /\ s \in services'
    BY DEF DiscoveryInv, DiscoveryTypeOK
  <2>2. Told(s)
    BY <2>1, WaitersAreTold DEF DiscoveryInv, DiscoveryTypeOK
  <2>3. ASSUME NEW x \in notices, x.from = s, x.up PROVE Told(s)'
    BY <2>1, <2>3 DEF Told
  <2> QED BY <2>2, <2>3 DEF Told
<1> QED BY <1>1, <1>2, <1>3 DEF DiscoveryInv

LEMMA RegisterKeeps ==
  ASSUME DiscoveryInv, NEW s \in Sids, Register(s)
  PROVE  DiscoveryInv'
<1> DEFINE x == [from |-> s, up |-> TRUE, n |-> changes']
<1>1. /\ s \in running \ services /\ services' = services \cup {s} /\ notices' = notices \cup {x}
      /\ since' = [c \in Lookups |-> IF c \in serviceWaiters THEN since[c] \cup {s} ELSE since[c]]
      /\ UNCHANGED <<running, listed, onServer, announced, found, lookup, liveness, missed, misses>>
      /\ unsynced' \subseteq Sids /\ changes' \in 1..MaxChanges
  BY DiscoveryAssumption DEF Register, Announce, Change, DiscoveryInv, DiscoveryTypeOK
<1>2. x \in [from : Sids, up : BOOLEAN, n : 1..MaxChanges] /\ x.from = s /\ x.up
  BY <1>1
<1>3. DiscoveryTypeOK'
  <2>1. notices' \subseteq [from : Sids, up : BOOLEAN, n : 1..MaxChanges]
    BY <1>1, <1>2 DEF DiscoveryInv, DiscoveryTypeOK
  <2>2. since' \in [Lookups -> SUBSET Sids]
    BY <1>1 DEF DiscoveryInv, DiscoveryTypeOK
  <2>3. services' \subseteq running' /\ changes' \in 0..MaxChanges
    BY <1>1 DEF DiscoveryInv, DiscoveryTypeOK
  <2> QED BY <1>1, <2>1, <2>2, <2>3 DEF DiscoveryInv, DiscoveryTypeOK, found
<1>4. Early'
  BY <1>1 DEF DiscoveryInv, DiscoveryTypeOK, Early, Seeking
<1>5. Serving'
  BY <1>1 DEF DiscoveryInv, Serving
<1>6. WaiterNotForgotten'
  <2> SUFFICES ASSUME NEW c \in serviceWaiters', NEW t \in Sids, t \in since'[c]
               PROVE  Told(t)'
    BY <1>3, BecomesTold DEF DiscoveryTypeOK
  <2>1. c \in Lookups /\ c \in serviceWaiters
    BY <1>1 DEF DiscoveryInv, DiscoveryTypeOK, found
  <2>2. CASE t = s
    BY <1>1, <1>2, <2>2 DEF Told
  <2>3. CASE t # s
    <3>1. Told(t)
      BY <1>1, <2>1, <2>3, WaitersAreTold DEF DiscoveryInv, DiscoveryTypeOK
    <3> QED BY <1>1, <3>1 DEF Told
  <2> QED BY <2>2, <2>3
<1> QED BY <1>3, <1>4, <1>5, <1>6 DEF DiscoveryInv

LEMMA SessionsKeep ==
  ASSUME DiscoveryInv, NEW s \in Sids,
         Unregister(s) \/ CloseSession(s) \/ ServerLearns(s) \/ ServerDrops(s)
  PROVE  DiscoveryInv'
<1>1. CASE Unregister(s)
  <2> DEFINE x == [from |-> s, up |-> FALSE, n |-> changes']
  <2>1. /\ services' = services \ {s} /\ since' = [c \in Lookups |-> since[c] \ {s}]
        /\ notices' = notices \cup {x}
        /\ UNCHANGED <<running, listed, onServer, announced, found, lookup, liveness, missed, misses>>
        /\ unsynced' \subseteq Sids /\ changes' \in 1..MaxChanges
    BY <1>1, DiscoveryAssumption DEF Unregister, Announce, Change, DiscoveryInv, DiscoveryTypeOK
  <2>2. since' \in [Lookups -> SUBSET Sids]
    BY <2>1 DEF DiscoveryInv, DiscoveryTypeOK
  <2>7. x \in [from : Sids, up : BOOLEAN, n : 1..MaxChanges]
    BY <2>1
  <2>3. notices' \subseteq [from : Sids, up : BOOLEAN, n : 1..MaxChanges]
    BY <2>1, <2>7 DEF DiscoveryInv, DiscoveryTypeOK
  <2>4. changes' \in 0..MaxChanges /\ services' \subseteq running'
    BY <2>1 DEF DiscoveryInv, DiscoveryTypeOK
  <2>5. DiscoveryTypeOK'
    BY <2>1, <2>2, <2>3, <2>4 DEF DiscoveryInv, DiscoveryTypeOK, found
  <2>6. \A c \in Lookups : since'[c] \subseteq since[c] \cap services'
    BY <2>1 DEF DiscoveryInv, Serving
  <2> QED BY <2>1, <2>5, <2>6, QuietStep DEF found
<1>2. CASE CloseSession(s)
  <2>1. /\ running' = running \ {s} /\ services' = services \ {s}
        /\ since' = [c \in Lookups |-> since[c] \ {s}]
        /\ unsynced' = unsynced \ {s} /\ notices' = {x \in notices : x.from # s}
        /\ UNCHANGED <<listed, onServer, announced, found, lookup, liveness, missed, misses>>
        /\ changes' \in 0..MaxChanges
    BY <1>2, DiscoveryAssumption DEF CloseSession, Change, DiscoveryInv, DiscoveryTypeOK
  <2>2. since' \in [Lookups -> SUBSET Sids]
    BY <2>1 DEF DiscoveryInv, DiscoveryTypeOK
  <2>3. DiscoveryTypeOK'
    BY <2>1, <2>2 DEF DiscoveryInv, DiscoveryTypeOK, found
  <2>4. \A c \in Lookups : since'[c] \subseteq since[c] \cap services'
    BY <2>1 DEF DiscoveryInv, Serving
  <2>5. \A x \in notices : x.from \in services' => x \in notices'
    BY <2>1
  <2> QED BY <2>1, <2>3, <2>4, <2>5, QuietStep DEF found
<1>3. CASE ServerLearns(s) \/ ServerDrops(s)
  <2>1. /\ onServer' \subseteq listed' /\ listed' \subseteq Sids /\ running \subseteq listed'
        /\ unsynced' \subseteq Sids
        /\ UNCHANGED <<running, services, notices, announced, found, lookup, liveness, since,
                       missed, changes, misses>>
    BY <1>3 DEF ServerLearns, ServerDrops, DiscoveryInv, DiscoveryTypeOK
  <2>2. DiscoveryTypeOK'
    BY <2>1 DEF DiscoveryInv, DiscoveryTypeOK, found
  <2>3. \A c \in Lookups : since'[c] \subseteq since[c] \cap services'
    BY <2>1 DEF DiscoveryInv, Serving
  <2> QED BY <2>1, <2>2, <2>3, QuietStep DEF found
<1> QED BY <1>1, <1>2, <1>3

(* A notice becomes an announcement; the page it is from is open when it is*)
(* from a session that serves.                                             *)
LEMMA NotifyKeeps ==
  ASSUME DiscoveryInv, NEW x \in notices, NotifyServiceChange(x) \/ NotifyFails(x)
  PROVE  DiscoveryInv'
<1>0. /\ x.from \in Sids /\ x.up \in BOOLEAN /\ announced \in [Sids -> Seq(BOOLEAN)]
      /\ notices' = notices \ {x}
      /\ UNCHANGED <<peer, found, lookup, liveness, since, changes>>
  BY DEF DiscoveryInv, DiscoveryTypeOK, NotifyServiceChange, NotifyFails
<1>1. announced' \in [Sids -> Seq(BOOLEAN)] /\ missed \subseteq missed' /\ missed' \subseteq Sids
      /\ misses' \in 0..MaxMisses
  <2>1. CASE NotifyServiceChange(x)
    <3>1. missed' = missed /\ misses' = misses
          /\ announced' = IF x.from \in running THEN [announced EXCEPT ![x.from] = Append(@, x.up)]
                          ELSE announced
      BY <2>1 DEF NotifyServiceChange
    <3>2. Append(announced[x.from], x.up) \in Seq(BOOLEAN)
      BY <1>0
    <3> QED BY <1>0, <3>1, <3>2 DEF DiscoveryInv, DiscoveryTypeOK
  <2>2. CASE NotifyFails(x)
    BY <1>0, <2>2, DiscoveryAssumption DEF NotifyFails, Miss, DiscoveryInv, DiscoveryTypeOK
  <2> QED BY <2>1, <2>2
<1>2. DiscoveryTypeOK'
  BY <1>0, <1>1 DEF DiscoveryInv, DiscoveryTypeOK, peer, found
<1>3. Early' /\ Serving'
  BY <1>0 DEF DiscoveryInv, Early, Serving, peer
<1>4. WaiterNotForgotten'
  <2> SUFFICES ASSUME NEW c \in serviceWaiters', NEW s \in Sids, s \in since'[c]
               PROVE  Told(s)'
    BY <1>1, BecomesTold
  <2>1. c \in Lookups /\ c \in serviceWaiters /\ s \in since[c] /\ s \in running
    BY <1>0 DEF DiscoveryInv, DiscoveryTypeOK, Serving, found
  <2>2. Told(s)
    BY <2>1, WaitersAreTold DEF DiscoveryInv, DiscoveryTypeOK
  <2>3. CASE s \in missed
    BY <1>1, <2>3 DEF Told
  <2>4. ASSUME NEW y \in notices, y.from = s, y.up PROVE Told(s)'
    <3>1. CASE y # x
      BY <1>0, <2>4, <3>1 DEF Told
    <3>2. CASE y = x /\ NotifyServiceChange(x)
      <4>1. announced' = [announced EXCEPT ![s] = Append(@, x.up)] /\ x.up = TRUE
        BY <1>0, <2>1, <2>4, <3>2 DEF NotifyServiceChange
      <4>2. announced'[s] = Append(announced[s], x.up) /\ announced[s] \in Seq(BOOLEAN)
        BY <1>0, <4>1
      <4>3. /\ Len(announced[s]) + 1 \in 1..Len(announced'[s])
            /\ announced'[s][Len(announced[s]) + 1] = x.up
        BY <4>2
      <4> QED BY <4>1, <4>3 DEF Told
    <3>3. CASE y = x /\ NotifyFails(x)
      BY <2>4, <3>3 DEF NotifyFails, Told
    <3> QED BY <3>1, <3>2, <3>3
  <2>5. ASSUME NEW i \in 1..Len(announced[s]), announced[s][i] = TRUE PROVE Told(s)'
    <3>1. announced'[s] = announced[s] \/ announced'[s] = Append(announced[s], x.up)
      BY <1>0 DEF NotifyServiceChange, NotifyFails
    <3>2. i \in 1..Len(announced'[s]) /\ announced'[s][i] = announced[s][i]
      BY <1>0, <3>1
    <3> QED BY <2>5, <3>2 DEF Told
  <2> QED BY <2>2, <2>3, <2>4, <2>5 DEF Told
<1> QED BY <1>2, <1>3, <1>4 DEF DiscoveryInv

(* A session that comes up wakes every lookup that waits; one that goes    *)
(* takes nothing off the line but its own announcement.                    *)
LEMMA AnnouncementKeeps ==
  ASSUME DiscoveryInv, NEW s \in Sids, HandleServiceAvailability(s)
  PROVE  DiscoveryInv'
<1> DEFINE up == Head(announced[s])
           S == IF up THEN serviceSessionCache.sessions \cup {s}
                ELSE serviceSessionCache.sessions \ {s}
<1>1. /\ announced[s] # <<>> /\ announced' = [announced EXCEPT ![s] = Tail(@)]
      /\ serviceSessionCache' = Entry(S)
      /\ UNCHANGED <<peer, notices, liveness, since, missed, changes, misses>>
  BY DEF HandleServiceAvailability
<1>0. announced[s] \in Seq(BOOLEAN)
  BY DEF DiscoveryInv, DiscoveryTypeOK
<1>2. /\ announced[s][1] = up /\ up \in BOOLEAN /\ Tail(announced[s]) \in Seq(BOOLEAN)
      /\ \A i \in 1..Len(announced[s]) : i # 1 =>
            i - 1 \in 1..Len(Tail(announced[s])) /\ Tail(announced[s])[i - 1] = announced[s][i]
  BY <1>0, <1>1, HeadAndTail
<1>3. announced' \in [Sids -> Seq(BOOLEAN)]
  BY <1>1, <1>2 DEF DiscoveryInv, DiscoveryTypeOK
<1>4. S \subseteq Sids
  BY DEF DiscoveryInv, DiscoveryTypeOK
<1>5. serviceSessionCache' \in Cache
  BY <1>1, <1>4 DEF Entry, Cache
<1>6. CASE up
  <2>1. /\ lookup' = [c \in Lookups |-> IF c \in serviceWaiters
                        THEN [lookup[c] EXCEPT !.pc = "deliver", !.matched = S] ELSE lookup[c]]
        /\ serviceWaiters' = {}
    BY <1>6 DEF HandleServiceAvailability, Woken
  <2>2. lookup' \in [Lookups -> Lookup]
    <3>1. ASSUME NEW l \in Lookup, NEW K \in SUBSET Sids
          PROVE  [l EXCEPT !.pc = "deliver", !.matched = K] \in Lookup
      BY DEF Lookup, Results
    <3>2. \A c \in Lookups : lookup[c] \in Lookup
      BY LookupsTyped
    <3>3. \A c \in Lookups : [lookup[c] EXCEPT !.pc = "deliver", !.matched = S] \in Lookup
      BY <1>4, <3>1, <3>2
    <3> QED BY <2>1, <3>2, <3>3
  <2>3. \A c \in Lookups : lookup'[c].pc # "waiting" /\ (lookup'[c].pc \in Seeking => lookup'[c] = lookup[c])
    BY <2>1 DEF DiscoveryInv, DiscoveryTypeOK, Seeking
  <2>4. DiscoveryTypeOK'
    BY <1>1, <1>3, <1>5, <2>1, <2>2, <2>3
    DEF DiscoveryInv, DiscoveryTypeOK, Lookup, Cache, Seeking, peer
  <2>5. Early' /\ Serving'
    BY <1>1, <2>3 DEF DiscoveryInv, Early, Serving, peer
  <2> QED BY <2>1, <2>4, <2>5 DEF DiscoveryInv, WaiterNotForgotten
<1>7. CASE ~up
  <2>1. lookup' = lookup /\ serviceWaiters' = serviceWaiters
    BY <1>7 DEF HandleServiceAvailability
  <2>2. DiscoveryTypeOK'
    BY <1>1, <1>3, <1>5, <2>1 DEF DiscoveryInv, DiscoveryTypeOK, Cache, peer
  <2>3. Early' /\ Serving'
    BY <1>1, <2>1 DEF DiscoveryInv, Early, Serving, peer
  <2>4. WaiterNotForgotten'
    <3> SUFFICES ASSUME NEW c \in serviceWaiters', NEW t \in Sids, t \in since'[c]
                 PROVE  Told(t)'
      BY <1>3, BecomesTold
    <3>1. Told(t)
      BY <1>1, <2>1, WaitersAreTold DEF DiscoveryInv, DiscoveryTypeOK
    <3>2. ASSUME NEW i \in 1..Len(announced[t]), announced[t][i] = TRUE PROVE Told(t)'
      <4>1. CASE t = s
        <5>1. i # 1
          BY <1>2, <1>7, <3>2, <4>1
        <5>2. i - 1 \in 1..Len(Tail(announced[s])) /\ Tail(announced[s])[i - 1] = announced[s][i]
          BY <1>2, <3>2, <4>1, <5>1
        <5>3. announced'[s] = Tail(announced[s])
          BY <1>1 DEF DiscoveryInv, DiscoveryTypeOK
        <5> QED BY <3>2, <4>1, <5>2, <5>3 DEF Told
      <4>2. CASE t # s
        BY <1>1, <3>2, <4>2 DEF Told, DiscoveryInv, DiscoveryTypeOK
      <4> QED BY <4>1, <4>2
    <3> QED BY <1>1, <3>1, <3>2 DEF Told
  <2> QED BY <2>2, <2>3, <2>4 DEF DiscoveryInv
<1> QED BY <1>2, <1>6, <1>7

(* The steps of a lookup.                                                  *)
LEMMA LookupStarts ==
  ASSUME DiscoveryInv, NEW c \in Lookups, ResolveServiceTargets(c)
  PROVE  DiscoveryInv'
<1>1. lookup[c].pc \in Seeking /\ Keep /\ misses' \in 0..MaxMisses
  BY DEF ResolveServiceTargets, Seeking, DiscoveryInv, DiscoveryTypeOK
<1>2. CASE serviceSessionCache.known /\ serviceSessionCache.fresh
  <2>1. Targets(c, serviceSessionCache.sessions, FALSE) /\ serviceSessionCache' = serviceSessionCache
    BY <1>2 DEF ResolveServiceTargets
  <2>2. serviceSessionCache.sessions \in SUBSET Sids /\ serviceSessionCache' \in Cache
    BY <2>1 DEF DiscoveryInv, DiscoveryTypeOK, Cache
  <2> QED BY <1>1, <2>1, <2>2, TargetsKeep
<1>3. CASE ~(serviceSessionCache.known /\ serviceSessionCache.fresh)
  <2> DEFINE r == [NewLookup EXCEPT !.pc = "asking"]
  <2>1. Step(c, r)
    BY <1>3 DEF ResolveServiceTargets
  <2>2. r \in Lookup /\ r.pc # "waiting"
    BY DEF NewLookup, Lookup, Seeking
  <2> HIDE DEF r
  <2> QED BY <1>1, <2>1, <2>2, StepKeeps
<1> QED BY <1>2, <1>3

LEMMA ListKeeps ==
  ASSUME DiscoveryInv, NEW c \in Lookups, NEW ids \in SUBSET Sids, NEW exposed \in SUBSET Sids,
         ServerListed(c, ids, exposed), misses' \in 0..MaxMisses
  PROVE  DiscoveryInv'
<1>1. lookup[c].pc \in Seeking /\ Keep
  BY DEF ServerListed, Seeking
<1>2. CASE ids = {}
  <2>1. serviceSessionCache' = NoEntry /\ Targets(c, {}, TRUE)
    BY <1>2, Zenon DEF ServerListed
  <2>2. NoEntry \in Cache
    BY DEF NoEntry, Cache
  <2> QED BY <1>1, <2>1, <2>2, TargetsKeep
<1>3. CASE ids # {} /\ exposed # {}
  <2>1. serviceSessionCache' = Entry(exposed) /\ Targets(c, exposed, FALSE)
    BY <1>3, Zenon DEF ServerListed
  <2>2. Entry(exposed) \in Cache
    BY DEF Entry, Cache
  <2> QED BY <1>1, <2>1, <2>2, TargetsKeep
<1>4. CASE ids # {} /\ exposed = {}
  <2> DEFINE r == [lookup[c] EXCEPT !.pc = "listing", !.ids = ids]
  <2>1. Step(c, r)
    BY <1>4 DEF ServerListed
  <2>2. r \in Lookup /\ r.pc # "waiting"
    <3>1. lookup[c] \in Lookup
      BY LookupsTyped
    <3> QED BY <3>1 DEF Lookup, Seeking
  <2> HIDE DEF r
  <2> QED BY <1>1, <2>1, <2>2, StepKeeps
<1> QED BY <1>2, <1>3, <1>4

LEMMA EndKeeps ==
  ASSUME DiscoveryInv, NEW c \in Lookups, NEW r \in Lookup, QueryEnds(c, r),
         lookup[c].pc \in Seeking, Keep, misses' \in 0..MaxMisses
  PROVE  DiscoveryInv'
<1>1. r.matched \in SUBSET Sids /\ r.ids \in SUBSET Sids
  BY DEF Lookup
<1>2. serviceSessionCache' \in Cache
  BY <1>1 DEF QueryEnds, Entry, Cache
<1>3. Targets(c, r.ids, FALSE) \/ Targets(c, r.matched, FALSE)
  BY DEF QueryEnds
<1> QED BY <1>1, <1>2, <1>3, TargetsKeep

LEMMA SessionIdsKeep ==
  ASSUME DiscoveryInv, NEW c \in Lookups, NEW ids \in SUBSET Sids, GetSessionIds(c, ids),
         misses' \in 0..MaxMisses
  PROVE  DiscoveryInv'
<1> DEFINE r == [lookup[c] EXCEPT !.pc = "querying", !.left = ids]
<1>1. lookup[c].pc \in Seeking /\ Keep /\ (QueryEnds(c, r) \/ Step(c, r))
  BY DEF GetSessionIds, Seeking
<1>2. r \in Lookup /\ r.pc # "waiting"
  <2>1. lookup[c] \in Lookup
    BY LookupsTyped
  <2> QED BY <2>1 DEF Lookup, Seeking
<1> HIDE DEF r
<1> QED BY <1>1, <1>2, EndKeeps, StepKeeps

LEMMA ResponseKeeps ==
  ASSUME DiscoveryInv, NEW c \in Lookups, NEW s \in Sids, ServiceResponse(c, s)
  PROVE  DiscoveryInv'
<1> DEFINE r == [lookup[c] EXCEPT !.left = @ \ {s}, !.responded = @ \cup {s},
                   !.matched = IF RunsService(s) THEN @ \cup {s} ELSE @]
<1>1. /\ lookup[c].pc = "querying" /\ Keep /\ (QueryEnds(c, r) \/ Step(c, r))
      /\ misses' \in 0..MaxMisses
  BY DEF ServiceResponse, DiscoveryInv, DiscoveryTypeOK
<1>2. r \in Lookup /\ r.pc # "waiting"
  <2>1. lookup[c] \in Lookup
    BY LookupsTyped
  <2> QED BY <1>1, <2>1 DEF Lookup, Seeking
<1> HIDE DEF r
<1> QED BY <1>1, <1>2, EndKeeps, StepKeeps DEF Seeking

LEMMA NotSentKeeps ==
  ASSUME DiscoveryInv, NEW c \in Lookups, NEW s \in Sids, QueryNotSent(c, s)
  PROVE  DiscoveryInv'
<1> DEFINE r == [lookup[c] EXCEPT !.left = @ \ {s}]
<1>1. lookup[c].pc = "querying" /\ Keep /\ Step(c, r) /\ misses' \in 0..MaxMisses
  BY DiscoveryAssumption DEF QueryNotSent, Miss, DiscoveryInv, DiscoveryTypeOK
<1>2. r \in Lookup /\ r.pc # "waiting"
  <2>1. lookup[c] \in Lookup
    BY LookupsTyped
  <2> QED BY <1>1, <2>1 DEF Lookup, Seeking
<1> HIDE DEF r
<1> QED BY <1>1, <1>2, StepKeeps DEF Seeking

LEMMA WaitEndKeeps ==
  ASSUME DiscoveryInv, NEW c \in Lookups, WaitTimesOut(c)
  PROVE  DiscoveryInv'
<1>1. /\ lookup' = [lookup EXCEPT ![c].pc = "no_receiver"] /\ serviceWaiters' = serviceWaiters \ {c}
      /\ serviceSessionCache' = serviceSessionCache /\ Keep /\ misses' = misses
  BY DEF WaitTimesOut
<1>2. lookup' \in [Lookups -> Lookup]
  <2>1. lookup[c] \in Lookup /\ lookup \in [Lookups -> Lookup]
    BY LookupsTyped
  <2>2. [lookup[c] EXCEPT !.pc = "no_receiver"] \in Lookup
    BY <2>1 DEF Lookup, Results
  <2> QED BY <1>1, <2>1, <2>2
<1>3. /\ lookup'[c].pc = "no_receiver" /\ \A d \in Lookups \ {c} : lookup'[d] = lookup[d]
  BY <1>1 DEF DiscoveryInv, DiscoveryTypeOK
<1>4. serviceWaiters' = {d \in Lookups : lookup'[d].pc = "waiting"}
  BY <1>1, <1>3 DEF DiscoveryInv, DiscoveryTypeOK
<1>5. DiscoveryTypeOK'
  BY <1>1, <1>2, <1>4 DEF DiscoveryInv, DiscoveryTypeOK, Lookup, Seeking, Keep, peer
<1>6. Early' /\ Serving'
  BY <1>1, <1>3 DEF DiscoveryInv, Early, Serving, Seeking, Keep, peer
<1> QED BY <1>1, <1>5, <1>6 DEF DiscoveryInv, WaiterNotForgotten, Keep

LEMMA LookupsKeep ==
  ASSUME DiscoveryInv, NEW c \in Lookups,
         \/ ResolveServiceTargets(c) \/ QueryUserOnline(c) \/ QueryUserOnlineFails(c)
         \/ ListSessions(c) \/ ListSessionsFails(c) \/ QueryTimesOut(c) \/ WaitTimesOut(c)
         \/ \E s \in Sids : ServiceResponse(c, s) \/ QueryNotSent(c, s)
  PROVE  DiscoveryInv'
<1>1. listed \in SUBSET Sids /\ onServer \in SUBSET Sids /\ misses \in 0..MaxMisses
      /\ (Miss => misses' \in 0..MaxMisses)
  BY DiscoveryAssumption DEF DiscoveryInv, DiscoveryTypeOK, Miss
<1>2. CASE QueryUserOnline(c)
  BY <1>1, <1>2, ListKeeps DEF QueryUserOnline
<1>3. CASE QueryUserOnlineFails(c)
  BY <1>1, <1>3, ListKeeps DEF QueryUserOnlineFails
<1>4. CASE ListSessions(c)
  BY <1>1, <1>4, SessionIdsKeep DEF ListSessions
<1>5. CASE ListSessionsFails(c)
  BY <1>1, <1>5, SessionIdsKeep DEF ListSessionsFails
<1>6. CASE QueryTimesOut(c)
  <2>1. lookup[c] \in Lookup /\ lookup[c].pc \in Seeking /\ misses' \in 0..MaxMisses
        /\ QueryEnds(c, lookup[c]) /\ Keep
    BY <1>1, <1>6 DEF QueryTimesOut, DiscoveryInv, DiscoveryTypeOK, Lookup, Seeking
  <2> QED BY <2>1, EndKeeps
<1> QED BY <1>2, <1>3, <1>4, <1>5, <1>6, LookupStarts, WaitEndKeeps, ResponseKeeps, NotSentKeeps

LEMMA CacheKeeps ==
  ASSUME DiscoveryInv, Expire \/ \E s \in Sids : CheckLiveness(s)
  PROVE  DiscoveryInv'
<1>1. /\ serviceSessionCache' \in Cache /\ misses' \in 0..MaxMisses
      /\ liveness' \in [Sids -> {"unknown", "alive", "dead"}]
      /\ UNCHANGED <<peer, notices, announced, serviceWaiters, lookup, since, missed, changes>>
  <2>1. CASE Expire
    BY <2>1 DEF Expire, Keep, Cache, DiscoveryInv, DiscoveryTypeOK
  <2>2. CASE \E s \in Sids : CheckLiveness(s)
    <3>0. PICK s \in Sids : CheckLiveness(s)
      BY <2>2
    <3>1. liveness' \in [Sids -> {"unknown", "alive", "dead"}] /\ misses' \in 0..MaxMisses
      <4>1. liveness' = [liveness EXCEPT ![s] = "alive"] \/ liveness' = [liveness EXCEPT ![s] = "dead"]
        BY <3>0 DEF CheckLiveness
      <4>2. misses' = misses \/ Miss
        BY <3>0 DEF CheckLiveness
      <4> QED BY <4>1, <4>2, DiscoveryAssumption DEF Miss, DiscoveryInv, DiscoveryTypeOK
    <3>2. serviceSessionCache' \in Cache
      BY <3>0 DEF CheckLiveness, NoEntry, Cache, DiscoveryInv, DiscoveryTypeOK
    <3> QED BY <3>0, <3>1, <3>2 DEF CheckLiveness
  <2> QED BY <2>1, <2>2
<1>2. DiscoveryTypeOK'
  BY <1>1 DEF DiscoveryInv, DiscoveryTypeOK, Cache, peer
<1> QED BY <1>1, <1>2 DEF DiscoveryInv, Early, Serving, WaiterNotForgotten, peer

LEMMA DiscoveryInvStep == DiscoveryInv /\ [DiscoveryNext]_discoveryVars => DiscoveryInv'
<1> SUFFICES ASSUME DiscoveryInv, [DiscoveryNext]_discoveryVars PROVE DiscoveryInv'
  OBVIOUS
<1>1. CASE UNCHANGED discoveryVars
  BY <1>1 DEF discoveryVars, peer, found, DiscoveryInv, DiscoveryTypeOK, Early, Serving,
     WaiterNotForgotten
<1> QED
  BY <1>1, RegisterKeeps, SessionsKeep, NotifyKeeps, AnnouncementKeeps, LookupsKeep, CacheKeeps
  DEF DiscoveryNext

LEMMA InitDiscoveryInv == DiscoveryInit => DiscoveryInv
<1> SUFFICES ASSUME DiscoveryInit PROVE DiscoveryInv
  OBVIOUS
<1>1. NewLookup \in Lookup /\ NewLookup.pc # "waiting" /\ NoEntry \in Cache
  BY DEF NewLookup, NoEntry, Lookup, Seeking, Cache
<1>2. DiscoveryTypeOK
  <2>1. announced \in [Sids -> Seq(BOOLEAN)]
    BY DEF DiscoveryInit
  <2>2. lookup \in [Lookups -> Lookup] /\ {c \in Lookups : lookup[c].pc = "waiting"} = {}
    BY <1>1 DEF DiscoveryInit
  <2>3. serviceSessionCache \in Cache
    BY <1>1 DEF DiscoveryInit
  <2> QED BY <2>1, <2>2, <2>3, DiscoveryAssumption
          DEF DiscoveryInit, DiscoveryTypeOK, Lookup, Seeking, Cache
<1> QED BY <1>2 DEF DiscoveryInit, DiscoveryInv, Early, Serving, WaiterNotForgotten

LEMMA AlwaysDiscoveryInv == DiscoverySpec => []DiscoveryInv
BY InitDiscoveryInv, DiscoveryInvStep, PTL DEF DiscoverySpec

(* The sessions, the cache and the lookups of sendToService stay well typed*)
(* (remote-user.js:131-148), and #serviceWaiters holds the lookups that    *)
(* wait.                                                                   *)
THEOREM ServiceDiscoveryTyped == DiscoverySpec => []DiscoveryTypeOK
<1>1. DiscoveryInv => DiscoveryTypeOK
  BY DEF DiscoveryInv
<1> QED BY <1>1, AlwaysDiscoveryInv, PTL

(* A call that waits for the service is not forgotten: a session that      *)
(* registered it since, and still runs it, has an announcement on the way  *)
(* or had one lost (remote-user.js:992, :1703).                            *)
THEOREM WaiterNotForgottenHolds == DiscoverySpec => []WaiterNotForgotten
<1>1. DiscoveryInv => WaiterNotForgotten
  BY DEF DiscoveryInv
<1> QED BY <1>1, AlwaysDiscoveryInv, PTL

------------------------------------------------------------------------------
(* The parts together: a step of one part is a stutter of the others.       *)

LEMMA PartsOfClient ==
  ClientSpec => Spec /\ RtcSpec /\ RoutingSpec /\ DiscoverySpec
<1>1. ClientInit => Init /\ RtcInit /\ RoutingInit /\ DiscoveryInit
  BY DEF ClientInit
<1> DEFINE all == <<focus, rtcVars, connVars, routeVars, discoveryVars>>
<1>2. [ClientNext]_all => [Next]_connVars
  BY DEF ClientNext
<1>3. [ClientNext]_all => [RtcNext]_rtcVars
  BY DEF ClientNext
<1>4. [ClientNext]_all => [RoutingNext]_routeVars
  BY DEF ClientNext
<1>5. [ClientNext]_all => [DiscoveryNext]_discoveryVars
  BY DEF ClientNext
<1> QED BY <1>1, <1>2, <1>3, <1>4, <1>5, PTL DEF ClientSpec, Spec, RtcSpec, RoutingSpec, DiscoverySpec

(* Whatever part moves, its state stays well typed.                         *)
THEOREM ClientTyped == ClientSpec => []TypesOK
<1> DEFINE Moves == focus \in {"rtc", "connections", "routing", "discovery"}
           all == <<focus, rtcVars, connVars, routeVars, discoveryVars>>
<1>1. ClientInit => Moves
  BY DEF ClientInit
<1>2. Moves /\ [ClientNext]_all => Moves'
  BY DEF ClientNext
<1>3. Moves /\ TypeOK /\ RtcTypeOK /\ RoutingTypeOK /\ DiscoveryTypeOK => TypesOK
  BY DEF TypesOK
<1> QED BY <1>1, <1>2, <1>3, PartsOfClient, ServerConnectionsTyped, RtcTyped, RoutingTyped,
           ServiceDiscoveryTyped, PTL DEF ClientSpec
==============================================================================
